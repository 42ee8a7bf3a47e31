------------------------------ MODULE ProcessProofs ------------------------------
(***************************************************************************)
(* Proofs about ProcessShell, for every command line, overlay of           *)
(* directories, edit and signal: the rules in force, what is said of them  *)
(* and what is printed follow from whole readings of the files, and no     *)
(* signal is lost in a reload.                                             *)
(***************************************************************************)
EXTENDS ProcessShell, SequenceProofs

-----------------------------------------------------------------------------
(* What one more file does to what a reading declares.                     *)

\* Whether the file is the first of its layer for its rule's name.
Declares(r, x) ==
  /\ IsRule(x.content)
  /\ \A k \in 1..Len(r) :
       IsRule(r[k].content) /\ r[k].layer = x.layer
         => r[k].content.name # x.content.name

LEMMA Longer ==
  ASSUME NEW S, NEW r \in Seq(S), NEW x \in S
  PROVE  /\ Append(r, x) \in Seq(S)
         /\ Len(r) \in Nat
         /\ Len(Append(r, x)) = Len(r) + 1
         /\ DOMAIN Append(r, x) = 1..Len(r) + 1
         /\ \A j \in 1..Len(r) : Append(r, x)[j] = r[j]
         /\ Append(r, x)[Len(r) + 1] = x
OBVIOUS

LEMMA DefiningOn ==
  ASSUME NEW S, NEW r \in Seq(S), NEW x \in S
  PROVE  /\ Defining(r) \subseteq 1..Len(r)
         /\ Defining(Append(r, x)) =
              IF Declares(r, x) THEN Defining(r) \union {Len(r) + 1} ELSE Defining(r)
<1> DEFINE longer == Append(r, x)
           n == Len(r)
<1>1. n \in Nat /\ DOMAIN r = 1..n /\ DOMAIN longer = 1..n + 1 /\ longer[n + 1] = x
      /\ \A j \in 1..n : longer[j] = r[j]
  BY Longer
<1>2. Defining(r) \subseteq 1..n
  BY <1>1 DEF Defining
<1> HIDE DEF longer, n
<1>3. ASSUME NEW j \in 1..n PROVE j \in Defining(longer) <=> j \in Defining(r)
  <2>1. \A k \in 1..j - 1 : k \in 1..n /\ longer[k] = r[k]
    BY <1>1, <1>3
  <2>2. j \in DOMAIN longer /\ j \in DOMAIN r /\ longer[j] = r[j]
    BY <1>1, <1>3
  <2> QED BY <2>1, <2>2 DEF Defining
<1>4. n + 1 \in Defining(longer) <=> Declares(r, x)
  <2>1. n + 1 - 1 = n
    BY <1>1
  <2>2. n + 1 \in DOMAIN longer
    BY <1>1
  <2> QED BY <1>1, <2>1, <2>2 DEF Defining, Declares, n
<1>5. Defining(longer) \subseteq 1..n + 1
  BY <1>1 DEF Defining
<1>6. \A j \in 1..n + 1 : j \in 1..n \/ j = n + 1
  BY <1>1
<1>7. ~(n + 1 \in 1..n)
  BY <1>1
<1>8. Defining(longer) = IF Declares(r, x) THEN Defining(r) \union {n + 1} ELSE Defining(r)
  BY <1>2, <1>3, <1>4, <1>5, <1>6, <1>7
<1> QED BY <1>2, <1>8 DEF n, longer

LEMMA ErrorsOn ==
  ASSUME NEW S, NEW r \in Seq(S), NEW x \in S
  PROVE  /\ Errors(r) = [i \in 1..Len(Errors(r)) |-> Errors(r)[i]]
         /\ Len(Errors(r)) \in Nat
         /\ Errors(Append(r, x)) =
              IF Declares(r, x) THEN Errors(r)
              ELSE [i \in 1..Len(Errors(r)) + 1 |->
                      IF i = Len(Errors(r)) + 1 THEN x.at ELSE Errors(r)[i]]
<1> DEFINE longer == Append(r, x)
           n == Len(r)
           R == DOMAIN r \ Defining(r)
           c == Cardinality(R)
<1>1. n \in Nat /\ DOMAIN r = 1..n /\ DOMAIN longer = 1..n + 1 /\ longer[n + 1] = x
      /\ \A j \in 1..n : longer[j] = r[j]
  BY Longer
<1>2. /\ Defining(r) \subseteq 1..n
      /\ Defining(longer) = IF Declares(r, x) THEN Defining(r) \union {n + 1} ELSE Defining(r)
  BY DefiningOn
<1>3. R \subseteq 1..n
  BY <1>1
<1>4. \A i \in 1..c : InOrder(R)[i] \in 1..n
  BY <1>1, <1>3, OrderedMembers
<1>5. Errors(r) = [i \in 1..c |-> r[InOrder(R)[i]].at]
  BY DEF Errors, InOrder
<1>6. c \in Nat
  BY <1>1, <1>3, Below
<1>7. Len(Errors(r)) = c
  BY <1>5, <1>6
<1>10. DOMAIN InOrder(R) = 1..c
  BY DEF InOrder
<1>11. 1..n + 1 = (1..n) \union {n + 1} /\ n + 1 \notin 1..n
  BY <1>1
<1> HIDE DEF R, c, n, longer
<1>8. CASE Declares(r, x)
  <2>1. DOMAIN longer \ Defining(longer) = R
    BY <1>1, <1>2, <1>8, <1>11 DEF R
  <2>2. Errors(longer) = [i \in 1..c |-> longer[InOrder(R)[i]].at]
    BY <2>1, <1>10 DEF Errors
  <2>3. Errors(longer) = Errors(r)
    BY <2>2, <1>1, <1>4, <1>5
  <2> QED BY <2>3, <1>5, <1>6, <1>7, <1>8 DEF longer
<1>9. CASE ~Declares(r, x)
  <2>1. DOMAIN longer \ Defining(longer) = R \union {n + 1}
    BY <1>1, <1>2, <1>9, <1>11 DEF R
  <2>2. /\ Cardinality(R \union {n + 1}) = c + 1
        /\ InOrder(R \union {n + 1}) = [i \in 1..c + 1 |-> IF i = c + 1 THEN n + 1 ELSE InOrder(R)[i]]
    BY <1>1, <1>3, OneMore DEF c
  <2>3. Errors(longer) = [i \in 1..c + 1 |-> longer[InOrder(R \union {n + 1})[i]].at]
    BY <2>1, <2>2 DEF Errors
  <2>4. ASSUME NEW i \in 1..c + 1
        PROVE  longer[InOrder(R \union {n + 1})[i]].at = IF i = c + 1 THEN x.at ELSE Errors(r)[i]
    <3>1. CASE i = c + 1
      BY <3>1, <2>2, <1>1
    <3>2. CASE i # c + 1
      <4>1. i \in 1..c
        BY <3>2, <1>6
      <4>2. InOrder(R \union {n + 1})[i] = InOrder(R)[i] /\ InOrder(R)[i] \in 1..n
        BY <4>1, <3>2, <2>2, <1>4
      <4> QED BY <4>1, <4>2, <3>2, <1>1, <1>5
    <3> QED BY <3>1, <3>2
  <2>5. Errors(longer) = [i \in 1..c + 1 |-> IF i = c + 1 THEN x.at ELSE Errors(r)[i]]
    BY <2>3, <2>4
  <2> QED BY <2>5, <1>5, <1>6, <1>7, <1>9 DEF longer
<1> QED BY <1>8, <1>9

\* The rules as the next file leaves them.
Overridden(rules, rule) == [i \in DOMAIN rules |-> IF rules[i].name = rule.name THEN rule ELSE rules[i]]

LEMMA OverlayOn ==
  ASSUME NEW S, NEW r \in Seq(S), NEW x \in S
  PROVE  /\ Overlay(r) = [i \in 1..Len(Overlay(r)) |-> Overlay(r)[i]]
         /\ Len(Overlay(r)) \in Nat
         /\ Names(Append(r, x)) =
              IF Declares(r, x) THEN Names(r) \union {x.content.name} ELSE Names(r)
         /\ Overlay(Append(r, x)) =
              CASE ~Declares(r, x) -> Overlay(r)
                [] Declares(r, x) /\ x.content.name \in Names(r) -> Overridden(Overlay(r), x.content)
                [] Declares(r, x) /\ x.content.name \notin Names(r) ->
                     [i \in 1..Len(Overlay(r)) + 1 |->
                        IF i = Len(Overlay(r)) + 1 THEN x.content ELSE Overlay(r)[i]]
<1> DEFINE longer == Append(r, x)
           n == Len(r)
           F == Firsts(r)
           c == Cardinality(F)
           name == x.content.name
           NameAt(i) == r[InOrder(F)[i]].content.name
<1>1. n \in Nat /\ DOMAIN r = 1..n /\ DOMAIN longer = 1..n + 1 /\ longer[n + 1] = x
      /\ \A j \in 1..n : longer[j] = r[j]
  BY Longer
<1>2. /\ Defining(r) \subseteq 1..n
      /\ Defining(longer) = IF Declares(r, x) THEN Defining(r) \union {n + 1} ELSE Defining(r)
  BY DefiningOn
<1>3. F \subseteq Defining(r) /\ F \subseteq 1..n
  BY <1>2 DEF Firsts
<1>4. c \in Nat
  BY <1>1, <1>3, Below
<1>5. \A i \in 1..c : InOrder(F)[i] \in F /\ InOrder(F)[i] \in 1..n
  BY <1>1, <1>3, OrderedMembers
<1>6. DOMAIN InOrder(F) = 1..c
  BY DEF InOrder
<1>7. 1..n + 1 = (1..n) \union {n + 1} /\ n + 1 \notin 1..n
  BY <1>1
<1>8. Overlay(r) = [i \in 1..c |-> r[Latest(Definitions(r, NameAt(i)))].content]
  BY <1>6 DEF Overlay
<1>9. Len(Overlay(r)) = c /\ DOMAIN Overlay(r) = 1..c
  BY <1>4, <1>8
<1> HIDE DEF F, c, n, longer, name
<1>10. \A i \in 1..c : /\ Latest(Definitions(r, NameAt(i))) \in Definitions(r, NameAt(i))
                       /\ Latest(Definitions(r, NameAt(i))) \in 1..n
  <2> SUFFICES ASSUME NEW i \in 1..c
               PROVE  /\ Latest(Definitions(r, NameAt(i))) \in Definitions(r, NameAt(i))
                      /\ Latest(Definitions(r, NameAt(i))) \in 1..n
    OBVIOUS
  <2>1. InOrder(F)[i] \in Definitions(r, NameAt(i))
    BY <1>3, <1>5 DEF Definitions
  <2>2. Definitions(r, NameAt(i)) \subseteq 1..n
    BY <1>2 DEF Definitions
  <2> HIDE DEF NameAt
  <2> QED BY <2>1, <2>2, <1>1, LatestIsLast
<1>11. \A i \in 1..c : Overlay(r)[i].name = NameAt(i)
  BY <1>8, <1>10 DEF Definitions
<1>12. \A other : Definitions(longer, other) =
         IF Declares(r, x) /\ other = name THEN Definitions(r, other) \union {n + 1} ELSE Definitions(r, other)
  BY <1>1, <1>2, <1>7 DEF Definitions, name
<1>13. Names(longer) = IF Declares(r, x) THEN Names(r) \union {name} ELSE Names(r)
  BY <1>1, <1>2, <1>7 DEF Names, name
<1>14. CASE ~Declares(r, x)
  <2>1. \A j \in Defining(r) : longer[j] = r[j]
    BY <1>1, <1>2
  <2>2. Firsts(longer) = F
    BY <2>1, <1>2, <1>12, <1>14 DEF Firsts, F
  <2>3. Overlay(longer) = [i \in 1..c |-> longer[Latest(Definitions(longer, longer[InOrder(F)[i]].content.name))].content]
    BY <2>2, <1>6 DEF Overlay
  <2>4. \A i \in 1..c : longer[Latest(Definitions(longer, longer[InOrder(F)[i]].content.name))] = r[Latest(Definitions(r, NameAt(i)))]
    BY <1>1, <1>5, <1>10, <1>12, <1>14
  <2>5. Overlay(longer) = Overlay(r)
    BY <2>3, <2>4, <1>8
  <2> QED BY <2>5, <1>4, <1>8, <1>9, <1>13, <1>14 DEF longer, name
<1>15. CASE Declares(r, x)
  <2>1. \A j \in Defining(r) : longer[j] = r[j] /\ j \in 1..n /\ j <= n + 1 /\ ~(n + 1 <= j)
    BY <1>1, <1>2
  <2>2. n + 1 \in Defining(longer) /\ longer[n + 1].content.name = name
    BY <1>1, <1>2, <1>15 DEF name
  <2>3. \A i \in 1..c : longer[InOrder(F)[i]].content.name = NameAt(i)
    BY <1>1, <1>5
  <2>4. \A i \in 1..c : NameAt(i) # name => Definitions(longer, NameAt(i)) = Definitions(r, NameAt(i))
    BY <1>12
  <2>5. Definitions(longer, name) = Definitions(r, name) \union {n + 1}
    BY <1>12, <1>15
  <2>6. Latest(Definitions(longer, name)) = n + 1
    <3>1. Definitions(longer, name) \subseteq 1..n + 1
      BY <1>1 DEF Definitions, Defining
    <3> DEFINE D == Definitions(longer, name)
    <3>2. n + 1 \in D
      BY <2>5
    <3> HIDE DEF D
    <3>3. Latest(D) \in D /\ \A k \in D : k <= Latest(D)
      BY <3>1, <3>2, <1>1, LatestIsLast DEF D
    <3> QED BY <3>1, <3>2, <3>3, <1>1 DEF D
  <2>7. CASE name \in Names(r)
    <3>1. PICK j \in Definitions(r, name) : TRUE
      BY <2>7 DEF Names, Definitions
    <3>2. n + 1 \notin Firsts(longer)
      BY <2>1, <2>2, <2>5, <3>1 DEF Firsts, Definitions
    <3>3. \A k \in Defining(r) : k \in Firsts(longer) <=> k \in F
      BY <1>2, <1>12, <2>1, <1>15 DEF Firsts, F
    <3>4. Firsts(longer) = F
      BY <3>2, <3>3, <1>2, <1>3, <1>15 DEF Firsts
    <3>5. Overlay(longer) = [i \in 1..c |-> longer[Latest(Definitions(longer, longer[InOrder(F)[i]].content.name))].content]
      BY <3>4, <1>6 DEF Overlay
    <3>6. ASSUME NEW i \in 1..c
          PROVE  longer[Latest(Definitions(longer, NameAt(i)))].content
                   = IF Overlay(r)[i].name = name THEN x.content ELSE Overlay(r)[i]
      <4>1. CASE NameAt(i) = name
        BY <4>1, <1>1, <1>11, <2>6
      <4>2. CASE NameAt(i) # name
        BY <4>2, <1>1, <1>8, <1>10, <1>11, <2>4
      <4> QED BY <4>1, <4>2
    <3>7. Overlay(longer) = [i \in 1..c |-> IF Overlay(r)[i].name = name THEN x.content ELSE Overlay(r)[i]]
      BY <2>3, <3>5, <3>6
    <3>8. Overlay(longer) = Overridden(Overlay(r), x.content)
      BY <3>7, <1>9 DEF Overridden, name
    <3> QED BY <3>8, <2>7, <1>4, <1>8, <1>9, <1>13, <1>15 DEF longer, name
  <2>8. CASE name \notin Names(r)
    <3>1. Definitions(r, name) = {}
      BY <2>8 DEF Names, Definitions
    <3>2. n + 1 \in Firsts(longer)
      <4>1. \A k \in Definitions(longer, name) : k = n + 1
        BY <2>5, <3>1
      <4>2. n + 1 <= n + 1
        BY <1>1
      <4> QED BY <2>2, <4>1, <4>2 DEF Firsts
    <3>3. \A k \in Defining(r) : k \in Firsts(longer) <=> k \in F
      BY <1>2, <1>12, <2>1, <1>15 DEF Firsts, F
    <3>4. Firsts(longer) = F \union {n + 1}
      BY <3>2, <3>3, <1>2, <1>3, <1>15 DEF Firsts
    <3>5. /\ Cardinality(F \union {n + 1}) = c + 1
          /\ InOrder(F \union {n + 1}) = [i \in 1..c + 1 |-> IF i = c + 1 THEN n + 1 ELSE InOrder(F)[i]]
      BY <1>1, <1>3, OneMore DEF c
    <3>6. Overlay(longer) =
            [i \in 1..c + 1 |-> longer[Latest(Definitions(longer, longer[InOrder(F \union {n + 1})[i]].content.name))].content]
      BY <3>4, <3>5 DEF Overlay
    <3>7. ASSUME NEW i \in 1..c + 1
          PROVE  longer[Latest(Definitions(longer, longer[InOrder(F \union {n + 1})[i]].content.name))].content
                   = IF i = c + 1 THEN x.content ELSE Overlay(r)[i]
      <4>1. CASE i = c + 1
        BY <4>1, <3>5, <1>1, <2>2, <2>6
      <4>2. CASE i # c + 1
        <5>1. i \in 1..c
          BY <4>2, <1>4
        <5>2. InOrder(F \union {n + 1})[i] = InOrder(F)[i]
          BY <3>5, <4>2
        <5>3. NameAt(i) # name
          BY <5>1, <1>3, <1>5, <2>8 DEF Names
        <5> QED BY <5>1, <5>2, <5>3, <4>2, <1>1, <1>8, <1>10, <2>3, <2>4
      <4> QED BY <4>1, <4>2
    <3>8. Overlay(longer) = [i \in 1..c + 1 |-> IF i = c + 1 THEN x.content ELSE Overlay(r)[i]]
      BY <3>6, <3>7
    <3> QED BY <3>8, <2>8, <1>4, <1>8, <1>9, <1>13, <1>15 DEF longer, name
  <2> QED BY <2>7, <2>8
<1> QED BY <1>14, <1>15

-----------------------------------------------------------------------------
(* The builder holds what the reading so far declares.                     *)

LEMMA AppendedAs ==
  ASSUME NEW s, Len(s) \in Nat, s = [i \in 1..Len(s) |-> s[i]], NEW e
  PROVE  /\ Append(s, e) = [i \in 1..Len(s) + 1 |-> IF i = Len(s) + 1 THEN e ELSE s[i]]
         /\ Len(Append(s, e)) = Len(s) + 1
<1> DEFINE S == {s[i] : i \in 1..Len(s)} \union {e}
<1>1. s \in Seq(S) /\ e \in S
  OBVIOUS
<1> HIDE DEF S
<1>2. /\ Append(s, e) \in Seq(S) /\ Len(Append(s, e)) = Len(s) + 1
      /\ \A i \in 1..Len(s) : Append(s, e)[i] = s[i]
      /\ Append(s, e)[Len(s) + 1] = e
  BY <1>1
<1>3. Append(s, e) = [i \in 1..Len(s) + 1 |-> Append(s, e)[i]]
  <2>1. Append(s, e) = [i \in 1..Len(Append(s, e)) |-> Append(s, e)[i]]
    BY <1>2, AsFunction
  <2> QED BY <2>1, <1>2
<1>4. \A i \in 1..Len(s) + 1 : i = Len(s) + 1 \/ i \in 1..Len(s)
  OBVIOUS
<1>5. \A i \in 1..Len(s) + 1 : Append(s, e)[i] = IF i = Len(s) + 1 THEN e ELSE s[i]
  BY <1>2, <1>4
<1> QED BY <1>2, <1>3, <1>5

LayerNames(r, l) ==
  {r[k].content.name : k \in {j \in 1..Len(r) : IsRule(r[j].content) /\ r[j].layer = l}}

Builds(b, r) ==
  /\ b = [commands |-> Overlay(r), names |-> b.names, layer |-> b.layer]
  /\ b.layer \in Nat
  /\ b.names = [name \in Names(r) |-> b.names[name]]
  /\ \A name \in Names(r) :
       /\ b.names[name].index \in DOMAIN Overlay(r)
       /\ b.names[name].layer \in 0..b.layer
  /\ \A i \in DOMAIN Overlay(r) :
       Overlay(r)[i].name \in Names(r) /\ b.names[Overlay(r)[i].name].index = i
  /\ \A name \in Names(r) : Overlay(r)[b.names[name].index].name = name

\* It knows which names the layer has had.
KnowsLayer(b, r, l) ==
  \A name : name \in LayerNames(r, l) <=> name \in Names(r) /\ b.names[name].layer = b.layer

LEMMA BuilderFollows ==
  ASSUME NEW S, NEW r \in Seq(S), NEW x \in S, NEW b, Builds(b, r), KnowsLayer(b, r, x.layer)
  PROVE  /\ Accepts(b, x.content) <=> Declares(r, x)
         /\ Builds(add_file(b, x.content), Append(r, x))
         /\ KnowsLayer(add_file(b, x.content), Append(r, x), x.layer)
<1> DEFINE longer == Append(r, x)
           n == Len(r)
           c == Len(Overlay(r))
           rule == x.content
           new == add_file(b, rule)
<1>1. n \in Nat /\ DOMAIN r = 1..n /\ Len(longer) = n + 1 /\ longer[n + 1] = x
      /\ \A j \in 1..n : longer[j] = r[j]
  BY Longer
<1>2. /\ Overlay(r) = [i \in 1..c |-> Overlay(r)[i]] /\ c \in Nat
      /\ Names(longer) = IF Declares(r, x) THEN Names(r) \union {rule.name} ELSE Names(r)
      /\ Overlay(longer) =
           CASE ~Declares(r, x) -> Overlay(r)
             [] Declares(r, x) /\ rule.name \in Names(r) -> Overridden(Overlay(r), rule)
             [] Declares(r, x) /\ rule.name \notin Names(r) ->
                  [i \in 1..c + 1 |-> IF i = c + 1 THEN rule ELSE Overlay(r)[i]]
  BY OverlayOn
<1>3. Accepts(b, rule) <=> Declares(r, x)
  <2>1. Declares(r, x) <=> IsRule(rule) /\ rule.name \notin LayerNames(r, x.layer)
    BY <1>1 DEF Declares, LayerNames
  <2>2. DOMAIN b.names = Names(r)
    BY DEF Builds
  <2> QED BY <2>1, <2>2 DEF Accepts, IsDuplicate, KnowsLayer
<1>4. LayerNames(longer, x.layer) =
        IF IsRule(rule) THEN LayerNames(r, x.layer) \union {rule.name} ELSE LayerNames(r, x.layer)
  <2>1. 1..n + 1 = (1..n) \union {n + 1} /\ n + 1 \notin 1..n
    BY <1>1
  <2> QED BY <1>1, <2>1 DEF LayerNames
<1>5. DOMAIN Overlay(r) = 1..c
  BY <1>2
<1> HIDE DEF longer, n, c, rule
<1>6. CASE ~Declares(r, x)
  <2>1. new = b
    BY <1>3, <1>6 DEF add_file
  <2>2. Overlay(longer) = Overlay(r) /\ Names(longer) = Names(r)
    BY <1>2, <1>6
  <2>3. LayerNames(longer, x.layer) = LayerNames(r, x.layer)
    BY <1>1, <1>4, <1>6 DEF Declares, LayerNames, rule, n
  <2> QED BY <1>3, <2>1, <2>2, <2>3 DEF Builds, KnowsLayer, longer, rule
<1>7. CASE Declares(r, x) /\ rule.name \in Names(r)
  <2> DEFINE index == b.names[rule.name].index
  <2>1. new = [commands |-> [Overlay(r) EXCEPT ![index] = rule], names |-> named(b, rule, index), layer |-> b.layer]
    <3>1. rule.name \in DOMAIN b.names
      BY <1>7 DEF Builds
    <3>2. new = override(b, rule)
      BY <1>3, <1>7, <3>1 DEF add_file
    <3>3. b = [commands |-> Overlay(r), names |-> b.names, layer |-> b.layer]
      BY DEF Builds
    <3>4. b.commands = Overlay(r)
      BY <3>3
    <3> QED BY <3>2, <3>4 DEF override
  <2>2. /\ index \in 1..c /\ Overlay(r)[index].name = rule.name
        /\ \A i \in 1..c : Overlay(r)[i].name = rule.name => i = index
    BY <1>5, <1>7 DEF Builds
  <2>3. Overlay(longer) = Overridden(Overlay(r), rule) /\ Names(longer) = Names(r)
    BY <1>2, <1>7
  <2>4. Overlay(longer) = [Overlay(r) EXCEPT ![index] = rule]
    BY <2>2, <2>3, <1>2, <1>5 DEF Overridden
  <2>5. named(b, rule, index) =
          [name \in Names(r) |-> IF name = rule.name THEN [layer |-> b.layer, index |-> index] ELSE b.names[name]]
    BY <1>7 DEF named, Builds
  <2>6. DOMAIN Overlay(longer) = 1..c
    BY <2>3, <1>5 DEF Overridden
  <2>7. \A i \in 1..c : Overlay(longer)[i].name = Overlay(r)[i].name
    BY <2>2, <2>4, <1>5
  <2>8. b.layer \in 0..b.layer /\ b.layer \in Nat
    BY DEF Builds
  <2> HIDE DEF new, index
  <2>9. Builds(new, longer)
    <3>1. new = [commands |-> Overlay(longer), names |-> new.names, layer |-> new.layer] /\ new.layer = b.layer
      BY <2>1, <2>4
    <3>2. new.names = [name \in Names(r) |-> IF name = rule.name THEN [layer |-> b.layer, index |-> index] ELSE b.names[name]]
      BY <2>1, <2>5
    <3>3. \A name \in Names(r) : new.names[name].index = b.names[name].index /\ new.names[name].layer \in 0..b.layer
      BY <3>2, <2>8 DEF Builds, index
    <3> QED BY <3>1, <3>2, <3>3, <2>3, <2>6, <2>7, <2>8, <1>5 DEF Builds
  <2>10. KnowsLayer(new, longer, x.layer)
    <3>1. \A name \in Names(r) : new.names[name].layer = IF name = rule.name THEN b.layer ELSE b.names[name].layer
      BY <2>1, <2>5
    <3>2. new.layer = b.layer
      BY <2>1
    <3>3. IsRule(rule)
      BY <1>7 DEF Declares, rule
    <3> QED BY <3>1, <3>2, <3>3, <2>3, <1>4, <1>7 DEF KnowsLayer
  <2> QED BY <1>3, <2>9, <2>10 DEF new, longer, rule
<1>8. CASE Declares(r, x) /\ rule.name \notin Names(r)
  <2>1. new = [commands |-> Append(Overlay(r), rule), names |-> named(b, rule, c + 1), layer |-> b.layer]
    <3>1. rule.name \notin DOMAIN b.names
      BY <1>8 DEF Builds
    <3>2. new = append(b, rule)
      BY <1>3, <1>8, <3>1 DEF add_file
    <3>3. b = [commands |-> Overlay(r), names |-> b.names, layer |-> b.layer]
      BY DEF Builds
    <3>4. b.commands = Overlay(r)
      BY <3>3
    <3> QED BY <3>2, <3>4 DEF append, c
  <2>2. Overlay(longer) = [i \in 1..c + 1 |-> IF i = c + 1 THEN rule ELSE Overlay(r)[i]]
        /\ Names(longer) = Names(r) \union {rule.name}
    BY <1>2, <1>8
  <2>3. Overlay(longer) = Append(Overlay(r), rule)
    BY <1>2, <2>2, AppendedAs DEF c
  <2>4. named(b, rule, c + 1) =
          [name \in Names(longer) |-> IF name = rule.name THEN [layer |-> b.layer, index |-> c + 1] ELSE b.names[name]]
    BY <2>2 DEF named, Builds
  <2>5. 1..c + 1 = (1..c) \union {c + 1} /\ c + 1 \notin 1..c
    BY <1>2
  <2>6. b.layer \in 0..b.layer /\ b.layer \in Nat
    BY DEF Builds
  <2>7. /\ DOMAIN Overlay(longer) = 1..c + 1
        /\ Overlay(longer)[c + 1] = rule
        /\ \A i \in 1..c : Overlay(longer)[i] = Overlay(r)[i]
    BY <2>2, <2>5
  <2> HIDE DEF new
  <2>8. Builds(new, longer)
    <3>1. new = [commands |-> Overlay(longer), names |-> new.names, layer |-> new.layer] /\ new.layer = b.layer
      BY <2>1, <2>3
    <3>2. new.names = [name \in Names(longer) |-> IF name = rule.name THEN [layer |-> b.layer, index |-> c + 1] ELSE b.names[name]]
      BY <2>1, <2>4
    <3>3. \A name \in Names(r) : name # rule.name /\ name \in Names(longer) /\ new.names[name] = b.names[name]
      BY <3>2, <2>2, <1>8
    <3>4. rule.name \in Names(longer) /\ new.names[rule.name] = [layer |-> b.layer, index |-> c + 1]
      BY <3>2, <2>2
    <3>5. \A name \in Names(r) :
            /\ b.names[name].index \in 1..c /\ b.names[name].layer \in 0..b.layer
            /\ Overlay(r)[b.names[name].index].name = name
      BY <1>5 DEF Builds
    <3>6. \A i \in 1..c : Overlay(r)[i].name \in Names(r) /\ b.names[Overlay(r)[i].name].index = i
      BY <1>5 DEF Builds
    <3>7. \A name \in Names(longer) :
            /\ new.names[name].index \in DOMAIN Overlay(longer) /\ new.names[name].layer \in 0..b.layer
            /\ Overlay(longer)[new.names[name].index].name = name
      BY <3>3, <3>4, <3>5, <2>2, <2>5, <2>6, <2>7
    <3>8. \A i \in DOMAIN Overlay(longer) :
            Overlay(longer)[i].name \in Names(longer) /\ new.names[Overlay(longer)[i].name].index = i
      BY <3>3, <3>4, <3>6, <2>2, <2>5, <2>7
    <3> HIDE DEF longer
    <3> QED BY <3>1, <3>2, <3>7, <3>8, <2>6 DEF Builds
  <2>9. KnowsLayer(new, longer, x.layer)
    <3>1. \A name \in Names(longer) : new.names[name].layer = IF name = rule.name THEN b.layer ELSE b.names[name].layer
      BY <2>1, <2>4
    <3>2. new.layer = b.layer
      BY <2>1
    <3>3. IsRule(rule)
      BY <1>8 DEF Declares, rule
    <3> QED BY <3>1, <3>2, <3>3, <2>2, <1>4, <1>8 DEF KnowsLayer
  <2> QED BY <1>3, <2>8, <2>9 DEF new, longer, rule
<1> QED BY <1>6, <1>7, <1>8

-----------------------------------------------------------------------------
(* The directories to read are a sequence, whatever the command line.      *)

LEMMA OccurrencesSequence ==
  ASSUME NEW words, Len(words) \in Nat, DOMAIN words = 1..Len(words)
  PROVE  IsASequence(occurrences(words))
<1> DEFINE K == {i \in DOMAIN words : words[i][1] = config_dir_arg}
<1>1. K \subseteq 1..Len(words)
  OBVIOUS
<1> HIDE DEF K
<1>2. Cardinality(K) \in Nat
  BY <1>1, Below
<1>3. DOMAIN InOrder(K) = 1..Cardinality(K)
  BY DEF InOrder
<1>4. occurrences(words) = [i \in 1..Cardinality(K) |-> words[InOrder(K)[i]][2]]
  BY <1>3 DEF occurrences, K
<1> QED BY <1>2, <1>4 DEF IsASequence

LEMMA OverlaySequence ==
  ASSUME NEW start \in Starts
  PROVE  IsASequence(matcher_config_dirs(start.env, Cli(start.line)))
<1> DEFINE given_line == start.line
           I == {i \in 1..Len(given_line \o <<Subcommand>>) : (given_line \o <<Subcommand>>)[i] = Subcommand}
           m == IF I # {} THEN Min(I) ELSE 0
<1>1. Len(given_line) \in Nat
  BY ProcessAssumption
<1>2. ASSUME I # {} PROVE Min(I) \in Int
  <2>1. I \subseteq Nat
    OBVIOUS
  <2> HIDE DEF I
  <2>2. PICK i \in I : \A k \in I : ~(k < i)
    BY <1>2, <2>1, Least
  <2>3. \E j \in I : \A k \in I : j <= k
    BY <2>1, <2>2
  <2>4. Min(I) \in I
    BY <2>3 DEF Min
  <2>5. \A j \in I : j \in Int
    BY <2>1
  <2> QED BY ONLY <2>4, <2>5, Zenon
<1>12. m \in Int
  <2> HIDE DEF I
  <2> QED BY <1>2
<1>3. root(given_line) = SubSeq(given_line, 1, m - 1)
  BY DEF root, SelectInSeq
<1> HIDE DEF m
<1>4. Len(root(given_line)) \in Nat /\ DOMAIN root(given_line) = 1..Len(root(given_line))
  <2>1. m - 1 \in Int /\ 1 \in Int
    BY <1>12
  <2> QED BY <2>1, <1>3, PartSequence
<1>5. Len(sub(given_line)) \in Nat /\ DOMAIN sub(given_line) = 1..Len(sub(given_line))
  <2>1. Len(root(given_line)) + 2 \in Int /\ Len(given_line) \in Int
    BY <1>1, <1>4
  <2> QED BY ONLY <2>1, PartSequence DEF sub
<1>6. IsASequence(merge_config_dirs(given_line))
  BY <1>4, <1>5, OccurrencesSequence, JoinedSequence DEF merge_config_dirs
<1>7. \A e : IsASequence(install_dirs_from(e))
  <2> TAKE e
  <2>1. install_dirs_from(e) \in Seq({<<"exe", "commands">>, <<"prefix", "share/kinjo/commands">>})
    BY DEF install_dirs_from
  <2> QED BY <2>1, SequenceOf
<1>8. \A e : IsASequence(kinjo_config_dir(e))
  <2> TAKE e
  <2>1. kinjo_config_dir(e) \in Seq({<<e.xdg_config_home, "kinjo">>, <<e.home, ".config/kinjo">>})
    BY DEF kinjo_config_dir
  <2> QED BY <2>1, SequenceOf
<1>9. IsASequence(<<SYSTEM_CONFIG_DIR>>)
  <2>1. <<SYSTEM_CONFIG_DIR>> \in Seq({SYSTEM_CONFIG_DIR})
    OBVIOUS
  <2> QED BY <2>1, SequenceOf
<1>10. ASSUME NEW e, NEW extra, IsASequence(extra)
       PROVE  IsASequence(config_dirs(e, extra))
  <2> DEFINE user == kinjo_config_dir(e)
             mine == [i \in DOMAIN user |-> <<user[i][1], user[i][2] \o "/commands">>]
  <2>1. DOMAIN user = 1..Len(user) /\ Len(user) \in Nat
    BY <1>8 DEF IsASequence
  <2> HIDE DEF user
  <2>2. IsASequence(mine)
    BY <2>1 DEF IsASequence
  <2> HIDE DEF mine
  <2>3. IsASequence(install_dirs_from(e.exe) \o <<SYSTEM_CONFIG_DIR>>)
    BY <1>7, <1>9, JoinedSequence
  <2>4. IsASequence(install_dirs_from(e.exe) \o <<SYSTEM_CONFIG_DIR>> \o mine)
    BY <2>2, <2>3, JoinedSequence
  <2>5. IsASequence(install_dirs_from(e.exe) \o <<SYSTEM_CONFIG_DIR>> \o mine \o extra)
    BY <2>4, <1>10, JoinedSequence
  <2> QED BY <2>5 DEF config_dirs, mine, user
<1>11. Cli(given_line).config_dirs = merge_config_dirs(given_line)
  BY DEF Cli
<1> QED BY <1>6, <1>10, <1>11 DEF matcher_config_dirs

-----------------------------------------------------------------------------
(* The inductive invariant.                                                *)

overlay == matcher_config_dirs(env, cli)

Where == UNION {ToSet(matcher_config_dirs(start.env, Cli(start.line))) : start \in Starts}
Places == {<<d>> : d \in Where} \union (Where \X ToSet(Sources))
Entries == [layer : Nat, at : Places, content : Contents]

Started == \E start \in Starts : line = start.line /\ env = start.env

KnownDisk == \A d \in DOMAIN disk : disk[d] \in Directory

Typed ==
  /\ Started
  /\ KnownDisk
  /\ dirs \in Seq(Where)
  /\ files \in Seq(Where \X ToSet(Sources))
  /\ reading \in Seq(Entries)
  /\ installed \in BOOLEAN /\ published \in BOOLEAN
  /\ reload_requested \in BOOLEAN /\ sighup \in BOOLEAN /\ edited \in BOOLEAN

\* Before the app runs, and while it does.
Starting == {"load", "keys", "options", "publish", "probe", "handle", "enter"}
Running == {"poll", "reload", "input", "take", "report", "exec"}

\* What the program has got to.
Progress ==
  /\ pc \in {"parse", "ended"} \union Starting \union Running
  /\ pc = "parse" => cli = None /\ session = None
  /\ cli # None => cli = Cli(line)
  /\ pc \in Starting \union Running => cli = Cli(line)
  /\ pc \in (Starting \union Running) \ {"load"} =>
       cli.command = "Run" /\ matcher \in Seq(Contents)
  /\ pc \notin {"exec", "ended"} => stderr = <<>>
  /\ pc = "exec" => stderr = diagnostics_said
  /\ pc # "ended" => exit_code = None /\ stdout = None
  /\ session # None => session = discovery_options(cli) /\ DiscoveryUsageError(cli) = "none"

\* What has been read declares what the builder holds and the warnings say.
Faithful ==
  pc \in {"load", "reload"} =>
    /\ \E n \in 0..Len(overlay) : dirs = SubSeq(overlay, n + 1, Len(overlay))
    /\ Builds(builder, reading)
    /\ warnings = Errors(reading)
    /\ \A j \in 1..Len(reading) : Len(dirs) <= reading[j].layer
    /\ files # <<>> => KnowsLayer(builder, reading, Len(dirs))

\* Nothing has changed that a signal will not tell of.
Fresh == ~edited /\ ~sighup /\ ~reload_requested

Pieces == [n \in 1..Len(overlay) |-> Holds(Len(overlay) - n, overlay[n])]
Upto(n) == FlattenSeq([k \in 1..n |-> Pieces[k]])
ToRead == [i \in 1..Len(files) |-> Read(Len(dirs), files[i], ContentNow(files[i]))]

\* A signal is served from the moment the handler is there, and the first load may be stale.
Served ==
  /\ pc \in Running \union {"enter"} => installed
  /\ installed \/ pc \in {"probe", "handle"} => published
  /\ pc \in {"parse"} \union Starting => ~Fresh

\* What was read is what is there, and the rest of it will be.
Current ==
  /\ pc = "reload" /\ Fresh => reading \o ToRead = Upto(Len(overlay) - Len(dirs))
  /\ pc \in {"poll", "input"} /\ Fresh =>
       /\ last = OnDisk
       /\ Errors(last) = <<>> => matcher = Overlay(last)

PInv == Typed /\ Progress /\ Faithful /\ RulesOfOneReading /\ Verdicts /\ Served /\ Current

-----------------------------------------------------------------------------
(* The table that list-commands prints.                                    *)

LEMMA Bounded ==
  ASSUME NEW n \in Nat, NEW f, \A i \in 1..n : f[i] \in Nat
  PROVE  \E most \in Nat : \A i \in 1..n : f[i] <= most
<1> DEFINE Bounds(m) == \E most \in Nat : \A i \in 1..m : f[i] <= most
           T == {m \in 0..n : ~Bounds(m)}
<1> SUFFICES ASSUME ~Bounds(n) PROVE FALSE
  OBVIOUS
<1>0. T \subseteq Nat /\ T # {}
  OBVIOUS
<1>1. PICK m \in T : \A k \in T : ~(k < m)
  BY <1>0, Least
<1>2. m # 0
  BY <1>1
<1>3. m - 1 \in 0..n /\ m - 1 < m /\ m \in 1..n
  BY <1>1, <1>2
<1>4. Bounds(m - 1)
  BY <1>1, <1>3
<1>5. PICK most \in Nat : \A i \in 1..m - 1 : f[i] <= most
  BY <1>4
<1>6. most + f[m] \in Nat /\ \A i \in 1..m : f[i] <= most + f[m]
  <2>1. f[m] \in Nat /\ \A i \in 1..m : i = m \/ i \in 1..m - 1
    BY <1>3
  <2>2. ASSUME NEW i \in 1..m PROVE f[i] <= most + f[m]
    <3>1. f[i] \in Nat /\ most \in Nat
      BY <1>3
    <3>2. CASE i = m
      BY <2>1, <3>1, <3>2
    <3>3. CASE i \in 1..m - 1
      <4>1. f[i] <= most
        BY <3>3, <1>5
      <4> QED BY <2>1, <3>1, <4>1
    <3> QED BY <2>1, <3>2, <3>3
  <2> QED BY <2>1, <2>2
<1> QED BY <1>1, <1>3, <1>6

LEMMA Greatest ==
  ASSUME NEW S, S \subseteq Nat, S # {}, NEW most \in Nat, \A k \in S : k <= most
  PROVE  Max(S) \in S /\ \A k \in S : k <= Max(S)
<1> DEFINE T == {m \in Nat : \A k \in S : k <= m}
<1>1. PICK m \in T : \A k \in T : ~(k < m)
  BY Least
<1>2. m \in S
  <2> SUFFICES ASSUME m \notin S PROVE FALSE
    OBVIOUS
  <2>1. \A k \in S : k \in Nat /\ k < m
    BY <1>1
  <2>2. PICK k \in S : TRUE
    OBVIOUS
  <2>3. m - 1 \in Nat /\ \A i \in S : i <= m - 1
    BY <2>1, <2>2, <1>1
  <2> QED BY <2>3, <1>1
<1>3. \E j \in S : \A k \in S : j >= k
  BY <1>1, <1>2
<1>4. Max(S) \in S /\ \A k \in S : Max(S) >= k
  BY <1>3 DEF Max
<1> QED BY <1>4

LEMMA ColumnIsWideEnough ==
  ASSUME NEW column \in 1..3, NEW n \in Nat,
         NEW rows, DOMAIN rows = 1..n, \A i \in 1..n : rows[i] \in [1..4 -> Texts]
  PROVE  /\ column_width(column, rows) \in Nat
         /\ width(heading[column]) <= column_width(column, rows)
         /\ \A i \in 1..n : width(rows[i][column]) <= column_width(column, rows)
<1> DEFINE f == [i \in 1..n |-> width(rows[i][column])]
           first == minimum[column]
           named_width == width(heading[column])
           S == {first, named_width} \union {width(rows[i][column]) : i \in DOMAIN rows}
<1>1. \A i \in 1..n : rows[i][column] \in Texts
  OBVIOUS
<1>2. \A some \in Texts : width(some) \in Nat
  BY DEF width, Texts
<1>3. \A i \in 1..n : f[i] = width(rows[i][column]) /\ f[i] \in Nat
  BY <1>1, <1>2
<1>4. first \in Nat /\ named_width \in Nat
  BY DEF minimum, heading, Text, width
<1> HIDE DEF f, first, named_width
<1>5. PICK most \in Nat : \A i \in 1..n : f[i] <= most
  BY <1>3, Bounded
<1>6. S \subseteq Nat
  BY <1>3, <1>4
<1>7. \A k \in S : k <= most + first + named_width /\ most + first + named_width \in Nat
  BY <1>3, <1>4, <1>5
<1>8. Max(S) \in S /\ \A k \in S : k <= Max(S)
  <2>1. S # {}
    OBVIOUS
  <2> HIDE DEF S
  <2>2. most + first + named_width \in Nat
    BY <1>4
  <2> QED BY <1>6, <1>7, <2>1, <2>2, Greatest
<1>9. column_width(column, rows) = Max(S)
  BY DEF column_width, first, named_width
<1> QED BY <1>6, <1>8, <1>9 DEF named_width

\* Where the cells of a line start.
StartAt(cells, widths, f) ==
  f = [i \in DOMAIN cells |->
         IF i = 1 THEN 0 ELSE f[i - 1] + width(cells[i - 1]) + write_padding(cells[i - 1], widths[i - 1])]

LEMMA RowPlaces ==
  ASSUME NEW cells, DOMAIN cells = 1..4, NEW widths
  PROVE  \E f : /\ StartAt(cells, widths, f)
                /\ write_command_row(cells, widths) = [i \in 1..4 |-> [at |-> f[i], cell |-> cells[i]]]
<1> DEFINE past(i) == width(cells[i]) + write_padding(cells[i], widths[i])
           a2 == 0 + width(cells[1]) + write_padding(cells[1], widths[1])
           a3 == a2 + width(cells[2]) + write_padding(cells[2], widths[2])
           a4 == a3 + width(cells[3]) + write_padding(cells[3], widths[3])
           g == [i \in 1..4 |-> CASE i = 1 -> 0 [] i = 2 -> a2 [] i = 3 -> a3 [] i = 4 -> a4]
           at == CHOOSE f : f = [i \in DOMAIN cells |->
                    IF i = 1 THEN 0 ELSE f[i - 1] + width(cells[i - 1]) + write_padding(cells[i - 1], widths[i - 1])]
<1>1. StartAt(cells, widths, g)
  <2>1. g[1] = 0 /\ g[2] = a2 /\ g[3] = a3 /\ g[4] = a4
    OBVIOUS
  <2> HIDE DEF g
  <2>2. g = [i \in 1..4 |-> g[i]]
    BY DEF g
  <2>3. \A i \in 1..4 : g[i] = IF i = 1 THEN 0 ELSE g[i - 1] + width(cells[i - 1]) + write_padding(cells[i - 1], widths[i - 1])
    <3>1. \A i \in 1..4 : i = 1 \/ i = 2 \/ i = 3 \/ i = 4
      OBVIOUS
    <3>2. 2 - 1 = 1 /\ 3 - 1 = 2 /\ 4 - 1 = 3
      OBVIOUS
    <3> QED BY <2>1, <3>1, <3>2
  <2> QED BY <2>2, <2>3 DEF StartAt
<1>2. StartAt(cells, widths, at)
  BY <1>1 DEF StartAt
<1>3. write_command_row(cells, widths) = [i \in DOMAIN cells |-> [at |-> at[i], cell |-> cells[i]]]
  BY Zenon DEF write_command_row
<1> QED BY <1>2, <1>3, Zenon

\* What makes a line's columns those of its table.
Columns(row, cells, widths) ==
  /\ DOMAIN row = 1..4
  /\ \A i \in 1..4 : row[i].cell = cells[i]
  /\ row[1].at = 0
  /\ \A j \in 1..3 : row[j + 1].at = row[j].at + widths[j] + 1 /\ row[j].at \in Nat

LEMMA RowKeepsColumns ==
  ASSUME NEW cells \in [1..4 -> Texts], NEW widths,
         \A j \in 1..3 : widths[j] \in Nat /\ width(cells[j]) <= widths[j]
  PROVE  Columns(write_command_row(cells, widths), cells, widths)
<1> DEFINE row == write_command_row(cells, widths)
<1>1. PICK f : /\ StartAt(cells, widths, f)
               /\ row = [i \in 1..4 |-> [at |-> f[i], cell |-> cells[i]]]
  BY RowPlaces
<1>2. \A i \in 1..4 : width(cells[i]) \in Nat
  BY DEF width, Texts
<1>3. \A i \in DOMAIN cells :
        f[i] = IF i = 1 THEN 0 ELSE f[i - 1] + width(cells[i - 1]) + write_padding(cells[i - 1], widths[i - 1])
  BY <1>1, Zenon DEF StartAt
<1>4. \A j \in 1..3 : f[j + 1] = f[j] + width(cells[j]) + write_padding(cells[j], widths[j])
  <2> TAKE j \in 1..3
  <2>1. j + 1 \in DOMAIN cells /\ j + 1 # 1 /\ j + 1 - 1 = j
    OBVIOUS
  <2> QED BY <2>1, <1>3
<1>5. \A j \in 1..3 : write_padding(cells[j], widths[j]) = widths[j] - width(cells[j]) + 1
  BY <1>2 DEF write_padding
<1>6. f[1] = 0
  BY <1>3
<1>7. f[2] = f[1] + widths[1] + 1 /\ f[2] \in Nat
  BY <1>2, <1>4, <1>5, <1>6
<1>8. f[3] = f[2] + widths[2] + 1 /\ f[3] \in Nat
  <2>1. f[2 + 1] = f[2] + width(cells[2]) + write_padding(cells[2], widths[2]) /\ 2 + 1 = 3
    BY <1>4
  <2>2. write_padding(cells[2], widths[2]) = widths[2] - width(cells[2]) + 1 /\ width(cells[2]) \in Nat /\ widths[2] \in Nat
    BY <1>2, <1>5
  <2> QED BY ONLY <2>1, <2>2, <1>7
<1>9. f[4] = f[3] + widths[3] + 1
  <2>1. f[3 + 1] = f[3] + width(cells[3]) + write_padding(cells[3], widths[3]) /\ 3 + 1 = 4
    BY <1>4
  <2>2. write_padding(cells[3], widths[3]) = widths[3] - width(cells[3]) + 1 /\ width(cells[3]) \in Nat /\ widths[3] \in Nat
    BY <1>2, <1>5
  <2> QED BY ONLY <2>1, <2>2, <1>8
<1>10. \A j \in 1..3 : j = 1 \/ j = 2 \/ j = 3
  OBVIOUS
<1>11. 1 + 1 = 2 /\ 2 + 1 = 3 /\ 3 + 1 = 4
  OBVIOUS
<1>12. DOMAIN row = 1..4 /\ \A i \in 1..4 : row[i].at = f[i] /\ row[i].cell = cells[i]
  BY <1>1
<1>13. \A j \in 1..3 : f[j + 1] = f[j] + widths[j] + 1 /\ f[j] \in Nat
  BY <1>6, <1>7, <1>8, <1>9, <1>10, <1>11
<1>14. 1 \in 1..4 /\ \A j \in 1..3 : j \in 1..4 /\ j + 1 \in 1..4
  OBVIOUS
<1> QED BY <1>6, <1>12, <1>13, <1>14 DEF Columns

LEMMA ColumnsAreLegible ==
  ASSUME NEW table, NEW cells, NEW widths,
         \A j \in 1..3 : widths[j] \in Nat,
         \A k \in DOMAIN table : /\ Columns(table[k], cells[k], widths)
                                 /\ cells[k] \in [1..4 -> Texts]
                                 /\ \A j \in 1..3 : width(cells[k][j]) <= widths[j]
  PROVE  Legible(table)
<1>1. ASSUME NEW k \in DOMAIN table
      PROVE  /\ table[k][2].at = 0 + widths[1] + 1
             /\ table[k][3].at = 0 + widths[1] + 1 + widths[2] + 1
             /\ table[k][4].at = 0 + widths[1] + 1 + widths[2] + 1 + widths[3] + 1
  <2> DEFINE row == table[k]
  <2>1. row[1].at = 0 /\ \A j \in 1..3 : row[j + 1].at = row[j].at + widths[j] + 1
    BY <1>1 DEF Columns
  <2> HIDE DEF row
  <2>2. row[1 + 1].at = row[1].at + widths[1] + 1 /\ 1 + 1 = 2
    BY <2>1
  <2>3. row[2 + 1].at = row[2].at + widths[2] + 1 /\ 2 + 1 = 3
    BY <2>1
  <2>4. row[3 + 1].at = row[3].at + widths[3] + 1 /\ 3 + 1 = 4
    BY <2>1
  <2> QED BY <2>1, <2>2, <2>3, <2>4 DEF row
<1>2. \A j \in 1..3 : j = 1 \/ j = 2 \/ j = 3
  OBVIOUS
<1>3. 1 + 1 = 2 /\ 2 + 1 = 3 /\ 3 + 1 = 4
  OBVIOUS
<1>4. ASSUME NEW i \in DOMAIN table, NEW k \in DOMAIN table, NEW j \in 1..3
      PROVE table[i][j + 1].at = table[k][j + 1].at
  BY <1>1, <1>2, <1>3
<1>5. ASSUME NEW i \in DOMAIN table, NEW j \in 1..3
      PROVE table[i][j].at + width(table[i][j].cell) < table[i][j + 1].at
  <2>1. /\ table[i][j + 1].at = table[i][j].at + widths[j] + 1
        /\ table[i][j].at \in Nat
        /\ table[i][j].cell = cells[i][j]
        /\ width(cells[i][j]) <= widths[j]
        /\ cells[i][j] \in Texts
    BY DEF Columns
  <2>2. width(cells[i][j]) \in Nat
    BY <2>1 DEF width, Texts
  <2> DEFINE there == table[i][j].at
             wide == width(cells[i][j])
             column == widths[j]
  <2>3. there \in Nat /\ wide \in Nat /\ column \in Nat /\ wide <= column
    BY <2>1, <2>2
  <2> HIDE DEF there, wide, column
  <2>4. there + wide < there + column + 1
    BY <2>3
  <2> QED BY <2>1, <2>4 DEF there, wide, column
<1> QED BY <1>4, <1>5 DEF Legible

(* list-commands prints a line for each rule below the heading, and every  *)
(* line has its cells in the same columns.                                 *)
LEMMA TablePrints ==
  ASSUME NEW rules, NEW n \in Nat, Len(rules) = n, DOMAIN rules = 1..n,
         \A i \in 1..n : Described(rules[i]) \in [1..4 -> Texts]
  PROVE  Prints(write_commands(rules), rules) /\ Legible(write_commands(rules))
<1> DEFINE rows == [i \in DOMAIN rules |-> [j \in 1..4 |-> text(Described(rules[i])[j])]]
           widths == [j \in 1..3 |-> column_width(j, rows)]
           first == write_command_row(heading, widths)
           body == [i \in DOMAIN rows |-> write_command_row(rows[i], widths)]
           table == <<first>> \o body
           cells == [k \in 1..n + 1 |-> IF k = 1 THEN heading ELSE rows[k - 1]]
<1>1. table = write_commands(rules)
  BY DEF write_commands
<1>2. \A some \in Texts : text(some) \in Texts
  BY DEF text, Text, Texts
<1>3. DOMAIN rows = 1..n /\ \A i \in 1..n : rows[i] \in [1..4 -> Texts]
  BY <1>2
<1>4. heading \in [1..4 -> Texts]
  BY DEF heading, Text, Texts
<1>5. \A i \in 1..n : \A j \in 1..4 : rows[i][j] = text(Described(rules[i])[j])
  OBVIOUS
<1> HIDE DEF rows
<1>6. \A j \in 1..3 : /\ widths[j] \in Nat
                      /\ width(heading[j]) <= widths[j]
                      /\ \A i \in 1..n : width(rows[i][j]) <= widths[j]
  BY <1>3, ColumnIsWideEnough
<1>7. body = [i \in 1..n |-> body[i]] /\ \A i \in 1..n : body[i] = write_command_row(rows[i], widths)
  BY <1>3
<1> HIDE DEF widths
<1>8. Columns(first, heading, widths)
  BY <1>4, <1>6, RowKeepsColumns
<1>9. \A i \in 1..n : Columns(body[i], rows[i], widths)
  BY <1>3, <1>6, <1>7, RowKeepsColumns
<1> HIDE DEF first, body
<1>10. /\ Len(table) = n + 1 /\ DOMAIN table = 1..n + 1
       /\ table[1] = first /\ \A i \in 1..n : table[i + 1] = body[i]
  <2> DEFINE S == {first} \union {body[i] : i \in 1..n}
  <2>1. <<first>> \in Seq(S) /\ body \in Seq(S) /\ Len(<<first>>) = 1 /\ Len(body) = n /\ <<first>>[1] = first
    BY <1>7
  <2> HIDE DEF S
  <2>2. table \in Seq(S) /\ Len(table) = n + 1
        /\ \A i \in 1..n + 1 : table[i] = IF i <= 1 THEN <<first>>[i] ELSE body[i - 1]
    BY <2>1, ConcatProperties
  <2>3. \A i \in 1..n : i + 1 \in 1..n + 1 /\ ~(i + 1 <= 1) /\ i + 1 - 1 = i
    OBVIOUS
  <2>4. 1 \in 1..n + 1
    OBVIOUS
  <2> QED BY <2>1, <2>2, <2>3, <2>4
<1> HIDE DEF table
<1>11. \A k \in 1..n + 1 : k = 1 \/ (k - 1 \in 1..n /\ k - 1 + 1 = k /\ k # 1)
  OBVIOUS
<1>12. ASSUME NEW k \in 1..n + 1
       PROVE  /\ Columns(table[k], cells[k], widths)
              /\ cells[k] \in [1..4 -> Texts]
              /\ \A j \in 1..3 : width(cells[k][j]) <= widths[j]
  <2>1. CASE k = 1
    BY <2>1, <1>4, <1>6, <1>8, <1>10
  <2>2. CASE k # 1
    <3>1. k - 1 \in 1..n /\ table[k] = body[k - 1] /\ cells[k] = rows[k - 1]
      BY <2>2, <1>10, <1>11
    <3> QED BY <3>1, <1>3, <1>6, <1>9
  <2> QED BY <2>1, <2>2
<1> HIDE DEF cells
<1>13. Legible(table)
  BY <1>6, <1>10, <1>12, ColumnsAreLegible
<1>14. \A i \in 1..n : \A j \in 1..4 : table[i + 1][j].cell = text(Described(rules[i])[j])
  BY <1>5, <1>9, <1>10 DEF Columns
<1> QED BY <1>1, <1>10, <1>13, <1>14 DEF Prints

-----------------------------------------------------------------------------
(* Readings.                                                               *)

LEMMA OverlayMembers ==
  ASSUME NEW S, NEW r \in Seq(S)
  PROVE  \A i \in DOMAIN Overlay(r) :
           \E j \in 1..Len(r) : IsRule(r[j].content) /\ Overlay(r)[i] = r[j].content
<1> DEFINE n == Len(r)
           F == Firsts(r)
           NameAt(i) == r[InOrder(F)[i]].content.name
<1>1. n \in Nat /\ DOMAIN r = 1..n
  OBVIOUS
<1>2. Defining(r) \subseteq 1..n /\ F \subseteq Defining(r)
  BY <1>1 DEF Defining, Firsts
<1>3. \A i \in 1..Cardinality(F) : InOrder(F)[i] \in Defining(r)
  <2>1. F \subseteq 1..n
    BY <1>2
  <2> HIDE DEF F, n
  <2>2. \A i \in 1..Cardinality(F) : InOrder(F)[i] \in F
    BY <2>1, <1>1, OrderedMembers
  <2> QED BY <2>2, <1>2
<1>4. DOMAIN InOrder(F) = 1..Cardinality(F)
  BY DEF InOrder
<1>5. Overlay(r) = [i \in 1..Cardinality(F) |-> r[Latest(Definitions(r, NameAt(i)))].content]
  BY <1>4 DEF Overlay
<1> HIDE DEF F, n
<1>6. ASSUME NEW i \in 1..Cardinality(F)
      PROVE  Latest(Definitions(r, NameAt(i))) \in Defining(r)
  <2>1. InOrder(F)[i] \in Definitions(r, NameAt(i))
    BY <1>3 DEF Definitions
  <2>2. Definitions(r, NameAt(i)) \subseteq 1..n /\ Definitions(r, NameAt(i)) \subseteq Defining(r)
    BY <1>2 DEF Definitions
  <2> HIDE DEF NameAt
  <2>3. Latest(Definitions(r, NameAt(i))) \in Definitions(r, NameAt(i))
    BY <2>1, <2>2, <1>1, LatestIsLast
  <2> QED BY <2>2, <2>3
<1>7. \A j \in Defining(r) : j \in 1..n /\ IsRule(r[j].content)
  BY <1>2 DEF Defining
<1> HIDE DEF NameAt
<1> QED BY <1>5, <1>6, <1>7 DEF n

LEMMA EmptyReading ==
  /\ Names(<<>>) = {} /\ Overlay(<<>>) = <<>> /\ Errors(<<>>) = <<>>
  /\ Builds(NewBuilder, <<>>)
<1>1. Defining(<<>>) = {}
  BY DEF Defining
<1>2. Firsts(<<>>) = {}
  BY <1>1 DEF Firsts
<1>3. Cardinality({}) = 0
  BY FS_EmptySet
<1>4. DOMAIN InOrder({}) = 1..0
  BY <1>3 DEF InOrder
<1>5. Names(<<>>) = {}
  BY <1>1 DEF Names
<1>6. Overlay(<<>>) = <<>>
  <2>1. Overlay(<<>>) = [i \in 1..0 |-> Overlay(<<>>)[i]]
    BY <1>2, <1>4 DEF Overlay
  <2> QED BY <2>1
<1>7. Errors(<<>>) = <<>>
  <2>1. DOMAIN <<>> \ Defining(<<>>) = {}
    OBVIOUS
  <2>2. Errors(<<>>) = [i \in 1..0 |-> Errors(<<>>)[i]]
    BY <2>1, <1>4 DEF Errors
  <2> QED BY <2>2
<1>8. Builds(NewBuilder, <<>>)
  <2> DEFINE b == NewBuilder
  <2>1. b.commands = <<>> /\ b.names = << >> /\ b.layer = 0 /\ b = [commands |-> <<>>, names |-> b.names, layer |-> 0]
    BY DEF NewBuilder
  <2>2. DOMAIN Overlay(<<>>) = {}
    BY <1>6
  <2>3. b.names = [name \in {} |-> b.names[name]]
    BY <2>1
  <2> HIDE DEF b
  <2> QED BY <2>1, <2>2, <2>3, <1>5, <1>6 DEF Builds, b
<1> QED BY <1>5, <1>6, <1>7, <1>8

(* A layer begins with none of its names.                                  *)
LEMMA LayerStarts ==
  ASSUME NEW S, NEW r \in Seq(S), NEW b, Builds(b, r), NEW l,
         \A j \in 1..Len(r) : r[j].layer # l
  PROVE  Builds(start_layer(b), r) /\ KnowsLayer(start_layer(b), r, l)
<1> DEFINE new == start_layer(b)
<1>1. b = [commands |-> Overlay(r), names |-> b.names, layer |-> b.layer] /\ b.layer \in Nat
  BY DEF Builds
<1>2. new = [commands |-> Overlay(r), names |-> b.names, layer |-> b.layer + 1]
  <2>1. [b EXCEPT !.layer = @ + 1] =
        [[commands |-> Overlay(r), names |-> b.names, layer |-> b.layer] EXCEPT !.layer = b.layer + 1]
    BY <1>1
  <2>2. \A c, m, l1, l2 : [[commands |-> c, names |-> m, layer |-> l1] EXCEPT !.layer = l2] = [commands |-> c, names |-> m, layer |-> l2]
    OBVIOUS
  <2> QED BY <2>1, <2>2 DEF start_layer
<1>3. new.commands = Overlay(r) /\ new.names = b.names /\ new.layer = b.layer + 1
  BY <1>2
<1>4. LayerNames(r, l) = {}
  BY DEF LayerNames
<1> HIDE DEF new
<1>5. Builds(new, r)
  <2>1. new = [commands |-> Overlay(r), names |-> new.names, layer |-> new.layer]
    BY <1>2, <1>3
  <2>2. \A name \in Names(r) : new.names[name].layer \in 0..new.layer
    BY <1>1, <1>3 DEF Builds
  <2> QED BY <2>1, <2>2, <1>1, <1>3 DEF Builds
<1>6. KnowsLayer(new, r, l)
  <2>1. \A name \in Names(r) : new.names[name].layer # new.layer
    BY <1>1, <1>3 DEF Builds
  <2> QED BY <2>1, <1>4 DEF KnowsLayer
<1> QED BY <1>5, <1>6 DEF new

-----------------------------------------------------------------------------
(* What may be on the disk.                                                *)

LEMMA Access ==
  ASSUME KnownDisk, NEW d
  PROVE  /\ Dirs(d) \in Accesses
         /\ Dirs(d) = "open" => d \in DOMAIN disk
BY DEF KnownDisk, Dirs, Accesses, Directory

LEMMA ContentIsKnown ==
  ASSUME KnownDisk, NEW file, file[2] \in ToSet(Sources)
  PROVE  ContentNow(file) \in Contents
<1>1. Absent \in Contents
  BY DEF Contents
<1>2. ASSUME Dirs(file[1]) = "open" PROVE disk[file[1]].files[file[2]] \in Contents
  <2>1. disk[file[1]] \in Directory
    BY <1>2, Access DEF KnownDisk
  <2>2. disk[file[1]].files \in [ToSet(Sources) -> Contents]
    BY <2>1 DEF Directory
  <2> QED BY <2>2
<1> QED BY <1>1, <1>2 DEF ContentNow

LEMMA Listing ==
  ASSUME NEW d \in Where
  PROVE  Listed(d) \in Seq(Where \X ToSet(Sources))
<1> DEFINE K == {i \in DOMAIN Sources : disk[d].files[Sources[i]] # Absent}
           n == Len(Sources)
<1>1. n \in Nat /\ DOMAIN Sources = 1..n /\ \A i \in 1..n : Sources[i] \in ToSet(Sources)
  BY ProcessAssumption DEF ToSet
<1>2. K \subseteq 1..n
  BY <1>1
<1>3. Listed(d) = [i \in DOMAIN InOrder(K) |-> <<d, Sources[InOrder(K)[i]]>>]
  BY DEF Listed
<1> HIDE DEF K, n
<1>4. DOMAIN InOrder(K) = 1..Cardinality(K) /\ Cardinality(K) \in Nat
  BY <1>1, <1>2, Below DEF InOrder
<1>5. \A i \in 1..Cardinality(K) : InOrder(K)[i] \in 1..n
  BY <1>1, <1>2, OrderedMembers
<1>6. \A i \in 1..Cardinality(K) : <<d, Sources[InOrder(K)[i]]>> \in Where \X ToSet(Sources)
  BY <1>1, <1>5
<1> QED BY <1>3, <1>4, <1>6

LEMMA HeldEntries ==
  ASSUME KnownDisk, NEW layer \in Nat, NEW d \in Where
  PROVE  Holds(layer, d) \in Seq(Entries)
<1>1. CASE Dirs(d) = "missing"
  BY <1>1 DEF Holds
<1>2. CASE Dirs(d) = "open"
  <2> DEFINE listed == Listed(d)
             entry(i) == Read(layer, listed[i], ContentNow(listed[i]))
  <2>1. listed \in Seq(Where \X ToSet(Sources))
    BY Listing
  <2> HIDE DEF listed
  <2>2. DOMAIN listed = 1..Len(listed) /\ Len(listed) \in Nat
        /\ \A i \in 1..Len(listed) : listed[i] \in Where \X ToSet(Sources)
    BY <2>1
  <2>3. \A i \in 1..Len(listed) : ContentNow(listed[i]) \in Contents
    BY <2>2, ContentIsKnown
  <2>4. \A i \in 1..Len(listed) : entry(i) \in Entries
    BY <2>2, <2>3 DEF Read, Entries, Places
  <2> HIDE DEF entry
  <2>5. Holds(layer, d) = [i \in 1..Len(listed) |-> entry(i)]
    BY <1>2, <2>2 DEF Holds, entry, listed
  <2> QED BY <2>2, <2>4, <2>5
<1>3. CASE Dirs(d) = "unreadable"
  <2>1. Read(layer, <<d>>, Absent) \in Entries
    BY DEF Read, Entries, Places, Contents
  <2> QED BY <1>3, <2>1 DEF Holds
<1> QED BY <1>1, <1>2, <1>3, Access DEF Accesses

-----------------------------------------------------------------------------
(* Every variable keeps its type.                                          *)

LEMMA OverlayDirs ==
  ASSUME Started
  PROVE  /\ IsASequence(matcher_config_dirs(env, Cli(line)))
         /\ matcher_config_dirs(env, Cli(line)) \in Seq(Where)
<1>1. PICK start \in Starts : line = start.line /\ env = start.env
  BY DEF Started
<1> DEFINE it == matcher_config_dirs(start.env, Cli(start.line))
<1>2. IsASequence(it)
  BY OverlaySequence
<1>3. ToSet(it) \subseteq Where
  BY DEF Where
<1> HIDE DEF it, Where
<1>4. it \in Seq(Where)
  BY <1>2, <1>3, OfItsMembers, SeqMonotonic
<1> QED BY <1>1, <1>2, <1>4 DEF it

\* The steps that are neither of a load nor of a signal or the world.
Quietly ==
  \/ LoadFails \/ ListCommands \/ LoadKeybindings \/ StartSession \/ Enter
  \/ DropApp \/ Report \/ ReportFails \/ Exec \/ Input \/ InputFails
  \/ UNCHANGED vars

LEMMA Quiet ==
  ASSUME Quietly
  PROVE  UNCHANGED <<given, cli, load, handler, reload_requested, sighup, world>>
<1> USE DEF given, load, handler, world, Ends, Fails, write_error_report, write_cli_error, Panics
<1>1. CASE LoadFails \/ ListCommands \/ LoadKeybindings
  BY <1>1 DEF LoadFails, ListCommands, LoadKeybindings
<1>2. CASE StartSession \/ Enter
  BY <1>2 DEF StartSession, Enter
<1>3. CASE DropApp \/ Report \/ ReportFails \/ Exec
  BY <1>3 DEF DropApp, Report, ReportFails, Exec
<1>4. CASE Input \/ InputFails
  BY <1>4 DEF Input, InputFails
<1>5. CASE UNCHANGED vars
  BY <1>5 DEF vars
<1> QED BY <1>1, <1>2, <1>3, <1>4, <1>5 DEF Quietly

LEMMA StepIs ==
  ASSUME [ProcessNext]_vars
  PROVE  \/ Quietly
         \/ Parse \/ EnterDir \/ ReadFile \/ StartLoaded \/ Install \/ PollReload \/ FinishReload
         \/ Deliver \/ Edit \/ AskReload \/ HangUp
BY DEF ProcessNext, Program, User, World, Quietly

LEMMA TypedFirst ==
  ASSUME ProcessInit
  PROVE  Typed
<1>1. Started
  BY DEF ProcessInit, Started
<1>2. KnownDisk
  BY ProcessAssumption DEF ProcessInit, KnownDisk
<1>3. \A S : <<>> \in Seq(S)
  OBVIOUS
<1> QED BY <1>1, <1>2, <1>3 DEF ProcessInit, Typed, Started

LEMMA EditedDisk ==
  ASSUME KnownDisk, Edit
  PROVE  KnownDisk'
<1>1. PICK edit \in Edits :
        disk' = IF Len(edit) = 2 THEN [disk EXCEPT ![edit[1]].access = edit[2]]
                ELSE [disk EXCEPT ![edit[1]].files[edit[2]] = edit[3]]
  BY DEF Edit
<1>2. Len(edit) = 3 \/ (Len(edit) = 2 /\ edit[2] \in Accesses)
  BY ProcessAssumption
<1> SUFFICES ASSUME NEW d \in DOMAIN disk' PROVE disk'[d] \in Directory
  BY DEF KnownDisk
<1>3. d \in DOMAIN disk
  BY <1>1
<1>4. disk[d] \in Directory
  BY <1>3 DEF KnownDisk
<1>5. CASE Len(edit) = 2
  <2>1. disk'[d] = IF d = edit[1] THEN [disk[d] EXCEPT !.access = edit[2]] ELSE disk[d]
    BY <1>1, <1>3, <1>5
  <2>2. [disk[d] EXCEPT !.access = edit[2]] \in Directory
    BY <1>2, <1>4, <1>5 DEF Directory
  <2> QED BY <2>1, <2>2, <1>4
<1>6. CASE Len(edit) = 3
  <2>1. disk'[d] = IF d = edit[1] THEN [disk[d] EXCEPT !.files[edit[2]] = edit[3]] ELSE disk[d]
    BY <1>1, <1>3, <1>6
  <2>2. edit[3] \in Contents
    BY <1>6 DEF Contents
  <2>3. [disk[d] EXCEPT !.files[edit[2]] = edit[3]] \in Directory
    BY <2>2, <1>4 DEF Directory
  <2> QED BY <2>1, <2>3, <1>4
<1> QED BY <1>2, <1>5, <1>6

LEMMA TypedKept ==
  ASSUME Typed, Progress, [ProcessNext]_vars
  PROVE  Typed'
<1> USE DEF given, load, handler, world, Started, KnownDisk
<1>1. CASE Quietly
  BY <1>1, Quiet DEF Typed
<1>2. CASE Parse
  <2>1. CASE parse_from(line) = "cli"
    <3>1. /\ cli' = Cli(line) /\ dirs' = matcher_config_dirs(env, Cli(line))
          /\ files' = <<>> /\ reading' = <<>>
          /\ UNCHANGED <<given, handler, reload_requested, sighup, world>>
      BY <1>2, <2>1 DEF Parse, BeginLoad, ReadsFrom
    <3>2. Started
      BY DEF Typed
    <3>3. dirs' \in Seq(Where)
      BY <3>1, <3>2, OverlayDirs
    <3> QED BY <3>1, <3>3 DEF Typed
  <2>2. CASE parse_from(line) # "cli"
    <3>1. UNCHANGED <<given, load, handler, reload_requested, sighup, world>>
      BY <1>2, <2>2 DEF Parse, report_cli_error, write_cli_error, Ends, Fails
    <3> QED BY <3>1 DEF Typed
  <2> QED BY <2>1, <2>2
<1>3. CASE EnterDir
  <2> DEFINE d == Head(dirs)
  <2>1. dirs \in Seq(Where) /\ dirs # <<>> /\ d \in Where /\ dirs' = Tail(dirs) /\ dirs' \in Seq(Where) /\ Len(dirs') \in Nat
    BY <1>3 DEF EnterDir, Typed
  <2>2. /\ \/ UNCHANGED <<files, reading>>
           \/ files' = Listed(d) /\ UNCHANGED reading
           \/ reading' = Append(reading, Read(Len(dirs'), <<d>>, Absent)) /\ UNCHANGED files
        /\ UNCHANGED <<given, handler, reload_requested, sighup, world>>
    <3>1. Dirs(d) \in Accesses
      BY Access DEF Typed
    <3> QED BY <1>3, <3>1 DEF EnterDir, Accesses
  <2> HIDE DEF d
  <2>3. Listed(d) \in Seq(Where \X ToSet(Sources))
    BY <2>1, Listing
  <2>4. Read(Len(dirs'), <<d>>, Absent) \in Entries
    BY <2>1 DEF Read, Entries, Places, Contents
  <2>5. \A e \in Entries : Append(reading, e) \in Seq(Entries)
    BY DEF Typed
  <2>6. files' \in Seq(Where \X ToSet(Sources))
    BY <2>2, <2>3 DEF Typed
  <2>7. reading' \in Seq(Entries)
    BY <2>2, <2>4, <2>5 DEF Typed
  <2> QED BY <2>1, <2>2, <2>6, <2>7 DEF Typed
<1>4. CASE ReadFile
  <2> DEFINE file == Head(files)
  <2>1. /\ file \in Where \X ToSet(Sources) /\ files' \in Seq(Where \X ToSet(Sources))
        /\ reading' = Append(reading, Read(Len(dirs), file, ContentNow(file)))
        /\ UNCHANGED <<given, dirs, handler, reload_requested, sighup, world>>
    BY <1>4 DEF ReadFile, Typed
  <2> HIDE DEF file
  <2>2. file[2] \in ToSet(Sources)
    BY <2>1
  <2>3. ContentNow(file) \in Contents
    BY <2>2, ContentIsKnown DEF Typed
  <2>4. Len(dirs) \in Nat
    BY DEF Typed
  <2>5. Read(Len(dirs), file, ContentNow(file)) \in Entries
    BY <2>1, <2>3, <2>4 DEF Read, Entries, Places
  <2>6. reading' \in Seq(Entries)
    BY <2>1, <2>5 DEF Typed
  <2> QED BY <2>1, <2>6 DEF Typed
<1>5. CASE StartLoaded \/ FinishReload
  <2>1. /\ dirs' = <<>> /\ files' = <<>> /\ reading' = <<>>
        /\ UNCHANGED <<given, handler, reload_requested, sighup, world>>
    BY <1>5 DEF StartLoaded, FinishReload, reload_config, EndLoad, ReadsFrom
  <2>2. \A S : <<>> \in Seq(S)
    OBVIOUS
  <2> QED BY <2>1, <2>2 DEF Typed
<1>6. CASE Install
  BY <1>6 DEF Install, Publish, Probe, Handle, Typed
<1>7. CASE PollReload
  <2>1. /\ \/ UNCHANGED load
           \/ dirs' = matcher_config_dirs(env, cli) /\ files' = <<>> /\ reading' = <<>>
        /\ reload_requested' = FALSE
        /\ UNCHANGED <<given, handler, sighup, world>>
    BY <1>7 DEF PollReload, BeginLoad, ReadsFrom
  <2>2. cli = Cli(line)
    BY <1>7 DEF PollReload, Progress, Running
  <2>3. matcher_config_dirs(env, cli) \in Seq(Where)
    BY <2>2, OverlayDirs DEF Typed
  <2>4. \A S : <<>> \in Seq(S)
    OBVIOUS
  <2>5. files' \in Seq(Where \X ToSet(Sources)) /\ reading' \in Seq(Entries) /\ dirs' \in Seq(Where)
    BY <2>1, <2>3, <2>4 DEF Typed
  <2> QED BY <2>1, <2>5 DEF Typed
<1>8. CASE Deliver
  BY <1>8 DEF Deliver, on_sighup, Typed
<1>9. CASE Edit
  <2>1. KnownDisk'
    BY <1>9, EditedDisk DEF Typed
  <2> QED BY <1>9, <2>1 DEF Edit, Typed
<1>10. CASE AskReload \/ HangUp
  BY <1>10 DEF AskReload, HangUp, Typed
<1> QED BY <1>1, <1>2, <1>3, <1>4, <1>5, <1>6, <1>7, <1>8, <1>9, <1>10, StepIs

-----------------------------------------------------------------------------
(* The program goes through its phases in order, and says what it has to   *)
(* say only when it reports.                                               *)

LEMMA RulesAreContents ==
  ASSUME NEW r \in Seq(Entries)
  PROVE  Overlay(r) \in Seq(Contents)
<1>1. \A i \in DOMAIN Overlay(r) : \E j \in 1..Len(r) : Overlay(r)[i] = r[j].content
  BY OverlayMembers
<1>2. \A j \in 1..Len(r) : r[j].content \in Contents
  <2>1. \A e \in Entries : e.content \in Contents
    BY DEF Entries
  <2>2. \A j \in 1..Len(r) : r[j] \in Entries
    OBVIOUS
  <2> QED BY <2>1, <2>2
<1>3. IsASequence(Overlay(r))
  <2>1. r \in Seq(Entries) /\ Cardinality(Firsts(r)) \in Nat
    <3>1. Firsts(r) \subseteq 1..Len(r)
      BY DEF Firsts, Defining
    <3>2. Len(r) \in Nat
      OBVIOUS
    <3> QED BY <3>1, <3>2, Below
  <2>2. DOMAIN InOrder(Firsts(r)) = 1..Cardinality(Firsts(r))
    BY DEF InOrder
  <2>3. Overlay(r) = [i \in 1..Cardinality(Firsts(r)) |-> Overlay(r)[i]]
    BY <2>2 DEF Overlay
  <2> QED BY <2>1, <2>3, RangedSequence
<1> HIDE DEF Entries
<1>4. DOMAIN Overlay(r) = 1..Len(Overlay(r))
  BY <1>3 DEF IsASequence
<1>5. \A i \in 1..Len(Overlay(r)) : Overlay(r)[i] \in Contents
  BY <1>1, <1>2, <1>4
<1> QED BY <1>3, <1>5 DEF IsASequence

LEMMA BuiltRules ==
  ASSUME Typed, Faithful, pc \in {"load", "reload"}
  PROVE  builder.commands = Overlay(reading) /\ builder.commands \in Seq(Contents)
<1>1. builder = [commands |-> Overlay(reading), names |-> builder.names, layer |-> builder.layer]
  BY DEF Faithful, Builds
<1>2. builder.commands = Overlay(reading)
  BY <1>1
<1> QED BY <1>2, RulesAreContents DEF Typed

LEMMA ProgressFirst ==
  ASSUME ProcessInit
  PROVE  Progress
BY DEF ProcessInit, Progress, Starting, Running

LEMMA ProgressKept ==
  ASSUME Typed, Progress, Faithful, [ProcessNext]_vars
  PROVE  Progress'
<1> USE DEF given, load, handler, world, app, output, outside, Progress, Starting, Running,
            diagnostics_said, Ends, Exits
<1>1. CASE Parse
  <2>1. pc = "parse" /\ cli = None /\ session = None
    BY <1>1 DEF Parse
  <2>2. CASE parse_from(line) = "cli"
    BY <1>1, <2>1, <2>2 DEF Parse
  <2>3. CASE parse_from(line) # "cli"
    BY <1>1, <2>1, <2>3 DEF Parse, report_cli_error, write_cli_error, Fails
  <2> QED BY <2>2, <2>3
<1>2. CASE EnterDir \/ ReadFile
  BY <1>2 DEF EnterDir, ReadFile
<1>3. CASE LoadFails \/ ListCommands
  BY <1>3 DEF LoadFails, ListCommands, write_error_report
<1>4. CASE StartLoaded
  <2>1. builder.commands \in Seq(Contents)
    BY <1>4, BuiltRules DEF StartLoaded
  <2>2. cli.command = "Run"
    BY <1>4 DEF StartLoaded, Strict, Cli
  <2> QED BY <1>4, <2>1, <2>2 DEF StartLoaded
<1>5. CASE LoadKeybindings \/ Install \/ Enter
  BY <1>5 DEF LoadKeybindings, Goes, write_error_report, Install, Publish, Probe, Handle, Enter, Panics
<1>6. CASE StartSession
  BY <1>6 DEF StartSession, write_cli_error
<1>7. CASE PollReload
  BY <1>7 DEF PollReload
<1>8. CASE FinishReload
  <2>1. builder.commands \in Seq(Contents)
    BY <1>8, BuiltRules DEF FinishReload, reload_config, Goes
  <2> QED BY <1>8, <2>1 DEF FinishReload, reload_config, Goes, Replace, Reject
<1>9. CASE Input \/ InputFails
  BY <1>9 DEF Input, InputFails, Goes, write_error_report
<1>10. CASE DropApp \/ Report
  BY <1>10 DEF DropApp, Report, Goes
<1>11. CASE ReportFails \/ Exec
  BY <1>11 DEF ReportFails, Exec, Fails, write_error_report
<1>12. CASE Deliver
  BY <1>12 DEF Deliver, on_sighup
<1>13. CASE Edit \/ AskReload \/ HangUp
  BY <1>13 DEF Edit, AskReload, HangUp
<1>14. CASE UNCHANGED vars
  BY <1>14 DEF vars
<1> QED BY <1>1, <1>2, <1>3, <1>4, <1>5, <1>6, <1>7, <1>8, <1>9, <1>10, <1>11, <1>12, <1>13, <1>14
        DEF ProcessNext, Program, User, World

-----------------------------------------------------------------------------
(* The builder holds what has been read declares.                          *)

LEMMA Suffix ==
  ASSUME NEW s, IsASequence(s), NEW n \in 0..Len(s), NEW rest, rest = SubSeq(s, n + 1, Len(s))
  PROVE  /\ Len(rest) = Len(s) - n
         /\ rest # <<>> => /\ n + 1 \in 1..Len(s)
                           /\ Head(rest) = s[n + 1]
                           /\ Tail(rest) = SubSeq(s, n + 1 + 1, Len(s))
                           /\ Len(Tail(rest)) = Len(s) - (n + 1)
<1> DEFINE S == ToSet(s)
<1>1. s \in Seq(S) /\ Len(s) \in Nat
  BY OfItsMembers DEF IsASequence
<1> HIDE DEF S
<1>2. Len(rest) = Len(s) - n /\ rest \in Seq(S)
      /\ \A i \in 1..Len(s) - n : rest[i] = s[n + 1 + i - 1]
  BY <1>1, SubSeqProperties
<1>3. ASSUME rest # <<>>
      PROVE  /\ n + 1 \in 1..Len(s)
             /\ Head(rest) = s[n + 1]
             /\ Tail(rest) = SubSeq(s, n + 1 + 1, Len(s))
             /\ Len(Tail(rest)) = Len(s) - (n + 1)
  <2>1. Len(rest) # 0
    BY <1>2, <1>3
  <2>2. n + 1 \in 1..Len(s)
    BY <1>1, <1>2, <2>1
  <2>3. Head(rest) = s[n + 1]
    BY <1>1, <1>2, <2>2
  <2>4. Tail(rest) \in Seq(S) /\ Len(Tail(rest)) = Len(s) - (n + 1)
        /\ \A i \in 1..Len(s) - (n + 1) : Tail(rest)[i] = rest[i + 1]
    BY <1>1, <1>2, <1>3, <2>2
  <2> DEFINE later == SubSeq(s, n + 1 + 1, Len(s))
  <2>5. later \in Seq(S) /\ Len(later) = Len(s) - (n + 1)
        /\ \A i \in 1..Len(s) - (n + 1) : later[i] = s[n + 1 + 1 + i - 1]
    BY <1>1, <2>2, SubSeqProperties
  <2>6. \A i \in 1..Len(s) - (n + 1) : Tail(rest)[i] = later[i]
    <3> TAKE i \in 1..Len(s) - (n + 1)
    <3>1. i + 1 \in 1..Len(s) - n /\ n + 1 + (i + 1) - 1 = n + 1 + 1 + i - 1
      BY <1>1
    <3> QED BY <3>1, <1>2, <2>4, <2>5
  <2> HIDE DEF later
  <2>7. Tail(rest) = later
    BY <2>4, <2>5, <2>6, SeqEqual
  <2> QED BY <2>2, <2>3, <2>4, <2>7 DEF later
<1> QED BY <1>2, <1>3

LEMMA ErrorsAppended ==
  ASSUME NEW S, NEW r \in Seq(S), NEW x \in S
  PROVE  Errors(Append(r, x)) = IF Declares(r, x) THEN Errors(r) ELSE Append(Errors(r), x.at)
BY ErrorsOn, AppendedAs

LEMMA FaithfulAtFirst ==
  ASSUME Started', cli' = Cli(line'), dirs' = matcher_config_dirs(env', cli'),
         builder' = NewBuilder, warnings' = <<>>, files' = <<>>, reading' = <<>>
  PROVE  Faithful'
<1> DEFINE it == matcher_config_dirs(env', cli')
<1>1. IsASequence(it)
  <2>1. PICK start \in Starts : line' = start.line /\ env' = start.env
    BY DEF Started
  <2> QED BY <2>1, OverlaySequence
<1>2. it \in Seq(ToSet(it)) /\ Len(it) \in Nat
  BY <1>1, OfItsMembers DEF IsASequence
<1> HIDE DEF it
<1>3. it = SubSeq(it, 0 + 1, Len(it))
  BY <1>2, SubSeqFull
<1>4. 0 \in 0..Len(it)
  BY <1>2
<1>5. \E n \in 0..Len(overlay') : dirs' = SubSeq(overlay', n + 1, Len(overlay'))
  BY <1>3, <1>4 DEF it, overlay
<1> QED BY <1>5, EmptyReading DEF Faithful

LEMMA FaithfulKept ==
  ASSUME Typed, Progress, Faithful, Typed', Progress', [ProcessNext]_vars
  PROVE  Faithful'
<1> USE DEF given, load, handler, world
<1>1. CASE Quietly
  <2>1. UNCHANGED <<given, cli, load>>
    BY <1>1, Quiet
  <2>2. ASSUME pc' \in {"load", "reload"} PROVE pc' = pc
    BY <1>1, <2>2 DEF Quietly, LoadFails, ListCommands, LoadKeybindings, StartSession, Enter, DropApp, Report,
      ReportFails, Exec, Input, InputFails, vars, Goes, Ends, Exits, Fails, write_error_report, write_cli_error, Panics
  <2> QED BY <2>1, <2>2 DEF Faithful, overlay
<1>2. CASE Parse
  <2>1. CASE parse_from(line) = "cli"
    <3>1. /\ cli' = Cli(line) /\ dirs' = matcher_config_dirs(env, cli') /\ UNCHANGED given
          /\ builder' = NewBuilder /\ warnings' = <<>> /\ files' = <<>> /\ reading' = <<>>
      BY <1>2, <2>1 DEF Parse, BeginLoad, ReadsFrom
    <3> QED BY <3>1, FaithfulAtFirst DEF Typed
  <2>2. CASE parse_from(line) # "cli"
    <3>1. pc' = "ended"
      BY <1>2, <2>2 DEF Parse, report_cli_error, write_cli_error, Fails, Ends, Exits
    <3> QED BY <3>1 DEF Faithful
  <2> QED BY <2>1, <2>2
<1>3. CASE EnterDir
  <2> DEFINE d == Head(dirs)
             x == Read(Len(dirs'), <<d>>, Absent)
  <2>1. /\ pc \in {"load", "reload"} /\ UNCHANGED <<pc, given, cli>> /\ overlay' = overlay
        /\ files = <<>> /\ dirs # <<>> /\ dirs' = Tail(dirs)
    BY <1>3 DEF EnterDir, Loading, overlay
  <2>2. /\ Builds(builder, reading)
        /\ warnings = Errors(reading)
        /\ \A j \in 1..Len(reading) : Len(dirs) <= reading[j].layer
    BY <2>1 DEF Faithful
  <2>3. PICK n \in 0..Len(overlay) : dirs = SubSeq(overlay, n + 1, Len(overlay))
    BY <2>1 DEF Faithful
  <2>4. IsASequence(overlay)
    BY <2>1, OverlayDirs DEF Typed, Progress, Starting, Running, overlay
  <2>5. /\ n + 1 \in 0..Len(overlay) /\ dirs' = SubSeq(overlay, n + 1 + 1, Len(overlay))
        /\ Len(dirs') = Len(dirs) - 1 /\ Len(dirs') \in Nat /\ Len(dirs) \in Nat
    <3>1. n + 1 \in 1..Len(overlay) /\ dirs' = SubSeq(overlay, n + 1 + 1, Len(overlay))
          /\ Len(dirs) = Len(overlay) - n /\ Len(dirs') = Len(overlay) - (n + 1)
      BY <2>1, <2>3, <2>4, Suffix
    <3> QED BY <3>1, <2>4 DEF IsASequence
  <2>6. reading \in Seq(Entries) /\ \A j \in 1..Len(reading) : reading[j].layer \in Nat
    <3>1. \A e \in Entries : e.layer \in Nat
      BY DEF Entries
    <3> QED BY <3>1 DEF Typed
  <2>7. \A j \in 1..Len(reading) : reading[j].layer # Len(dirs') /\ Len(dirs') <= reading[j].layer
    <3>1. \A a, b, c \in Nat : b = a - 1 /\ a <= c => c # b /\ b <= c
      OBVIOUS
    <3> QED BY <3>1, <2>2, <2>5, <2>6
  <2>8. CASE Dirs(d) = "missing"
    <3>1. UNCHANGED <<builder, files, reading, warnings>>
      BY <1>3, <2>8 DEF EnterDir
    <3> QED BY <3>1, <2>1, <2>2, <2>5, <2>7 DEF Faithful
  <2>9. CASE Dirs(d) = "open"
    <3>1. builder' = start_layer(builder) /\ UNCHANGED <<warnings, reading>>
      BY <1>3, <2>9 DEF EnterDir
    <3>2. Builds(builder', reading') /\ KnowsLayer(builder', reading', Len(dirs'))
      BY <3>1, <2>2, <2>6, <2>7, LayerStarts
    <3> QED BY <3>1, <3>2, <2>1, <2>2, <2>5, <2>7 DEF Faithful
  <2>10. CASE Dirs(d) = "unreadable"
    <3>1. /\ warnings' = Append(warnings, <<d>>) /\ reading' = Append(reading, x)
          /\ builder' = start_layer(builder) /\ UNCHANGED files
      BY <1>3, <2>10 DEF EnterDir, Refuse
    <3>2. Builds(builder', reading) /\ KnowsLayer(builder', reading, Len(dirs'))
      BY <3>1, <2>2, <2>6, <2>7, LayerStarts
    <3>3. x \in Entries /\ x.layer = Len(dirs') /\ x.content = Absent /\ x.at = <<d>>
      <4>1. d \in Where
        BY <2>1 DEF Typed
      <4> QED BY <4>1, <2>5 DEF Read, Entries, Places, Contents
    <3>4. ~Declares(reading, x)
      BY <3>3 DEF Declares, IsRule
    <3> HIDE DEF x
    <3>5. KnowsLayer(builder', reading, x.layer)
      BY <3>2, <3>3
    <3>6. Builds(add_file(builder', x.content), Append(reading, x)) /\ ~Accepts(builder', x.content)
      BY ONLY <2>6, <3>2, <3>3, <3>4, <3>5, BuilderFollows
    <3>7. Builds(builder', reading')
      BY <3>1, <3>6 DEF add_file
    <3>8. warnings' = Errors(reading')
      BY <3>1, <3>3, <3>4, <2>2, <2>6, ErrorsAppended
    <3>9. \A j \in 1..Len(reading') : Len(dirs') <= reading'[j].layer
      <4>1. Len(reading') = Len(reading) + 1 /\ reading'[Len(reading) + 1] = x /\ Len(reading) \in Nat
            /\ \A j \in 1..Len(reading) : reading'[j] = reading[j]
        BY <3>1, <3>3, <2>6, Longer
      <4>2. \A j \in 1..Len(reading') : j \in 1..Len(reading) \/ j = Len(reading) + 1
        BY <4>1
      <4> QED BY <4>1, <4>2, <3>3, <2>5, <2>7
    <3> QED BY <3>1, <3>7, <3>8, <3>9, <2>1, <2>5 DEF Faithful
  <2>11. Dirs(d) \in Accesses
    BY Access DEF Typed
  <2> QED BY <2>8, <2>9, <2>10, <2>11 DEF Accesses
<1>4. CASE ReadFile
  <2> DEFINE file == Head(files)
             x == Read(Len(dirs), file, ContentNow(file))
  <2>1. /\ pc \in {"load", "reload"} /\ UNCHANGED <<pc, given, cli, dirs>> /\ overlay' = overlay
        /\ files # <<>>
        /\ builder' = add_file(builder, ContentNow(file))
        /\ reading' = Append(reading, x)
        /\ IF Accepts(builder, ContentNow(file)) THEN UNCHANGED warnings ELSE warnings' = Append(warnings, file)
    BY <1>4 DEF ReadFile, Loading, overlay, Refuse
  <2>2. /\ Builds(builder, reading) /\ KnowsLayer(builder, reading, Len(dirs))
        /\ warnings = Errors(reading)
        /\ \A j \in 1..Len(reading) : Len(dirs) <= reading[j].layer
    BY <2>1 DEF Faithful
  <2>3. reading \in Seq(Entries) /\ x \in Entries
    <3>1. file \in Where \X ToSet(Sources) /\ Len(dirs) \in Nat
      BY <2>1 DEF Typed
    <3> HIDE DEF file
    <3>2. file[2] \in ToSet(Sources)
      BY <3>1
    <3>3. ContentNow(file) \in Contents
      BY <3>2, ContentIsKnown DEF Typed
    <3> QED BY <3>1, <3>3 DEF Read, Entries, Places, Typed
  <2>4. x.layer = Len(dirs) /\ x.content = ContentNow(file) /\ x.at = file
    BY DEF Read
  <2> HIDE DEF x
  <2>5. KnowsLayer(builder, reading, x.layer)
    BY <2>2, <2>4
  <2>6. /\ Accepts(builder, x.content) <=> Declares(reading, x)
        /\ Builds(add_file(builder, x.content), Append(reading, x))
        /\ KnowsLayer(add_file(builder, x.content), Append(reading, x), x.layer)
    BY ONLY <2>2, <2>3, <2>5, BuilderFollows
  <2>7. warnings' = Errors(reading')
    BY <2>1, <2>2, <2>3, <2>4, <2>6, ErrorsAppended
  <2>8. \A j \in 1..Len(reading') : Len(dirs) <= reading'[j].layer
    <3>1. Len(reading') = Len(reading) + 1 /\ reading'[Len(reading) + 1] = x /\ Len(reading) \in Nat
          /\ \A j \in 1..Len(reading) : reading'[j] = reading[j]
      BY <2>1, <2>3, Longer
    <3>2. \A j \in 1..Len(reading') : j \in 1..Len(reading) \/ j = Len(reading) + 1
      BY <3>1
    <3>3. Len(dirs) \in Nat
      BY DEF Typed
    <3> QED BY <3>1, <3>2, <3>3, <2>2, <2>4
  <2>9. \E n \in 0..Len(overlay) : dirs = SubSeq(overlay, n + 1, Len(overlay))
    BY <2>1 DEF Faithful
  <2> QED BY <2>1, <2>4, <2>6, <2>7, <2>8, <2>9 DEF Faithful
<1>5. CASE StartLoaded \/ Install \/ FinishReload
  <2>1. pc' \notin {"load", "reload"}
    BY <1>5 DEF StartLoaded, FinishReload, reload_config, Goes, Install, Publish, Probe, Handle
  <2> QED BY <2>1 DEF Faithful
<1>6. CASE PollReload
  <2>1. CASE reload_requested
    <3>1. /\ UNCHANGED <<given, cli>> /\ dirs' = matcher_config_dirs(env, cli) /\ pc = "poll"
          /\ builder' = NewBuilder /\ warnings' = <<>> /\ files' = <<>> /\ reading' = <<>>
      BY <1>6, <2>1 DEF PollReload, BeginLoad, ReadsFrom
    <3>2. cli' = Cli(line') /\ dirs' = matcher_config_dirs(env', cli')
      BY <3>1 DEF Progress, Running
    <3> QED BY <3>1, <3>2, FaithfulAtFirst DEF Typed
  <2>2. CASE ~reload_requested
    <3>1. pc' = "input"
      BY <1>6, <2>2 DEF PollReload
    <3> QED BY <3>1 DEF Faithful
  <2> QED BY <2>1, <2>2
<1>7. CASE Deliver \/ Edit \/ AskReload \/ HangUp
  <2>1. UNCHANGED <<given, cli, load>> /\ (pc' = pc \/ pc' = "ended")
    BY <1>7 DEF Deliver, Edit, AskReload, HangUp, on_sighup, Exits
  <2> QED BY <2>1 DEF Faithful, overlay
<1> QED BY <1>1, <1>2, <1>3, <1>4, <1>5, <1>6, <1>7, StepIs

-----------------------------------------------------------------------------
(* The rules in force, and what the process says at its end.               *)

\* The steps that end the process, and those that put rules in force.
Ending ==
  Parse \/ LoadFails \/ ListCommands \/ LoadKeybindings \/ StartSession \/ Enter \/ InputFails
    \/ ReportFails \/ Exec \/ Deliver

LEMMA RulesKept ==
  ASSUME Typed, Faithful, RulesOfOneReading, [ProcessNext]_vars
  PROVE  RulesOfOneReading'
<1> USE DEF app
<1>1. CASE StartLoaded
  <2>1. /\ pc = "load" /\ matcher' = builder.commands /\ config_warnings' = warnings
        /\ inforce' = [by |-> "start", reading |-> reading]
    BY <1>1 DEF StartLoaded, LoadedBy
  <2>2. matcher' = Overlay(reading) /\ warnings = Errors(reading)
    BY <2>1, BuiltRules DEF Faithful
  <2>3. inforce'.by = "start" /\ inforce'.reading = reading
    BY <2>1
  <2> QED BY <2>1, <2>2, <2>3 DEF RulesOfOneReading
<1>2. CASE FinishReload
  <2>1. CASE warnings = <<>>
    <3>1. /\ pc = "reload" /\ matcher' = builder.commands
          /\ inforce' = [by |-> "reload", reading |-> reading]
      BY <1>2, <2>1 DEF FinishReload, reload_config, Goes, Replace, LoadedBy
    <3>2. matcher' = Overlay(reading) /\ Errors(reading) = <<>>
      BY <3>1, <2>1, BuiltRules DEF Faithful
    <3>3. inforce'.by = "reload" /\ inforce'.reading = reading
      BY <3>1
    <3> QED BY <3>2, <3>3 DEF RulesOfOneReading
  <2>2. CASE warnings # <<>>
    <3>1. UNCHANGED <<matcher, inforce, config_warnings>>
      BY <1>2, <2>2 DEF FinishReload, reload_config, Reject
    <3> QED BY <3>1 DEF RulesOfOneReading
  <2> QED BY <2>1, <2>2
<1>3. CASE ~StartLoaded /\ ~FinishReload
  <2>1. UNCHANGED <<matcher, inforce, config_warnings>>
    <3> USE DEF Ends, Fails, write_error_report, write_cli_error
    <3>1. CASE Ending
      BY <3>1 DEF Ending, Parse, report_cli_error, LoadFails, ListCommands, LoadKeybindings,
         StartSession, Enter, Panics, InputFails, ReportFails, Exec, Deliver
    <3>2. CASE EnterDir \/ ReadFile \/ Install \/ PollReload
      BY <3>2 DEF EnterDir, ReadFile, Install, PollReload
    <3>3. CASE Input \/ DropApp \/ Report \/ Edit \/ AskReload \/ HangUp
      BY <3>3 DEF Input, DropApp, Report, Edit, AskReload, HangUp
    <3>4. CASE UNCHANGED vars
      BY <3>4 DEF vars
    <3> QED BY <1>3, <3>1, <3>2, <3>3, <3>4 DEF ProcessNext, Program, User, World, Ending
  <2> QED BY <2>1 DEF RulesOfOneReading
<1> QED BY <1>1, <1>2, <1>3

\* When it says why the last reload was rejected, and starts only what it can.
SaysWhy == reload_diagnostics = Errors(last)
Domains == session # None => ~(session.domain # "local" /\ session.backend = "zeroconf")

LEMMA ReasonsKept ==
  ASSUME Faithful, SaysWhy, [ProcessNext]_vars
  PROVE  SaysWhy'
<1> USE DEF app
<1>1. CASE FinishReload
  <2>1. pc = "reload" /\ last' = reading /\ (IF warnings = <<>> THEN reload_diagnostics' = <<>> ELSE reload_diagnostics' = warnings)
    BY <1>1 DEF FinishReload, reload_config, Goes, Replace, Reject
  <2>2. warnings = Errors(reading)
    BY <2>1 DEF Faithful
  <2> QED BY <2>1, <2>2 DEF SaysWhy
<1>2. CASE ~FinishReload
  <2>1. UNCHANGED <<last, reload_diagnostics>>
    <3> USE DEF Ends, Fails, write_error_report, write_cli_error
    <3>1. CASE Ending
      BY <3>1 DEF Ending, Parse, report_cli_error, LoadFails, ListCommands, LoadKeybindings,
         StartSession, Enter, Panics, InputFails, ReportFails, Exec, Deliver
    <3>2. CASE EnterDir \/ ReadFile \/ StartLoaded \/ Install \/ PollReload
      BY <3>2 DEF EnterDir, ReadFile, StartLoaded, Install, PollReload
    <3>3. CASE Input \/ DropApp \/ Report \/ Edit \/ AskReload \/ HangUp
      BY <3>3 DEF Input, DropApp, Report, Edit, AskReload, HangUp
    <3>4. CASE UNCHANGED vars
      BY <3>4 DEF vars
    <3> QED BY <1>2, <3>1, <3>2, <3>3, <3>4 DEF ProcessNext, Program, User, World, Ending
  <2> QED BY <2>1 DEF SaysWhy
<1> QED BY <1>1, <1>2

LEMMA OptionsAreServed ==
  ASSUME Progress
  PROVE  Domains
<1> SUFFICES ASSUME session # None, session.domain # "local" PROVE session.backend # "zeroconf"
  BY DEF Domains
<1> DEFINE config == discovery_config(cli)
<1>1. session = [config EXCEPT !.domain = canonical_domain(@)] /\ Flag[DiscoveryOptionError(config)] = "none"
  BY DEF Progress, discovery_options, DiscoveryUsageError, validate
<1>2. config = [backend |-> cli.backend, domain |-> cli.domain, service_type |-> cli.service_type]
  BY DEF discovery_config
<1> HIDE DEF config
<1>3. session.domain = canonical_domain(config.domain) /\ session.backend = config.backend
  BY <1>1, <1>2
<1>4. DiscoveryOptionError(config) \in {"ServiceType", "UnsupportedDomain", "none"}
  BY DEF DiscoveryOptionError
<1>5. DiscoveryOptionError(config) = "none"
  BY <1>1, <1>4 DEF Flag
<1>6. config.service_type = Unset \/ parse_service_type(config.service_type)
  BY <1>5 DEF DiscoveryOptionError
<1>7. ~(canonical_domain(config.domain) # "local" /\ ~supports_custom_domain(config.backend))
  BY <1>5, <1>6 DEF DiscoveryOptionError
<1> QED BY <1>3, <1>7 DEF supports_custom_domain

LEMMA VerdictsAre ==
  ASSUME SaysWhy, Domains,
         exit_code \in {"ok", "replaced"} /\ session_was_asked =>
           stderr = said("warning", config_warnings) \o said("reload rejected", Errors(last)),
         cli # None /\ stdout # None =>
           Errors(reading) = <<>> /\ Prints(stdout, Overlay(reading)) /\ Legible(stdout),
         exit_code = "usage" => stderr # <<>> /\ (cli = None \/ (session_was_asked /\ matcher # None))
  PROVE  Verdicts
BY DEF SaysWhy, Domains, Verdicts

LEMMA VerdictsUnsaid ==
  ASSUME SaysWhy, Progress, pc # "ended"
  PROVE  Verdicts
<1>1. exit_code = None /\ stdout = None
  BY DEF Progress
<1>2. None \notin {"ok", "replaced", "usage"}
  BY ProcessAssumption
<1> QED BY <1>1, <1>2, OptionsAreServed, VerdictsAre

LEMMA NothingAfterTheEnd ==
  ASSUME pc = "ended", [ProcessNext]_vars
  PROVE  UNCHANGED vars
<1>1. ~(Parse \/ EnterDir \/ ReadFile \/ LoadFails \/ ListCommands \/ StartLoaded)
  BY DEF Parse, EnterDir, ReadFile, Loading, LoadFails, ListCommands, StartLoaded
<1>2. ~(LoadKeybindings \/ StartSession \/ Install \/ Enter \/ PollReload \/ FinishReload)
  BY DEF LoadKeybindings, Goes, StartSession, Install, Publish, Probe, Handle, Enter, PollReload,
    FinishReload, reload_config
<1>3. ~(DropApp \/ Report \/ ReportFails \/ Exec \/ Input \/ InputFails)
  BY DEF DropApp, Goes, Report, ReportFails, Exec, Input, InputFails
<1>4. ~(Deliver \/ World)
  BY DEF Deliver, World, Edit, AskReload, HangUp, Alive
<1> QED BY <1>1, <1>2, <1>3, <1>4 DEF ProcessNext, Program, User

LEMMA TableIsPrinted ==
  ASSUME Typed, Faithful, pc = "load"
  PROVE  /\ Prints(write_commands(builder.commands), Overlay(reading))
         /\ Legible(write_commands(builder.commands))
<1> DEFINE rules == Overlay(reading)
           n == Len(rules)
<1>1. builder.commands = rules /\ rules \in Seq(Contents)
  BY BuiltRules
<1>2. \A i \in DOMAIN rules : \E j \in 1..Len(reading) : IsRule(reading[j].content) /\ rules[i] = reading[j].content
  BY OverlayMembers DEF Typed
<1> HIDE DEF rules
<1>3. n \in Nat /\ DOMAIN rules = 1..n /\ \A i \in 1..n : rules[i] \in Contents
  BY <1>1
<1>4. \A i \in 1..n : IsRule(rules[i])
  BY <1>2, <1>3
<1>5. \A i \in 1..n : Described(rules[i]) \in [1..4 -> Texts]
  BY <1>3, <1>4, ProcessAssumption
<1> QED BY <1>1, <1>3, <1>5, TablePrints DEF rules

LEMMA VerdictsKept ==
  ASSUME Typed, Progress, Faithful, Verdicts, Progress', [ProcessNext]_vars
  PROVE  Verdicts'
<1> USE DEF Ends, Exits, Fails, app, load, given, output
<1>0. SaysWhy /\ SaysWhy'
  <2>1. SaysWhy
    BY DEF Verdicts, SaysWhy
  <2> QED BY <2>1, ReasonsKept
<1>1. CASE UNCHANGED vars
  <2>1. UNCHANGED <<reload_diagnostics, last, exit_code, cli, stderr, config_warnings, stdout, reading, matcher, session>>
    BY <1>1 DEF vars, outside
  <2> QED BY <2>1 DEF Verdicts, session_was_asked
<1>2. Domains'
  BY OptionsAreServed, PTL
<1>3. CASE pc' # "ended"
  <2>1. exit_code' = None /\ stdout' = None
    BY <1>3 DEF Progress
  <2>2. None \notin {"ok", "replaced", "usage"}
    BY ProcessAssumption
  <2> QED BY <1>0, <1>2, <2>1, <2>2 DEF Verdicts, SaysWhy, Domains
<1>4. CASE pc' = "ended" /\ pc # "ended"
  <2>1. /\ exit_code = None /\ stdout = None /\ None \notin {"ok", "replaced", "usage"}
        /\ pc \notin {"exec", "ended"} => stderr = <<>>
    BY <1>4, ProcessAssumption DEF Progress
  <2>2. ~Ending => pc' # "ended"
    BY <1>4 DEF ProcessNext, Program, User, World, Ending, EnterDir, ReadFile, StartLoaded, Install, Publish,
       Probe, Handle, Goes, PollReload, FinishReload, reload_config, Input, DropApp, Report, Edit, AskReload, HangUp,
       vars
  <2>3. UNCHANGED <<cli, load, app, last>> /\ session_was_asked' = session_was_asked
    <3>1. CASE Ending
      BY <3>1, <1>4 DEF Ending, Parse, report_cli_error, LoadFails, ListCommands, LoadKeybindings,
         StartSession, Enter, Panics, InputFails, ReportFails, Exec, Deliver, write_error_report, write_cli_error,
         session_was_asked
    <3> QED BY <3>1, <2>2, <1>4
  <2>4. ASSUME exit_code' \notin {"ok", "replaced", "usage"}, UNCHANGED stdout
        PROVE  Verdicts'
    BY <2>1, <2>4, <1>0, <1>2 DEF Verdicts, SaysWhy, Domains
  <2>5. CASE LoadFails \/ LoadKeybindings \/ InputFails \/ Enter \/ ReportFails \/ Deliver
    <3>1. exit_code' \in {"failed", "panic", "hangup"} /\ UNCHANGED stdout
      BY <2>5, <1>4 DEF LoadFails, LoadKeybindings, Goes, InputFails, Enter, Panics, ReportFails, write_error_report,
         Deliver, on_sighup
    <3> QED BY <3>1, <2>4
  <2>6. CASE Parse
    <3>1. cli' = None
      BY <2>6, <2>3, <1>4 DEF Parse, Progress
    <3>2. exit_code' = "usage" => stderr' # <<>>
      <4>1. stderr = <<>>
        BY <2>6, <2>1 DEF Parse
      <4>2. \A e : Append(<<>>, e) # <<>>
        OBVIOUS
      <4>3. exit_code' = "usage" => \E e : stderr' = Append(stderr, e)
        BY <2>6, <1>4 DEF Parse, report_cli_error, write_cli_error
      <4> QED BY <4>1, <4>2, <4>3
    <3> QED BY <3>1, <3>2, <1>0, <1>2 DEF Verdicts, SaysWhy, Domains, session_was_asked
  <2>7. CASE StartSession
    <3>1. pc = "options" /\ UNCHANGED stdout /\ exit_code' \in {"usage", "failed"}
          /\ (exit_code' = "usage" => \E e : stderr' = Append(stderr, e))
      BY <2>7, <1>4 DEF StartSession, write_cli_error
    <3>2. \A e : Append(<<>>, e) # <<>>
      OBVIOUS
    <3>3. stderr' # <<>> \/ exit_code' = "failed"
      BY <3>1, <3>2, <2>1
    <3>4. cli.command = "Run" /\ matcher # None
      BY <3>1, ProcessAssumption DEF Progress, Starting, Running
    <3> QED BY <3>1, <3>3, <3>4, <2>1, <2>3, <1>0, <1>2 DEF Verdicts, SaysWhy, Domains, session_was_asked
  <2>8. CASE Exec
    <3>1. pc = "exec" /\ UNCHANGED stdout /\ exit_code' \in {"ok", "replaced", "failed"}
          /\ (exit_code' \in {"ok", "replaced"} => UNCHANGED stderr)
      BY <2>8 DEF Exec, write_error_report
    <3>2. stderr = said("warning", config_warnings) \o said("reload rejected", reload_diagnostics)
      BY <3>1 DEF Progress, diagnostics_said
    <3> QED BY <3>1, <3>2, <2>1, <2>3, <1>0, <1>2 DEF Verdicts, SaysWhy, Domains
  <2>9. CASE ListCommands
    <3>1. /\ pc = "load" /\ cli.command = "ListCommands" /\ warnings = <<>>
          /\ \/ exit_code' = "failed" /\ UNCHANGED stdout
             \/ exit_code' = "ok" /\ stdout' = write_commands(builder.commands)
      BY <2>9 DEF ListCommands, write_error_report, Strict, Loaded
    <3>2. ~session_was_asked
      BY <3>1 DEF session_was_asked
    <3>3. Prints(write_commands(builder.commands), Overlay(reading)) /\ Legible(write_commands(builder.commands))
      BY <3>1, TableIsPrinted
    <3>4. Errors(reading) = <<>>
      BY <3>1 DEF Faithful
    <3> QED BY <3>1, <3>2, <3>3, <3>4, <2>1, <2>3, <1>0, <1>2 DEF Verdicts, SaysWhy, Domains
  <2> QED BY <2>5, <2>6, <2>7, <2>8, <2>9, <2>2, <1>4 DEF Ending
<1> QED BY <1>1, <1>3, <1>4, NothingAfterTheEnd

-----------------------------------------------------------------------------
(* No signal is lost: what is in force is what was there when nothing has  *)
(* changed since.                                                          *)

LEMMA MoveOn ==
  ASSUME NEW S, NEW r \in Seq(S), NEW t \in Seq(S), t # <<>>
  PROVE  Append(r, Head(t)) \o Tail(t) = r \o t
<1> DEFINE left == Append(r, Head(t)) \o Tail(t)
           right == r \o t
           n == Len(r)
           m == Len(t)
<1>1. n \in Nat /\ m \in Nat /\ m # 0 /\ Head(t) \in S /\ Head(t) = t[1]
  OBVIOUS
<1>2. /\ Append(r, Head(t)) \in Seq(S) /\ Len(Append(r, Head(t))) = n + 1
      /\ \A i \in 1..n : Append(r, Head(t))[i] = r[i]
      /\ Append(r, Head(t))[n + 1] = t[1]
  BY <1>1
<1>3. Tail(t) \in Seq(S) /\ Len(Tail(t)) = m - 1 /\ \A i \in 1..m - 1 : Tail(t)[i] = t[i + 1]
  BY <1>1
<1>4. left \in Seq(S) /\ Len(left) = n + 1 + (m - 1)
      /\ \A i \in 1..n + 1 + (m - 1) : left[i] = IF i <= n + 1 THEN Append(r, Head(t))[i] ELSE Tail(t)[i - (n + 1)]
  BY <1>2, <1>3, ConcatProperties
<1>5. right \in Seq(S) /\ Len(right) = n + m
      /\ \A i \in 1..n + m : right[i] = IF i <= n THEN r[i] ELSE t[i - n]
  BY ConcatProperties
<1> HIDE DEF n, m, left, right
<1>6. ASSUME NEW i \in 1..n + m PROVE left[i] = right[i]
  <2>1. i \in 1..n + 1 + (m - 1)
    BY <1>1
  <2>2. CASE i <= n
    BY <2>1, <2>2, <1>1, <1>2, <1>4, <1>5
  <2>3. CASE i = n + 1
    <3>1. left[i] = t[1]
      BY <2>1, <2>3, <1>1, <1>2, <1>4
    <3>2. i - n = 1 /\ ~(i <= n)
      BY <2>3, <1>1
    <3> QED BY <3>1, <3>2, <1>5
  <2>4. CASE i > n + 1
    <3>1. i - (n + 1) \in 1..m - 1 /\ i - (n + 1) + 1 = i - n /\ ~(i <= n + 1) /\ ~(i <= n)
      BY <2>4, <1>1
    <3> QED BY <3>1, <2>1, <1>3, <1>4, <1>5
  <2> QED BY <2>2, <2>3, <2>4, <1>1
<1>7. Len(left) = Len(right) /\ Len(left) = n + m
  BY <1>1, <1>4, <1>5
<1>8. left = right
  BY <1>4, <1>5, <1>6, <1>7, SeqEqual
<1> QED BY <1>8 DEF left, right

LEMMA UptoNext ==
  ASSUME KnownDisk, IsASequence(overlay), overlay \in Seq(Where)
  PROVE  /\ Upto(0) = <<>>
         /\ Upto(Len(overlay)) = OnDisk
         /\ \A n \in 0..Len(overlay) - 1 :
              Upto(n + 1) = Upto(n) \o Holds(Len(overlay) - (n + 1), overlay[n + 1])
         /\ \A n \in 0..Len(overlay) : Upto(n) \in Seq(Entries)
<1>1. Len(overlay) \in Nat /\ DOMAIN overlay = 1..Len(overlay)
  BY DEF IsASequence
<1>2. \A k \in 1..Len(overlay) : Pieces[k] = Holds(Len(overlay) - k, overlay[k]) /\ Pieces[k] \in Seq(Entries)
  <2> TAKE k \in 1..Len(overlay)
  <2>1. overlay[k] \in Where /\ Len(overlay) - k \in Nat
    BY <1>1
  <2> QED BY <2>1, HeldEntries DEF Pieces
<1>3. Upto(Len(overlay)) = OnDisk
  <2>1. [k \in 1..Len(overlay) |-> Pieces[k]] = [n \in DOMAIN overlay |-> Holds(Len(overlay) - n, overlay[n])]
    BY <1>1, <1>2
  <2> QED BY <2>1 DEF Upto, OnDisk, overlay
<1>4. Upto(0) = <<>>
  <2>1. [k \in 1..0 |-> Pieces[k]] = <<>>
    OBVIOUS
  <2>2. Len(<<>>) = 0
    OBVIOUS
  <2>3. FlattenSeq(<<>>) = <<>>
    BY <2>2, Zenon DEF FlattenSeq
  <2> QED BY <2>1, <2>3 DEF Upto
<1>5. ASSUME NEW n \in 0..Len(overlay) - 1
      PROVE  Upto(n + 1) = Upto(n) \o Holds(Len(overlay) - (n + 1), overlay[n + 1])
  <2> DEFINE s == [k \in 1..n + 1 |-> Pieces[k]]
  <2>1. s \in [1..n + 1 -> Seq(Entries)] /\ n \in Nat /\ n + 1 \in 1..Len(overlay) /\ n + 1 \in 1..n + 1
    BY <1>1, <1>2
  <2>2. [k \in 1..n |-> s[k]] = [k \in 1..n |-> Pieces[k]] /\ s[n + 1] = Pieces[n + 1]
    BY <2>1
  <2> HIDE DEF s
  <2>3. FlattenSeq(s) = FlattenSeq([k \in 1..n |-> s[k]]) \o s[n + 1]
    BY ONLY <2>1, FlattenOn
  <2>4. Upto(n + 1) = FlattenSeq(s) /\ Upto(n) = FlattenSeq([k \in 1..n |-> Pieces[k]])
    BY DEF Upto, s
  <2>5. Pieces[n + 1] = Holds(Len(overlay) - (n + 1), overlay[n + 1])
    BY <1>2, <2>1
  <2> QED BY <2>2, <2>3, <2>4, <2>5
<1>6. ASSUME NEW n \in 0..Len(overlay) PROVE Upto(n) \in Seq(Entries)
  <2>1. [k \in 1..n |-> Pieces[k]] \in [1..n -> Seq(Entries)] /\ n \in Nat
    BY <1>1, <1>2
  <2> QED BY <2>1, FlattenType DEF Upto
<1> QED BY <1>3, <1>4, <1>5, <1>6

LEMMA ServedFirst ==
  ASSUME ProcessInit
  PROVE  Served /\ Current
BY DEF ProcessInit, Served, Fresh, Current, Running

LEMMA ServedKept ==
  ASSUME Typed, Progress, Served, [ProcessNext]_vars
  PROVE  Served'
<1> USE DEF handler, world, load, Served, Fresh, Starting, Running, Ends, Exits, Fails
<1>1. CASE Quietly
  <2>1. UNCHANGED <<handler, reload_requested, sighup, world>>
    BY <1>1, Quiet
  <2>2. CASE LoadFails \/ ListCommands
    BY <2>1, <2>2 DEF LoadFails, ListCommands, write_error_report
  <2>3. CASE LoadKeybindings \/ StartSession
    BY <2>1, <2>3 DEF LoadKeybindings, StartSession, Goes, write_error_report, write_cli_error
  <2>4. CASE Enter
    BY <2>1, <2>4 DEF Enter, Panics
  <2>5. CASE DropApp \/ Report \/ ReportFails \/ Exec
    BY <2>1, <2>5 DEF DropApp, Report, ReportFails, Exec, Goes, write_error_report
  <2>6. CASE Input \/ InputFails
    BY <2>1, <2>6 DEF Input, InputFails, Goes, write_error_report
  <2>7. CASE UNCHANGED vars
    BY <2>1, <2>7 DEF vars
  <2> QED BY <1>1, <2>2, <2>3, <2>4, <2>5, <2>6, <2>7 DEF Quietly
<1>2. CASE Parse
  <2>1. CASE parse_from(line) = "cli"
    <3>1. pc = "parse" /\ pc' = "load" /\ UNCHANGED <<handler, reload_requested, sighup, world>>
      BY <1>2, <2>1 DEF Parse
    <3> QED BY <3>1
  <2>2. CASE parse_from(line) # "cli"
    <3>1. pc' = "ended" /\ UNCHANGED handler
      BY <1>2, <2>2 DEF Parse, report_cli_error, write_cli_error
    <3> QED BY <3>1
  <2> QED BY <2>1, <2>2
<1>3. CASE EnterDir \/ ReadFile
  <2>1. UNCHANGED <<pc, handler, reload_requested, sighup, world>>
    BY <1>3 DEF EnterDir, ReadFile
  <2> QED BY <2>1
<1>4. CASE StartLoaded \/ PollReload \/ FinishReload
  <2>1. CASE StartLoaded
    <3>1. pc = "load" /\ pc' = "keys" /\ UNCHANGED <<handler, reload_requested, sighup, world>>
      BY <2>1 DEF StartLoaded
    <3> QED BY <3>1
  <2>2. CASE PollReload \/ FinishReload
    <3>1. pc \in {"poll", "reload"} /\ pc' \in {"reload", "input"} /\ UNCHANGED handler
      BY <2>2 DEF PollReload, FinishReload, reload_config, Goes
    <3> QED BY <3>1
  <2> QED BY <1>4, <2>1, <2>2
<1>5. CASE Install
  <2>1. /\ pc \in Starting /\ pc' \in Starting /\ UNCHANGED <<reload_requested, sighup, world>>
        /\ published' = TRUE \/ UNCHANGED published
    BY <1>5 DEF Install, Publish, Probe, Handle, Goes
  <2>2. pc' = "enter" => installed'
    BY <1>5 DEF Install, Publish, Probe, Handle, Goes
  <2>3. published'
    BY <1>5 DEF Install, Publish, Probe, Handle, Goes
  <2> QED BY <2>1, <2>2, <2>3
<1>6. CASE Deliver
  <2>1. \/ pc' = "ended" /\ UNCHANGED handler
        \/ pc' = pc /\ UNCHANGED handler /\ installed /\ reload_requested' = published
    BY <1>6 DEF Deliver, on_sighup
  <2> QED BY <2>1
<1>7. CASE Edit \/ AskReload \/ HangUp
  BY <1>7 DEF Edit, AskReload, HangUp
<1> QED BY <1>1, <1>2, <1>3, <1>4, <1>5, <1>6, <1>7, StepIs

\* What is on the disk is named by the same words before a step that leaves it alone and after it.
LEMMA SameDisk ==
  ASSUME UNCHANGED <<given, cli, disk>>
  PROVE  /\ overlay' = overlay
         /\ OnDisk' = OnDisk
         /\ Pieces' = Pieces
         /\ \A file : ContentNow(file)' = ContentNow(file)
<1>1. overlay' = overlay
  BY DEF overlay, given
<1>2. \A d : Dirs(d)' = Dirs(d)
  BY DEF Dirs
<1>3. \A file : ContentNow(file)' = ContentNow(file)
  BY <1>2 DEF ContentNow
<1>4. \A d : Listed(d)' = Listed(d)
  BY DEF Listed
<1>5. \A layer, d : Holds(layer, d)' = Holds(layer, d)
  BY <1>2, <1>3, <1>4 DEF Holds
<1>6. Pieces' = Pieces
  BY <1>1, <1>5 DEF Pieces
<1>7. OnDisk' = OnDisk
  BY <1>1, <1>5 DEF OnDisk, overlay
<1> QED BY <1>1, <1>3, <1>6, <1>7

LEMMA ReloadReadsOn ==
  ASSUME Typed, Progress, Faithful, pc = "reload", EnterDir \/ ReadFile,
         reading \o ToRead = Upto(Len(overlay) - Len(dirs))
  PROVE  reading' \o ToRead' = Upto(Len(overlay) - Len(dirs'))
<1> USE DEF given, world
<1>0. UNCHANGED <<given, cli, disk>>
  BY DEF EnterDir, ReadFile
<1>1. \A file : ContentNow(file)' = ContentNow(file)
  BY <1>0, SameDisk
<1>2. IsASequence(overlay) /\ overlay \in Seq(Where)
  BY OverlayDirs DEF Typed, Progress, Running, overlay
<1>3. reading \in Seq(Entries) /\ Len(dirs) \in Nat
  BY DEF Typed
<1>4. CASE EnterDir
  <2> DEFINE d == Head(dirs)
             x == Read(Len(dirs'), <<d>>, Absent)
             held == Holds(Len(dirs'), d)
  <2>1. files = <<>> /\ dirs # <<>> /\ dirs' = Tail(dirs)
    BY <1>4 DEF EnterDir
  <2>2. PICK n \in 0..Len(overlay) : dirs = SubSeq(overlay, n + 1, Len(overlay))
    BY DEF Faithful
  <2>3. /\ n + 1 \in 1..Len(overlay) /\ d = overlay[n + 1]
        /\ Len(dirs) = Len(overlay) - n /\ Len(dirs') = Len(overlay) - (n + 1)
    BY <2>1, <2>2, <1>2, Suffix
  <2>4. /\ Len(overlay) \in Nat /\ n \in 0..Len(overlay) - 1 /\ Len(overlay) - Len(dirs) = n
        /\ Len(overlay) - Len(dirs') = n + 1 /\ Len(dirs') \in Nat
    BY <2>3, <1>2 DEF IsASequence
  <2>5. ToRead = <<>>
    BY <2>1 DEF ToRead
  <2>6. reading = Upto(n)
    BY <2>4, <2>5, <1>3
  <2>7. Upto(n + 1) = reading \o held
    <3>1. Upto(n + 1) = Upto(n) \o Holds(Len(overlay) - (n + 1), overlay[n + 1])
      BY <2>4, <1>2, UptoNext DEF Typed
    <3> QED BY <3>1, <2>3, <2>6
  <2>8. d \in Where
    BY <2>1 DEF Typed
  <2>9. reading' \o ToRead' = reading \o held
    <3>1. CASE Dirs(d) = "missing"
      <4>1. UNCHANGED <<reading, files>>
        BY <1>4, <3>1 DEF EnterDir
      <4>2. ToRead' = <<>> /\ held = <<>>
        BY <4>1, <2>1, <3>1 DEF ToRead, Holds
      <4> QED BY <4>1, <4>2
    <3>2. CASE Dirs(d) = "open"
      <4>1. files' = Listed(d) /\ UNCHANGED reading
        BY <1>4, <3>2 DEF EnterDir
      <4>2. Len(Listed(d)) \in Nat /\ DOMAIN Listed(d) = 1..Len(Listed(d))
        BY <2>8, Listing
      <4>3. ToRead' = [i \in 1..Len(Listed(d)) |-> Read(Len(dirs'), Listed(d)[i], ContentNow(Listed(d)[i]))]
        BY <4>1, <1>1 DEF ToRead
      <4>4. held = [i \in 1..Len(Listed(d)) |-> Read(Len(dirs'), Listed(d)[i], ContentNow(Listed(d)[i]))]
        BY <4>2, <3>2 DEF Holds
      <4> QED BY <4>1, <4>3, <4>4
    <3>3. CASE Dirs(d) = "unreadable"
      <4>1. reading' = Append(reading, x) /\ UNCHANGED files
        BY <1>4, <3>3 DEF EnterDir
      <4>2. ToRead' = <<>> /\ held = <<x>>
        BY <4>1, <2>1, <3>3 DEF ToRead, Holds
      <4>3. x \in Entries
        BY <2>4, <2>8 DEF Read, Entries, Places, Contents
      <4> HIDE DEF x
      <4>4. Append(reading, x) \in Seq(Entries) /\ Append(reading, x) = reading \o <<x>>
        BY <4>3, <1>3, AppendIsConcat, AppendProperties
      <4>5. Append(reading, x) \o <<>> = Append(reading, x)
        BY <4>4, ConcatEmptySeq
      <4> QED BY <4>1, <4>2, <4>4, <4>5
    <3>4. Dirs(d) \in Accesses
      BY Access DEF Typed
    <3> QED BY <3>1, <3>2, <3>3, <3>4 DEF Accesses
  <2> QED BY <2>4, <2>7, <2>9
<1>5. CASE ReadFile
  <2> DEFINE file == Head(files)
             entry(i) == Read(Len(dirs), files[i], ContentNow(files[i]))
             n == Len(files)
  <2>1. /\ files # <<>> /\ files' = Tail(files) /\ UNCHANGED dirs
        /\ reading' = Append(reading, Read(Len(dirs), file, ContentNow(file)))
    BY <1>5 DEF ReadFile
  <2>2. /\ n \in Nat /\ n # 0 /\ \A i \in 1..n : files[i] \in Where \X ToSet(Sources)
        /\ file = files[1] /\ Len(files') = n - 1 /\ \A i \in 1..n - 1 : files'[i] = files[i + 1]
    BY <2>1 DEF Typed
  <2>3. \A i \in 1..n : entry(i) \in Entries
    <3>1. \A i \in 1..n : ContentNow(files[i]) \in Contents
      BY <2>2, ContentIsKnown DEF Typed
    <3> QED BY <3>1, <2>2, <1>3 DEF Read, Entries, Places
  <2>4. ToRead = [i \in 1..n |-> entry(i)]
    BY DEF ToRead
  <2>5. reading' = Append(reading, entry(1))
    BY <2>1, <2>2
  <2>6. ToRead' = [i \in 1..n - 1 |-> entry(i + 1)]
    <3>1. ToRead' = [i \in 1..n - 1 |-> Read(Len(dirs), files'[i], ContentNow(files'[i]))]
      BY <2>1, <2>2, <1>1 DEF ToRead
    <3> QED BY <3>1, <2>2
  <2> HIDE DEF entry, n
  <2>7. ToRead \in Seq(Entries) /\ ToRead # <<>> /\ Head(ToRead) = entry(1) /\ Len(ToRead) = n
    <3>1. 1 \in 1..n
      BY <2>2
    <3>2. DOMAIN ToRead = 1..n /\ ToRead[1] = entry(1)
      BY <2>4, <3>1
    <3>3. ToRead \in Seq(Entries) /\ Len(ToRead) = n
      <4> DEFINE toRead == ToRead
      <4>1. toRead = [i \in 1..n |-> entry(i)]
        BY <2>4
      <4> HIDE DEF toRead
      <4>2. n \in Nat /\ toRead \in [1..n -> Entries]
        BY ONLY <2>2, <2>3, <4>1
      <4>3. toRead \in Seq(Entries) /\ Len(toRead) = n
        BY ONLY <4>2
      <4> QED BY <4>3 DEF toRead
    <3>4. ToRead # <<>>
      BY <2>2, <3>3
    <3> QED BY <3>2, <3>3, <3>4
  <2>8. Tail(ToRead) = ToRead'
    <3> DEFINE rest == Tail(ToRead)
    <3>3. rest \in Seq(Entries) /\ Len(rest) = n - 1 /\ \A i \in 1..n - 1 : rest[i] = ToRead[i + 1]
      BY <2>7, HeadTailProperties
    <3> HIDE DEF rest
    <3>4. rest = [i \in 1..n - 1 |-> rest[i]]
      BY <3>3, AsFunction
    <3>1. Tail(ToRead) = [i \in 1..n - 1 |-> ToRead[i + 1]]
      BY <3>3, <3>4 DEF rest
    <3>2. \A i \in 1..n - 1 : ToRead[i + 1] = entry(i + 1)
      BY <2>2, <2>4
    <3> QED BY <3>1, <3>2, <2>6
  <2>9. reading' \o ToRead' = reading \o ToRead
    BY <2>5, <2>7, <2>8, <1>3, MoveOn
  <2> QED BY <2>1, <2>9
<1> QED BY <1>4, <1>5

LEMMA CurrentAtFirst ==
  ASSUME Typed', Progress', pc' = "reload", files' = <<>>, reading' = <<>>, dirs' = overlay'
  PROVE  Current'
<1>1. IsASequence(overlay') /\ overlay' \in Seq(Where)
  <2>1. cli' = Cli(line') /\ Started'
    BY DEF Typed, Progress, Running
  <2>2. IsASequence(matcher_config_dirs(env', Cli(line')))
    <3>1. PICK start \in Starts : line' = start.line /\ env' = start.env
      BY <2>1 DEF Started
    <3> QED BY <3>1, OverlaySequence
  <2> QED BY <2>1, <2>2 DEF overlay, Typed
<1>2. Len(overlay') - Len(dirs') = 0
  BY <1>1 DEF IsASequence
<1>3. reading' \o ToRead' = <<>>
  <2>1. ToRead' = <<>>
    BY DEF ToRead
  <2> QED BY <2>1
<1>4. FlattenSeq([k \in 1..0 |-> Pieces'[k]]) = <<>>
  <2>1. [k \in 1..0 |-> Pieces'[k]] = <<>> /\ Len(<<>>) = 0
    OBVIOUS
  <2>2. FlattenSeq(<<>>) = <<>>
    BY <2>1, Zenon DEF FlattenSeq
  <2> QED BY <2>1, <2>2
<1> QED BY <1>2, <1>3, <1>4 DEF Current, Upto

LEMMA CurrentKept ==
  ASSUME Typed, Progress, Faithful, SaysWhy, Served, Current, Typed', Progress', Served', [ProcessNext]_vars
  PROVE  Current'
<1> USE DEF given, load, handler, world, app
<1>1. CASE pc' \notin {"poll", "input", "reload"} \/ ~Fresh'
  BY <1>1 DEF Current
<1>2. CASE pc' \in {"poll", "input", "reload"} /\ Fresh'
  <2>1. CASE UNCHANGED <<pc, given, cli, disk, dirs, files, reading, last, matcher, edited, sighup, reload_requested>>
    <3>1. overlay' = overlay /\ OnDisk' = OnDisk /\ Pieces' = Pieces
          /\ \A file : ContentNow(file)' = ContentNow(file)
      BY <2>1, SameDisk
    <3>2. ToRead' = ToRead
      BY <2>1, <3>1 DEF ToRead
    <3>3. Fresh' = Fresh
      BY <2>1 DEF Fresh
    <3>4. Upto(Len(overlay) - Len(dirs))' = Upto(Len(overlay) - Len(dirs))
      BY <2>1, <3>1 DEF Upto
    <3> QED BY <2>1, <3>1, <3>2, <3>3, <3>4 DEF Current
  <2>2. CASE (EnterDir \/ ReadFile) /\ pc = "reload"
    <3>1. UNCHANGED <<pc, given, cli, disk, edited, sighup, reload_requested>>
      BY <2>2 DEF EnterDir, ReadFile
    <3>2. Fresh /\ overlay' = overlay /\ Pieces' = Pieces
      BY <1>2, <3>1, SameDisk DEF Fresh
    <3>3. reading' \o ToRead' = Upto(Len(overlay) - Len(dirs'))
      BY <2>2, <3>2, ReloadReadsOn DEF Current
    <3> QED BY <2>2, <3>1, <3>2, <3>3 DEF Current, Upto
  <2>3. CASE PollReload
    <3>1. CASE reload_requested
      <4>1. /\ pc' = "reload" /\ files' = <<>> /\ reading' = <<>> /\ dirs' = overlay'
        BY <2>3, <3>1 DEF PollReload, BeginLoad, ReadsFrom, overlay
      <4> QED BY <4>1, CurrentAtFirst
    <3>2. CASE ~reload_requested
      <4>1. pc = "poll" /\ pc' = "input"
            /\ UNCHANGED <<given, cli, disk, last, matcher, edited, sighup>> /\ reload_requested' = FALSE
        BY <2>3, <3>2 DEF PollReload
      <4>2. OnDisk' = OnDisk
        BY <4>1, SameDisk
      <4>3. Fresh
        BY <1>2, <4>1, <3>2 DEF Fresh
      <4> QED BY <4>1, <4>2, <4>3 DEF Current
    <3> QED BY <3>1, <3>2
  <2>4. CASE FinishReload
    <3>1. /\ pc = "reload" /\ pc' = "input" /\ files = <<>> /\ dirs = <<>> /\ last' = reading
          /\ UNCHANGED <<given, cli, disk, edited, sighup, reload_requested>>
          /\ warnings = <<>> => matcher' = builder.commands
      BY <2>4 DEF FinishReload, reload_config, Goes, Loaded, Replace
    <3>2. OnDisk' = OnDisk /\ Fresh
      BY <1>2, <3>1, SameDisk DEF Fresh
    <3>3. reading = OnDisk
      <4>1. IsASequence(overlay) /\ overlay \in Seq(Where)
        BY <3>1, OverlayDirs DEF Typed, Progress, Running, overlay
      <4>2. Len(overlay) - Len(dirs) = Len(overlay)
        BY <3>1, <4>1 DEF IsASequence
      <4>3. reading \o ToRead = Upto(Len(overlay))
        BY <3>1, <3>2, <4>2 DEF Current
      <4>4. ToRead = <<>>
        BY <3>1 DEF ToRead
      <4>5. reading \o <<>> = reading
        BY DEF Typed
      <4> QED BY <4>1, <4>3, <4>4, <4>5, UptoNext DEF Typed
    <3>4. warnings = Errors(reading) /\ builder.commands = Overlay(reading)
      BY <3>1, BuiltRules DEF Faithful
    <3>5. last' = OnDisk' /\ (Errors(last') = <<>> => matcher' = Overlay(last'))
      BY <3>1, <3>2, <3>3, <3>4
    <3> QED BY <3>1, <3>5 DEF Current
  <2>5. CASE Input
    <3>1. pc = "input" /\ pc' \in {"poll", "take"}
          /\ UNCHANGED <<given, cli, disk, last, matcher, edited, sighup, reload_requested>>
      BY <2>5 DEF Input, Goes
    <3>2. OnDisk' = OnDisk /\ Fresh
      BY <1>2, <3>1, SameDisk DEF Fresh
    <3> QED BY <1>2, <3>1, <3>2 DEF Current
  <2>6. CASE Enter
    <3>1. pc = "enter" /\ UNCHANGED <<edited, sighup, reload_requested>>
      BY <2>6 DEF Enter, Panics, Ends
    <3> QED BY <1>2, <3>1 DEF Fresh, Served, Starting
  <2>7. CASE Deliver \/ Edit \/ AskReload \/ HangUp
    <3>1. ~Deliver
      <4>1. ASSUME Deliver PROVE pc' = "ended" \/ reload_requested' = published
        BY <4>1 DEF Deliver, on_sighup, Exits
      <4>2. ASSUME Deliver PROVE pc' = "ended" \/ (pc' = pc /\ installed /\ UNCHANGED published)
        BY <4>2 DEF Deliver, on_sighup, Exits
      <4> QED BY <1>2, <4>1, <4>2 DEF Served, Fresh
    <3>2. ~(Edit \/ AskReload \/ HangUp)
      BY <1>2 DEF Edit, AskReload, HangUp, Fresh
    <3> QED BY <2>7, <3>1, <3>2
  <2>8. CASE UNCHANGED vars
    BY <2>1, <2>8 DEF vars
  <2>9. /\ ~(Parse \/ LoadFails \/ ListCommands \/ StartLoaded)
        /\ EnterDir \/ ReadFile => pc = "reload"
    BY <1>2 DEF Parse, report_cli_error, write_cli_error, EnterDir, ReadFile, Loading, LoadFails, ListCommands,
       write_error_report, StartLoaded, Ends, Exits, Fails
  <2>10. ~(LoadKeybindings \/ StartSession \/ Install)
    BY <1>2 DEF LoadKeybindings, StartSession, Install, Publish, Probe, Handle, Goes, write_error_report,
       write_cli_error, Ends, Exits, Fails
  <2>11. ~(DropApp \/ Report \/ ReportFails \/ Exec \/ InputFails)
    BY <1>2 DEF DropApp, Report, ReportFails, Exec, InputFails, Goes, write_error_report, Ends, Exits, Fails
  <2>12. \/ EnterDir \/ ReadFile \/ PollReload \/ FinishReload \/ Input \/ Enter
         \/ Deliver \/ Edit \/ AskReload \/ HangUp \/ UNCHANGED vars
    BY <2>9, <2>10, <2>11 DEF ProcessNext, Program, User, World
  <2> QED BY <2>2, <2>3, <2>4, <2>5, <2>6, <2>7, <2>8, <2>9, <2>12
<1> QED BY <1>1, <1>2

-----------------------------------------------------------------------------
(* The theorems.                                                           *)

LEMMA PInvFirst ==
  ASSUME ProcessInit
  PROVE  PInv
<1>1. Typed /\ Progress /\ Served /\ Current
  BY TypedFirst, ProgressFirst, ServedFirst
<1>2. Faithful
  BY DEF ProcessInit, Faithful
<1>3. RulesOfOneReading
  BY DEF ProcessInit, RulesOfOneReading
<1>4. SaysWhy
  BY EmptyReading DEF ProcessInit, SaysWhy
<1>5. Verdicts
  BY <1>1, <1>4, VerdictsUnsaid DEF ProcessInit
<1> QED BY <1>1, <1>2, <1>3, <1>5 DEF PInv

LEMMA PInvKept ==
  ASSUME PInv, [ProcessNext]_vars
  PROVE  PInv'
<1>1. Typed' /\ Progress'
  BY TypedKept, ProgressKept DEF PInv
<1>2. Faithful' /\ RulesOfOneReading' /\ Verdicts' /\ Served'
  BY <1>1, FaithfulKept, RulesKept, VerdictsKept, ServedKept DEF PInv
<1>3. SaysWhy
  BY DEF PInv, Verdicts, SaysWhy
<1>4. Current'
  BY <1>1, <1>2, <1>3, CurrentKept DEF PInv
<1> QED BY <1>1, <1>2, <1>4 DEF PInv

(* The inductive invariant: the types, how far the program has got, what   *)
(* the builder holds of what has been read, and what has been read of what *)
(* is on the disk.                                                         *)
THEOREM ReadingIsFaithful == ProcessSpec => []PInv
<1>1. ProcessInit => PInv
  BY PInvFirst
<1>2. PInv /\ [ProcessNext]_vars => PInv'
  BY PInvKept
<1> QED BY <1>1, <1>2, PTL DEF ProcessSpec

(* The rules in force are those one whole reading of the overlay declares, *)
(* none of it refused when it is a reload; what the process says at its    *)
(* end is what that reading got wrong, why the last reload was rejected,   *)
(* or a legible table of all the rules that list-commands read.            *)
THEOREM OutcomeIsAlwaysExplained == ProcessSpec => []OutcomeIsExplained
<1>1. PInv => OutcomeIsExplained
  BY DEF PInv, OutcomeIsExplained
<1> QED BY <1>1, ReadingIsFaithful, PTL

(* A SIGHUP is never lost, however it falls between the steps of a reload: *)
(* once none is pending and nothing has changed since the last was sent,   *)
(* the rules in force are those of the files, or it is said why not.       *)
THEOREM NoSignalIsLost == ProcessSpec => []SignalsAreHonoured
<1>1. ASSUME PInv PROVE SignalsAreHonoured
  <2>1. SUFFICES ASSUME Settled
                 PROVE  /\ reload_diagnostics = Errors(OnDisk)
                        /\ Errors(OnDisk) = <<>> => matcher = Overlay(OnDisk)
    BY DEF SignalsAreHonoured
  <2>2. Fresh /\ pc \in {"poll", "input"}
    BY <2>1 DEF Settled, Fresh
  <2>3. last = OnDisk /\ (Errors(last) = <<>> => matcher = Overlay(last))
    BY <1>1, <2>2 DEF PInv, Current
  <2>4. reload_diagnostics = Errors(last)
    BY <1>1 DEF PInv, Verdicts
  <2> QED BY <2>3, <2>4
<1>2. PInv => SignalsAreHonoured
  BY <1>1
<1> QED BY <1>2, ReadingIsFaithful, PTL
=============================================================================

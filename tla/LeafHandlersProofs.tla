------------------------- MODULE LeafHandlersProofs --------------------------
(***************************************************************************)
(* The handlers that have no handler inside: those of a DOM value and of   *)
(* the scalar types, and the stack the first one keeps its values in.      *)
(***************************************************************************)
EXTENDS DomHandler, NodeStack, BasicHandlers, SourceLemmas

(***************************************************************************)
(* The DOM handler builds the document the text describes.  The argument   *)
(* is where the stack keeps each unfinished container: the one above it is *)
(* next to it if it is an element, and one further if it is a member, for  *)
(* then the key lies between them.  So what is below a value that ends is  *)
(* the container it belongs to, with its key if it has one; and the text   *)
(* of the stack, joined, is the text read so far.                          *)
(***************************************************************************)

(* The text a sequence of unfinished values stands for.                    *)
Opening(ws) == [i \in DOMAIN ws |-> Opened(ws[i])]
Flat(ws) == FlattenSeq(Opening(ws))
ReadsOn(ws, vs, text) == Flat(ws) = Flat(vs) \o text

(* The handler's values are in vs, p is where the containers in stack are  *)
(* and b where the outermost value is: above a document that was an array  *)
(* already, or in place of it.                                             *)
Placed(vs, stack, b, p) ==
  /\ p \in [1..Len(stack) -> Nat \ {0}]
  /\ stack # <<>> => p[1] = b
  /\ b = 2 => vs[1].type = "array"
  /\ \A k \in 1..Len(stack) : p[k] <= Len(vs) /\ vs[p[k]].type = stack[k]
  /\ \A j, k \in 1..Len(stack) : j < k => p[j] < p[k]
  /\ \A k \in 1..Len(stack) - 1 :
       IF stack[k] = "array" THEN p[k + 1] = p[k] + 1
       ELSE p[k + 1] = p[k] + 2 /\ vs[p[k] + 1].type = "string"

(* Where the next value goes.                                              *)
Vacant(stack, b, p) ==
  IF stack = <<>> THEN b
  ELSE p[Len(stack)] + (IF Last(stack) = "array" THEN 1 ELSE 2)

(* vs ends where the next value goes: with the array it is an element of,  *)
(* or with the key it is the value of.                                     *)
Awaiting(vs, stack, b, p) ==
  /\ Placed(vs, stack, b, p)
  /\ Len(vs) + 1 = Vacant(stack, b, p)
  /\ stack # <<>> /\ Last(stack) = "object" => vs[Len(vs)].type = "string"

(* vs ends with the innermost open container.                              *)
Whole(vs, stack, b, p) ==
  /\ Placed(vs, stack, b, p)
  /\ Len(vs) = IF stack = <<>> THEN 1 ELSE p[Len(stack)]

Bottom == IF base.type = "array" THEN 2 ELSE 1

(* After a key, the placeholder for its value is on top.                   *)
Structured ==
  \E p : IF keyed
         THEN /\ Awaiting(Front(AllValues), open, Bottom, p)
              /\ AllValues = Append(Front(AllValues), Placeholder)
         ELSE Whole(AllValues, open, Bottom, p)

Consistent ==
  /\ Alive /\ phase # "reading" => open = <<>>
  /\ phase = "reading" => open # <<>>
  /\ keyed => open # <<>> /\ Last(open) = "object"
  /\ phase = "waiting" => log = <<>> /\ doc = base

DomIInv ==
  /\ TypeOK
  /\ Consistent
  /\ NeverCorrupted
  /\ Alive => Structured
  /\ DocumentIsText
-----------------------------------------------------------------------------
(* Texts.                                                                  *)

(* So is a single token.                                                   *)
LEMMA OneToken ==
  ASSUME NEW S, NEW x \in S
  PROVE  <<x>> \in Seq(S) /\ Len(<<x>>) = 1 /\ <<x>> = Append(<<>>, x)
OBVIOUS

(* A bracket is text.                                                      *)
LEMMA MarksText ==
  ASSUME NEW mark \in {"[", "]", "{", "}"}
  PROVE  Mark(mark) \in Tokens /\ <<Mark(mark)>> \in Seq(Tokens)
<1>. DEFINE M == {Mark(k) : k \in {"[", "]", "{", "}", "old"}}
            L == {"scalar", "string", "key"} \X (0..MaxText)
<1>1. Tokens = M \cup L
  BY DEF Tokens
<1>2. mark \in {"[", "]", "{", "}", "old"}
  OBVIOUS
<1>3. Mark(mark) \in M
  BY <1>2, Zenon
<1>. HIDE DEF M, L
<1>4. Mark(mark) \in Tokens
  BY <1>1, <1>3
<1>5. QED
  BY <1>4, OneToken

(* Texts are joined in any order.                                          *)
LEMMA TextAssociative ==
  \A r, s, t \in Seq(Tokens) : (r \o s) \o t = r \o (s \o t)
BY ConcatAssociative

(* A value that has nothing in it yet.                                     *)
LEMMA EmptyValueFacts ==
  ASSUME NEW type \in Types
  PROVE  /\ EmptyValue(type) \in DomValues
         /\ EmptyValue(type).type = type /\ EmptyValue(type).body = <<>>
<1>1. <<>> \in Seq(Tokens)
  OBVIOUS
<1>2. QED
  BY <1>1 DEF EmptyValue, DomValues

(* What a value reads as is text.                                          *)
LEMMA ValuesText ==
  ASSUME NEW v \in DomValues
  PROVE  /\ v.body \in Seq(Tokens) /\ v.type \in Types
         /\ Opened(v) \in Seq(Tokens) /\ Text(v) \in Seq(Tokens)
<1>1. v.body \in Seq(Tokens) /\ v.type \in Types
  BY DEF DomValues
<1>2. \A k \in {"[", "]", "{", "}"} : <<Mark(k)>> \in Seq(Tokens)
  BY MarksText
<1>3. Opened(v) \in Seq(Tokens)
  BY <1>1, <1>2, ConcatProperties DEF Opened
<1>4. Text(v) \in Seq(Tokens)
  BY <1>1, <1>2, <1>3, ConcatProperties DEF Text
<1>5. QED
  BY <1>1, <1>3, <1>4

(* A sequence is its front and its last element.                           *)
LEMMA FrontLast ==
  ASSUME NEW S, NEW s \in Seq(S), s # <<>>
  PROVE  s = Append(Front(s), Last(s))
<1>1. /\ Front(s) \in Seq(S) /\ Len(s) \in Nat \ {0} /\ Len(Front(s)) = Len(s) - 1
      /\ Last(s) \in S /\ Last(s) = s[Len(s)]
      /\ \A i \in 1..Len(s) - 1 : Front(s)[i] = s[i]
  BY PopFacts
<1>. DEFINE t == Append(Front(s), Last(s))
<1>2. /\ t \in Seq(S) /\ Len(t) = Len(Front(s)) + 1
      /\ \A i \in 1..Len(Front(s)) : t[i] = Front(s)[i]
      /\ t[Len(Front(s)) + 1] = Last(s)
  BY <1>1, PushFacts
<1>. HIDE DEF t
<1>3. Len(t) = Len(s) /\ \A i \in 1..Len(s) : t[i] = s[i]
  BY <1>1, <1>2
<1>4. t = s
  BY <1>2, <1>3, SeqEqual
<1>5. QED
  BY <1>4 DEF t

(* ... and popping undoes pushing.                                         *)
LEMMA FrontOfAppend ==
  ASSUME NEW S, NEW s \in Seq(S), NEW x \in S
  PROVE  Front(Append(s, x)) = s /\ Last(Append(s, x)) = x
<1>. DEFINE t == Append(s, x)
<1>1. /\ t \in Seq(S) /\ t # <<>> /\ Len(t) = Len(s) + 1 /\ Last(t) = x
      /\ \A i \in 1..Len(s) : t[i] = s[i]
  BY PushFacts
<1>. HIDE DEF t
<1>2. /\ Front(t) \in Seq(S) /\ Len(Front(t)) = Len(t) - 1
      /\ \A i \in 1..Len(t) - 1 : Front(t)[i] = t[i]
  BY <1>1, PopFacts
<1>3. Len(s) \in Nat
  BY LenProperties
<1>4. Len(Front(t)) = Len(s) /\ \A i \in 1..Len(s) : Front(t)[i] = s[i]
  BY <1>1, <1>2, <1>3
<1>5. Front(t) = s
  BY <1>2, <1>4, SeqEqual
<1>6. QED
  BY <1>1, <1>5 DEF t

(* The text of values is joined from below.                                *)
LEMMA FlatFacts ==
  ASSUME NEW ws \in Seq(DomValues)
  PROVE  /\ Flat(<<>>) = <<>>
         /\ Flat(ws) \in Seq(Tokens)
         /\ \A v \in DomValues : Flat(Append(ws, v)) = Flat(ws) \o Opened(v)
<1>1. ASSUME NEW us \in Seq(DomValues)
      PROVE  Opening(us) \in Seq(Seq(Tokens)) /\ Len(Opening(us)) = Len(us)
  <2>1. DOMAIN us = 1..Len(us) /\ Len(us) \in Nat
    BY LenProperties
  <2>2. \A i \in 1..Len(us) : Opened(us[i]) \in Seq(Tokens)
    BY ElementOfSeq, ValuesText
  <2>3. QED
    BY <2>1, <2>2 DEF Opening
<1>2. Opening(<<>>) = <<>>
  <2>1. <<>> \in Seq(DomValues)
    OBVIOUS
  <2>2. QED
    BY <1>1, <2>1, EmptySeq
<1>3. Opening(ws) \in Seq(Seq(Tokens))
  BY <1>1
<1>4. Flat(<<>>) = <<>> /\ Flat(ws) \in Seq(Tokens)
  BY <1>2, <1>3, FlattenFacts DEF Flat
<1>5. ASSUME NEW v \in DomValues
      PROVE  Flat(Append(ws, v)) = Flat(ws) \o Opened(v)
  <2>1. Opened(v) \in Seq(Tokens)
    BY ValuesText
  <2>2. Opening(Append(ws, v)) = Append(Opening(ws), Opened(v))
    <3>. DEFINE t == Append(ws, v)
                u == Append(Opening(ws), Opened(v))
    <3>1. t \in Seq(DomValues) /\ Len(t) = Len(ws) + 1
          /\ (\A i \in 1..Len(ws) : t[i] = ws[i]) /\ t[Len(ws) + 1] = v
      BY PushFacts
    <3>2. u \in Seq(Seq(Tokens)) /\ Len(u) = Len(Opening(ws)) + 1
          /\ (\A i \in 1..Len(Opening(ws)) : u[i] = Opening(ws)[i])
          /\ u[Len(Opening(ws)) + 1] = Opened(v)
      BY <1>3, <2>1, PushFacts
    <3>3. Len(ws) \in Nat /\ Len(Opening(ws)) = Len(ws)
      BY <1>1, LenProperties
    <3>. HIDE DEF t, u
    <3>4. Opening(t) \in Seq(Seq(Tokens)) /\ Len(Opening(t)) = Len(t)
      BY <1>1, <3>1
    <3>5. /\ \A i \in 1..Len(t) : Opening(t)[i] = Opened(t[i])
          /\ \A i \in 1..Len(ws) : Opening(ws)[i] = Opened(ws[i])
      <4>1. DOMAIN t = 1..Len(t) /\ DOMAIN ws = 1..Len(ws)
        BY <3>1, LenProperties
      <4>2. QED
        BY <4>1, Zenon DEF Opening
    <3>6. ASSUME NEW i \in 1..Len(ws) + 1
          PROVE  Opening(t)[i] = u[i]
      <4>1. CASE i = Len(ws) + 1
        BY <3>1, <3>2, <3>3, <3>5, <4>1
      <4>2. CASE i # Len(ws) + 1
        <5>1. i \in 1..Len(ws)
          BY <3>3, <4>2
        <5>2. QED
          BY <3>1, <3>2, <3>3, <3>5, <5>1
      <4>3. QED
        BY <4>1, <4>2
    <3>7. Len(Opening(t)) = Len(ws) + 1 /\ Len(u) = Len(ws) + 1
      BY <3>1, <3>2, <3>3, <3>4
    <3>8. Opening(t) = u
      BY <3>2, <3>4, <3>6, <3>7, SeqEqual
    <3>9. QED
      BY <3>8 DEF t, u
  <2>3. QED
    BY <1>3, <2>1, <2>2, FlattenFacts DEF Flat
<1>6. QED
  BY <1>4, <1>5
-----------------------------------------------------------------------------
(* Places.                                                                 *)

(* The innermost container has the last place, and the next value goes     *)
(* behind it.                                                              *)
LEMMA PlaceFacts ==
  ASSUME NEW vs \in Seq(DomValues), NEW stack \in Seq(Kinds), NEW b \in {1, 2},
         NEW p, Placed(vs, stack, b, p)
  PROVE  LET n == Len(stack)
         IN  /\ n \in Nat /\ Len(vs) \in Nat
             /\ Vacant(stack, b, p) \in Nat \ {0} /\ b <= Vacant(stack, b, p)
             /\ \A k \in 1..n : p[k] < Vacant(stack, b, p)
             /\ stack # <<>> => /\ n \in Nat \ {0}
                                /\ p[n] \in Nat \ {0} /\ b <= p[n] /\ p[n] <= Len(vs)
                                /\ Last(stack) = stack[n] /\ Last(stack) \in Kinds
                                /\ vs[p[n]].type = Last(stack)
<1>. DEFINE n == Len(stack)
<1>1. n \in Nat /\ Len(vs) \in Nat
  BY LenProperties
<1>2. CASE stack = <<>>
  <2>1. Vacant(stack, b, p) = b /\ n = 0
    BY <1>2 DEF Vacant
  <2>2. QED
    BY <1>1, <1>2, <2>1
<1>3. CASE stack # <<>>
  <2>1. n \in Nat \ {0} /\ Last(stack) = stack[n] /\ Last(stack) \in Kinds
    BY <1>3, PopFacts
  <2>. HIDE DEF n
  <2>2. /\ \A k \in 1..n : p[k] \in Nat \ {0} /\ p[k] <= Len(vs)
        /\ \A k \in 1..n : vs[p[k]].type = stack[k]
        /\ p[1] = b
        /\ \A j, k \in 1..n : j < k => p[j] < p[k]
    BY <1>3 DEF Placed, n
  <2>3. p[n] \in Nat \ {0} /\ p[n] <= Len(vs) /\ vs[p[n]].type = Last(stack)
    BY <2>1, <2>2
  <2>4. \A k \in 1..n : p[k] <= p[n]
    <3>1. ASSUME NEW k \in 1..n
          PROVE  p[k] <= p[n]
      <4>1. CASE k = n
        BY <2>3, <4>1
      <4>2. CASE k # n
        <5>1. k < n /\ n \in 1..n
          BY <2>1, <4>2
        <5>2. p[k] < p[n] /\ p[k] \in Nat
          BY <2>2, <5>1
        <5>3. QED
          BY <2>3, <5>2
      <4>3. QED
        BY <4>1, <4>2
    <3>2. QED
      BY <3>1
  <2>5. b <= p[n]
    <3>1. 1 \in 1..n
      BY <2>1
    <3>2. QED
      BY <2>2, <2>4, <3>1
  <2>6. Vacant(stack, b, p) \in {p[n] + 1, p[n] + 2}
    BY <1>3 DEF Vacant, n
  <2>7. /\ Vacant(stack, b, p) \in Nat \ {0} /\ b <= Vacant(stack, b, p)
    BY <2>3, <2>5, <2>6
  <2>8. \A k \in 1..n : p[k] < Vacant(stack, b, p)
    BY <2>2, <2>3, <2>4, <2>6
  <2>9. QED
    BY <1>1, <2>1, <2>3, <2>5, <2>7, <2>8 DEF n
<1>4. QED
  BY <1>2, <1>3

(* Values of the same types are placed alike.                              *)
LEMMA PlacedAlike ==
  ASSUME NEW vs \in Seq(DomValues), NEW ws \in Seq(DomValues),
         NEW stack \in Seq(Kinds), NEW b \in {1, 2}, NEW p, Placed(vs, stack, b, p),
         \A k \in 1..Len(stack) : p[k] <= Len(ws),
         b = 2 => Len(ws) >= 1 /\ Len(vs) >= 1,
         \A i \in 1..Len(ws) : i <= Len(vs) => ws[i].type = vs[i].type
  PROVE  Placed(ws, stack, b, p)
<1>. DEFINE n == Len(stack)
<1>1. n \in Nat /\ Len(vs) \in Nat /\ Len(ws) \in Nat
  BY LenProperties
<1>. HIDE DEF n
<1>2. /\ \A k \in 1..n : p[k] \in Nat \ {0} /\ p[k] <= Len(vs)
      /\ \A k \in 1..n : vs[p[k]].type = stack[k]
      /\ \A j, k \in 1..n : j < k => p[j] < p[k]
      /\ \A k \in 1..n - 1 :
           IF stack[k] = "array" THEN p[k + 1] = p[k] + 1
           ELSE p[k + 1] = p[k] + 2 /\ vs[p[k] + 1].type = "string"
  BY DEF Placed, n
<1>3. b = 2 => ws[1].type = "array"
  <2>1. b = 2 => vs[1].type = "array" /\ 1 \in 1..Len(ws) /\ 1 <= Len(vs)
    BY <1>1 DEF Placed
  <2>2. QED
    BY <2>1
<1>4. \A k \in 1..n : p[k] <= Len(ws) /\ p[k] \in 1..Len(ws)
  BY <1>1, <1>2 DEF n
<1>5. \A k \in 1..n : ws[p[k]].type = stack[k]
  BY <1>2, <1>4
<1>6. ASSUME NEW k \in 1..n - 1
      PROVE  IF stack[k] = "array" THEN p[k + 1] = p[k] + 1
             ELSE p[k + 1] = p[k] + 2 /\ ws[p[k] + 1].type = "string"
  <2>1. CASE stack[k] = "array"
    BY <1>2, <2>1
  <2>2. CASE stack[k] # "array"
    <3>1. p[k + 1] = p[k] + 2 /\ vs[p[k] + 1].type = "string"
      BY <1>2, <2>2
    <3>2. k \in 1..n /\ k + 1 \in 1..n
      BY <1>1
    <3>3. p[k] \in Nat \ {0} /\ p[k + 1] <= Len(ws) /\ p[k + 1] <= Len(vs)
      BY <1>2, <1>4, <3>2
    <3>4. p[k] + 1 \in 1..Len(ws) /\ p[k] + 1 <= Len(vs)
      BY <1>1, <3>1, <3>3
    <3>5. ws[p[k] + 1].type = "string"
      BY <3>1, <3>4
    <3>6. QED
      BY <2>2, <3>1, <3>5
  <2>3. QED
    BY <2>1, <2>2
<1>7. p \in [1..n -> Nat \ {0}] /\ (stack # <<>> => p[1] = b)
  BY DEF Placed, n
<1>8. QED
  BY <1>2, <1>3, <1>4, <1>5, <1>6, <1>7 DEF Placed, n

(* A container that is opened where the next value goes is the last.       *)
LEMMA PlacedAbove ==
  ASSUME NEW vs \in Seq(DomValues), NEW stack \in Seq(Kinds), NEW b \in {1, 2},
         NEW p, Awaiting(vs, stack, b, p),
         NEW kind \in Kinds, NEW v \in DomValues, v.type = kind
  PROVE  \E q : Whole(Append(vs, v), Append(stack, kind), b, q)
<1>. DEFINE n == Len(stack)
            ws == Append(vs, v)
            longer == Append(stack, kind)
            new == Vacant(stack, b, p)
            q == [k \in 1..n + 1 |-> IF k = n + 1 THEN new ELSE p[k]]
<1>1. /\ n \in Nat /\ Len(vs) \in Nat /\ new \in Nat \ {0} /\ b <= new
      /\ \A k \in 1..n : p[k] < new
      /\ stack # <<>> => /\ n \in Nat \ {0}
                         /\ p[n] \in Nat \ {0} /\ b <= p[n] /\ p[n] <= Len(vs)
                         /\ Last(stack) = stack[n] /\ Last(stack) \in Kinds
                         /\ vs[p[n]].type = Last(stack)
  BY PlaceFacts DEF Awaiting
<1>2. new = IF stack = <<>> THEN b
            ELSE p[n] + (IF stack[n] = "array" THEN 1 ELSE 2)
  <2>1. stack # <<>> => Last(stack) = stack[n]
    BY <1>1
  <2>2. QED
    BY <2>1 DEF Vacant
<1>3. /\ Len(vs) + 1 = new
      /\ stack # <<>> /\ Last(stack) = "object" => vs[Len(vs)].type = "string"
      /\ Placed(vs, stack, b, p)
  BY DEF Awaiting
<1>4. /\ ws \in Seq(DomValues) /\ Len(ws) = new
      /\ \A i \in 1..Len(vs) : ws[i] = vs[i]
      /\ ws[new] = v
  <2>1. /\ ws \in Seq(DomValues) /\ Len(ws) = Len(vs) + 1
        /\ \A i \in 1..Len(vs) : ws[i] = vs[i]
        /\ ws[Len(vs) + 1] = v
    BY PushFacts
  <2>2. QED
    BY <1>3, <2>1
<1>5. /\ longer \in Seq(Kinds) /\ longer # <<>> /\ Len(longer) = n + 1
      /\ \A i \in 1..n : longer[i] = stack[i]
      /\ longer[n + 1] = kind
  BY PushFacts
<1>6. stack = <<>> <=> n = 0
  BY EmptySeq
<1>. HIDE DEF n, ws, longer, new
<1>7. /\ p \in [1..n -> Nat \ {0}]
      /\ stack # <<>> => p[1] = b
      /\ b = 2 => vs[1].type = "array"
      /\ \A k \in 1..n : p[k] <= Len(vs) /\ vs[p[k]].type = stack[k]
      /\ \A j, k \in 1..n : j < k => p[j] < p[k]
      /\ \A k \in 1..n - 1 :
           IF stack[k] = "array" THEN p[k + 1] = p[k] + 1
           ELSE p[k + 1] = p[k] + 2 /\ vs[p[k] + 1].type = "string"
  BY <1>3 DEF Placed, n
<1>8. /\ \A k \in 1..n : q[k] = p[k]
      /\ q[n + 1] = new
      /\ q \in [1..n + 1 -> Nat \ {0}]
  BY <1>1, <1>7
<1>. HIDE DEF q
<1>9. q[1] = b
  <2>1. CASE n = 0
    BY <1>2, <1>6, <1>8, <2>1
  <2>2. CASE n # 0
    BY <1>1, <1>6, <1>7, <1>8, <2>2
  <2>3. QED
    BY <2>1, <2>2
<1>10. b = 2 => ws[1].type = "array"
  <2>1. b = 2 => vs[1].type = "array" /\ Len(vs) >= 1
    BY <1>1, <1>3, <1>7
  <2>2. b = 2 => 1 \in 1..Len(vs)
    BY <1>1, <2>1
  <2>3. QED
    BY <1>4, <2>1, <2>2
<1>11. ASSUME NEW k \in 1..n + 1
       PROVE  q[k] <= Len(ws) /\ ws[q[k]].type = longer[k]
  <2>1. CASE k = n + 1
    BY <1>1, <1>4, <1>5, <1>8, <2>1
  <2>2. CASE k # n + 1
    <3>1. k \in 1..n
      BY <1>1, <2>2
    <3>2. q[k] = p[k] /\ p[k] \in Nat \ {0} /\ p[k] < new
          /\ p[k] <= Len(vs) /\ vs[p[k]].type = stack[k] /\ longer[k] = stack[k]
      BY <1>1, <1>5, <1>7, <1>8, <3>1
    <3>3. p[k] \in 1..Len(vs)
      BY <1>1, <3>2
    <3>4. QED
      BY <1>1, <1>4, <3>2, <3>3
  <2>3. QED
    BY <2>1, <2>2
<1>12. ASSUME NEW j \in 1..n + 1, NEW k \in 1..n + 1, j < k
       PROVE  q[j] < q[k]
  <2>1. j \in 1..n
    BY <1>1, <1>12
  <2>2. CASE k = n + 1
    BY <1>1, <1>8, <2>1, <2>2
  <2>3. CASE k # n + 1
    <3>1. k \in 1..n
      BY <1>1, <2>3
    <3>2. QED
      BY <1>7, <1>8, <1>12, <2>1, <3>1
  <2>4. QED
    BY <2>2, <2>3
<1>13. ASSUME NEW k \in 1..n
       PROVE  IF longer[k] = "array" THEN q[k + 1] = q[k] + 1
              ELSE q[k + 1] = q[k] + 2 /\ ws[q[k] + 1].type = "string"
  <2>1. longer[k] = stack[k] /\ q[k] = p[k] /\ p[k] \in Nat \ {0}
    BY <1>5, <1>7, <1>8
  <2>2. CASE k = n
    <3>1. q[k + 1] = new /\ new = p[k] + (IF stack[k] = "array" THEN 1 ELSE 2)
      BY <1>1, <1>2, <1>6, <1>8, <2>2
    <3>2. CASE stack[k] = "array"
      BY <2>1, <3>1, <3>2
    <3>3. CASE stack[k] # "array"
      <4>1. stack # <<>> /\ Last(stack) = stack[k]
        BY <1>1, <1>6, <2>2
      <4>2. Last(stack) = "object"
        BY <1>1, <3>3, <4>1 DEF Kinds
      <4>3. vs[Len(vs)].type = "string"
        BY <1>3, <4>1, <4>2
      <4>4. q[k + 1] = q[k] + 2 /\ q[k] + 1 = Len(vs) /\ Len(vs) \in 1..Len(vs)
        BY <1>1, <1>3, <2>1, <3>1, <3>3
      <4>5. ws[q[k] + 1].type = "string"
        BY <1>4, <4>3, <4>4
      <4>6. QED
        BY <2>1, <3>3, <4>4, <4>5
    <3>4. QED
      BY <3>2, <3>3
  <2>3. CASE k # n
    <3>1. k \in 1..n - 1 /\ k + 1 \in 1..n
      BY <1>1, <2>3
    <3>2. q[k + 1] = p[k + 1] /\ p[k + 1] <= Len(vs) /\ p[k + 1] \in Nat
      BY <1>7, <1>8, <3>1
    <3>3. CASE stack[k] = "array"
      BY <1>7, <2>1, <3>1, <3>2, <3>3
    <3>4. CASE stack[k] # "array"
      <4>1. p[k + 1] = p[k] + 2 /\ vs[p[k] + 1].type = "string"
        BY <1>7, <3>1, <3>4
      <4>2. p[k] + 1 \in 1..Len(vs)
        BY <1>1, <2>1, <3>2, <4>1
      <4>3. ws[p[k] + 1].type = "string"
        BY <1>4, <4>1, <4>2
      <4>4. QED
        BY <2>1, <3>2, <3>4, <4>1, <4>3
    <3>5. QED
      BY <3>3, <3>4
  <2>4. QED
    BY <2>2, <2>3
<1>14. (n + 1) - 1 = n
  BY <1>1
<1>15. Placed(ws, longer, b, q)
  BY <1>5, <1>8, <1>9, <1>10, <1>11, <1>12, <1>13, <1>14 DEF Placed
<1>16. Whole(ws, longer, b, q)
  BY <1>4, <1>5, <1>8, <1>15 DEF Whole
<1>17. QED
  BY <1>16 DEF ws, longer

(* Below the innermost container is what it goes into.                     *)
LEMMA PlacedBelow ==
  ASSUME NEW vs \in Seq(DomValues), vs # <<>>,
         NEW stack \in Seq(Kinds), stack # <<>>, NEW b \in {1, 2},
         NEW p, Whole(vs, stack, b, p)
  PROVE  /\ \E q : Awaiting(Front(vs), Front(stack), b, q)
         /\ Last(vs).type = Last(stack)
<1>. DEFINE n == Len(stack)
            rest == Front(vs)
            shorter == Front(stack)
            q == [k \in 1..n - 1 |-> p[k]]
<1>1. Placed(vs, stack, b, p) /\ Len(vs) = p[n]
  BY DEF Whole
<1>2. /\ n \in Nat \ {0} /\ Len(vs) \in Nat
      /\ p[n] \in Nat \ {0} /\ b <= p[n] /\ vs[p[n]].type = Last(stack)
  BY <1>1, PlaceFacts
<1>3. /\ rest \in Seq(DomValues) /\ Len(rest) = p[n] - 1
      /\ Last(vs) = vs[p[n]]
      /\ \A i \in 1..p[n] - 1 : rest[i] = vs[i]
  BY <1>1, PopFacts
<1>4. /\ shorter \in Seq(Kinds) /\ Len(shorter) = n - 1
      /\ \A i \in 1..n - 1 : shorter[i] = stack[i]
      /\ shorter = <<>> <=> n = 1
  BY PopFacts
<1>. HIDE DEF n, rest, shorter
<1>5. /\ p \in [1..n -> Nat \ {0}]
      /\ p[1] = b
      /\ b = 2 => vs[1].type = "array"
      /\ \A k \in 1..n : p[k] <= Len(vs) /\ vs[p[k]].type = stack[k]
      /\ \A j, k \in 1..n : j < k => p[j] < p[k]
      /\ \A k \in 1..n - 1 :
           IF stack[k] = "array" THEN p[k + 1] = p[k] + 1
           ELSE p[k + 1] = p[k] + 2 /\ vs[p[k] + 1].type = "string"
  BY <1>1 DEF Placed, n
<1>6. /\ \A k \in 1..n - 1 : q[k] = p[k] /\ k \in 1..n
      /\ q \in [1..n - 1 -> Nat \ {0}]
  <2>1. \A k \in 1..n - 1 : k \in 1..n
    BY <1>2
  <2>2. QED
    BY <1>5, <2>1
<1>. HIDE DEF q
<1>7. \A k \in 1..n - 1 : p[k] <= p[n] - 1 /\ p[k] \in Nat \ {0}
  <2>1. ASSUME NEW k \in 1..n - 1
        PROVE  p[k] <= p[n] - 1 /\ p[k] \in Nat \ {0}
    <3>1. k \in 1..n /\ n \in 1..n /\ k < n
      BY <1>2
    <3>2. p[k] < p[n] /\ p[k] \in Nat \ {0}
      BY <1>5, <3>1
    <3>3. QED
      BY <1>2, <3>2
  <2>2. QED
    BY <2>1
<1>8. Placed(rest, shorter, b, q)
  <2>1. shorter # <<>> => q[1] = b
    BY <1>2, <1>4, <1>5, <1>6
  <2>2. b = 2 => rest[1].type = "array"
    <3>1. b = 2 => 1 \in 1..p[n] - 1
      BY <1>2
    <3>2. QED
      BY <1>3, <1>5, <3>1
  <2>3. ASSUME NEW k \in 1..n - 1
        PROVE  q[k] <= Len(rest) /\ rest[q[k]].type = shorter[k]
    <3>1. q[k] = p[k] /\ k \in 1..n /\ shorter[k] = stack[k]
      BY <1>4, <1>6
    <3>2. p[k] <= p[n] - 1 /\ p[k] \in Nat \ {0} /\ vs[p[k]].type = stack[k]
      BY <1>5, <1>7, <3>1
    <3>3. p[k] \in 1..p[n] - 1
      BY <1>2, <3>2
    <3>4. QED
      BY <1>3, <3>1, <3>2, <3>3
  <2>4. \A j, k \in 1..n - 1 : j < k => q[j] < q[k]
    BY <1>5, <1>6
  <2>5. ASSUME NEW k \in 1..(n - 1) - 1
        PROVE  IF shorter[k] = "array" THEN q[k + 1] = q[k] + 1
               ELSE q[k + 1] = q[k] + 2 /\ rest[q[k] + 1].type = "string"
    <3>1. k \in 1..n - 1 /\ k + 1 \in 1..n - 1
      BY <1>2
    <3>2. q[k] = p[k] /\ q[k + 1] = p[k + 1] /\ shorter[k] = stack[k]
      BY <1>4, <1>6, <3>1
    <3>3. CASE stack[k] = "array"
      BY <1>5, <3>1, <3>2, <3>3
    <3>4. CASE stack[k] # "array"
      <4>1. p[k + 1] = p[k] + 2 /\ vs[p[k] + 1].type = "string"
        BY <1>5, <3>1, <3>4
      <4>2. p[k] \in Nat \ {0} /\ p[k + 1] <= p[n] - 1 /\ p[k + 1] \in Nat
        BY <1>7, <3>1
      <4>3. p[k] + 1 \in 1..p[n] - 1
        <5>1. p[k] + 1 <= p[n] - 1
          BY <1>2, <4>1, <4>2
        <5>2. QED
          BY <1>2, <4>2, <5>1
      <4>4. rest[p[k] + 1].type = "string"
        BY <1>3, <4>1, <4>3
      <4>5. QED
        BY <3>2, <3>4, <4>1, <4>4
    <3>5. QED
      BY <3>3, <3>4
  <2>6. QED
    BY <1>4, <1>6, <2>1, <2>2, <2>3, <2>4, <2>5 DEF Placed
<1>9. /\ Len(rest) + 1 = Vacant(shorter, b, q)
      /\ shorter # <<>> /\ Last(shorter) = "object" => rest[Len(rest)].type = "string"
  <2>1. CASE n = 1
    <3>1. Vacant(shorter, b, q) = b
      BY <1>4, <2>1 DEF Vacant
    <3>2. QED
      BY <1>2, <1>3, <1>4, <1>5, <2>1, <3>1
  <2>2. CASE n # 1
    <3>1. n - 1 \in 1..n - 1 /\ (n - 1) + 1 = n
      BY <1>2, <2>2
    <3>2. shorter # <<>> /\ Last(shorter) = stack[n - 1] /\ q[n - 1] = p[n - 1]
          /\ p[n - 1] \in Nat \ {0}
      <4>1. shorter # <<>>
        BY <1>4, <2>2
      <4>2. Last(shorter) = shorter[n - 1]
        BY <1>4, <4>1 DEF Last
      <4>3. QED
        BY <1>4, <1>6, <1>7, <3>1, <4>1, <4>2
    <3>3. Vacant(shorter, b, q) = p[n - 1] + (IF stack[n - 1] = "array" THEN 1 ELSE 2)
      BY <1>4, <3>2 DEF Vacant
    <3>4. CASE stack[n - 1] = "array"
      <4>1. p[n] = p[n - 1] + 1
        BY <1>5, <3>1, <3>4
      <4>2. QED
        BY <1>2, <1>3, <3>2, <3>3, <3>4, <4>1
    <3>5. CASE stack[n - 1] # "array"
      <4>1. p[n] = p[n - 1] + 2 /\ vs[p[n - 1] + 1].type = "string"
        BY <1>5, <3>1, <3>5
      <4>2. Len(rest) = p[n - 1] + 1 /\ p[n - 1] + 1 \in 1..p[n] - 1
        BY <1>2, <1>3, <3>2, <4>1
      <4>3. rest[Len(rest)].type = "string"
        BY <1>3, <4>1, <4>2
      <4>4. QED
        BY <1>2, <3>2, <3>3, <3>5, <4>1, <4>2, <4>3
    <3>6. QED
      BY <3>4, <3>5
  <2>3. QED
    BY <2>1, <2>2
<1>10. Awaiting(rest, shorter, b, q)
  BY <1>8, <1>9 DEF Awaiting
<1>11. QED
  BY <1>2, <1>3, <1>10 DEF rest, shorter

(* What a value is added to keeps its type, and its text comes last.       *)
LEMMA ExtendedFacts ==
  ASSUME NEW v \in DomValues, NEW text \in Seq(Tokens)
  PROVE  LET w == Extended(v, text)
         IN  /\ w \in DomValues /\ w.type = v.type
             /\ Opened(w) = Opened(v) \o text
<1>. DEFINE w == Extended(v, text)
<1>1. v.body \in Seq(Tokens) /\ v.type \in Types
  BY ValuesText
<1>2. w.type = v.type /\ w.body = v.body \o text
  BY DEF Extended, DomValues
<1>3. w \in DomValues
  <2>1. v.body \o text \in Seq(Tokens)
    BY <1>1, ConcatProperties
  <2>2. w = [v EXCEPT !.body = v.body \o text]
    BY DEF Extended
  <2>3. QED
    BY <2>1, <2>2 DEF DomValues
<1>. HIDE DEF w
<1>4. Opened(w) = Opened(v) \o text
  <2>1. <<Mark("[")>> \in Seq(Tokens) /\ <<Mark("{")>> \in Seq(Tokens)
    BY MarksText
  <2>2. \A t \in Seq(Tokens) : t \o (v.body \o text) = (t \o v.body) \o text
    <3>. DEFINE body == v.body
    <3>. HIDE DEF body
    <3>1. ASSUME NEW t \in Seq(Tokens), body \in Seq(Tokens)
          PROVE  t \o (body \o text) = (t \o body) \o text
      BY <3>1, ConcatAssociative
    <3>2. QED
      BY <1>1, <3>1 DEF body
  <2>3. QED
    BY <1>2, <2>1, <2>2 DEF Opened
<1>5. QED
  BY <1>2, <1>3, <1>4 DEF w

(* Adding to the value on top changes no type, and appends to the text.    *)
LEMMA TopExtended ==
  ASSUME NEW vs \in Seq(DomValues), vs # <<>>, NEW text \in Seq(Tokens)
  PROVE  LET ws == SetTop(vs, Extended(top_value(vs), text))
         IN  /\ ws \in Seq(DomValues) /\ Len(ws) = Len(vs)
             /\ \A i \in 1..Len(vs) : ws[i].type = vs[i].type
             /\ Flat(ws) = Flat(vs) \o text
<1>. DEFINE low == Front(vs)
            v == Last(vs)
            w == Extended(v, text)
            ws == Append(low, w)
<1>1. /\ low \in Seq(DomValues) /\ v \in DomValues /\ v = vs[Len(vs)]
      /\ Len(vs) \in Nat \ {0} /\ Len(low) = Len(vs) - 1
      /\ \A i \in 1..Len(vs) - 1 : low[i] = vs[i]
      /\ vs = Append(low, v)
  BY PopFacts, FrontLast
<1>. HIDE DEF low, v
<1>2. w \in DomValues /\ w.type = v.type /\ Opened(w) = Opened(v) \o text
  BY <1>1, ExtendedFacts
<1>. HIDE DEF w
<1>3. /\ ws \in Seq(DomValues) /\ Len(ws) = Len(low) + 1
      /\ \A i \in 1..Len(low) : ws[i] = low[i]
      /\ ws[Len(low) + 1] = w
  BY <1>1, <1>2, PushFacts
<1>4. Flat(ws) = Flat(low) \o Opened(w) /\ Flat(vs) = Flat(low) \o Opened(v)
      /\ Flat(low) \in Seq(Tokens)
  BY <1>1, <1>2, FlatFacts
<1>. HIDE DEF ws
<1>5. ASSUME NEW i \in 1..Len(vs)
      PROVE  ws[i].type = vs[i].type
  <2>1. CASE i = Len(vs)
    BY <1>1, <1>2, <1>3, <2>1
  <2>2. CASE i # Len(vs)
    <3>1. i \in 1..Len(vs) - 1 /\ i \in 1..Len(low)
      BY <1>1, <2>2
    <3>2. QED
      BY <1>1, <1>3, <3>1
  <2>3. QED
    BY <2>1, <2>2
<1>6. Flat(ws) = Flat(vs) \o text
  <2>1. Opened(v) \in Seq(Tokens)
    BY <1>1, ValuesText
  <2>2. Flat(low) \o (Opened(v) \o text) = (Flat(low) \o Opened(v)) \o text
    BY <1>4, <2>1, ConcatAssociative
  <2>3. QED
    BY <1>2, <1>4, <2>2
<1>7. Len(ws) = Len(vs)
  <2>1. \A i \in Nat \ {0} : (i - 1) + 1 = i
    OBVIOUS
  <2>2. QED
    BY <1>1, <1>3, <2>1
<1>8. QED
  BY <1>3, <1>5, <1>6, <1>7 DEF ws, w, v, low, SetTop, top_value

(* A value that ends is moved into the array below it, or with the key     *)
(* below it into the object below that, and nothing else can be there; or  *)
(* it is the document.                                                     *)
LEMMA Closing ==
  ASSUME NEW vs \in Seq(DomValues), NEW stack \in Seq(Kinds), NEW b \in {1, 2},
         NEW p, Awaiting(vs, stack, b, p), NEW v \in DomValues
  PROVE  \E ws \in Seq(DomValues) :
           /\ post_processing(Append(vs, v)) = Built(ws)
           /\ Whole(ws, stack, b, p)
           /\ vs = <<>> => ws = <<v>> /\ stack = <<>> /\ b = 1
           /\ vs # <<>> => ReadsOn(ws, vs, Text(v))
<1>. DEFINE n == Len(stack)
            all == Append(vs, v)
<1>1. /\ n \in Nat /\ Len(vs) \in Nat
      /\ stack # <<>> => /\ n \in Nat \ {0}
                         /\ p[n] \in Nat \ {0} /\ b <= p[n] /\ p[n] <= Len(vs)
                         /\ Last(stack) = stack[n] /\ Last(stack) \in Kinds
                         /\ vs[p[n]].type = Last(stack)
  BY PlaceFacts DEF Awaiting
<1>2. /\ Placed(vs, stack, b, p)
      /\ Len(vs) + 1 = Vacant(stack, b, p)
      /\ stack # <<>> /\ Last(stack) = "object" => vs[Len(vs)].type = "string"
  BY DEF Awaiting
<1>3. /\ Front(all) = vs /\ Last(all) = v /\ Len(all) = Len(vs) + 1
  BY FrontOfAppend, PushFacts
<1>4. Text(v) \in Seq(Tokens)
  BY ValuesText
<1>5. \A k \in 1..n : p[k] \in Nat \ {0} /\ p[k] < Vacant(stack, b, p)
  <2>1. \A k \in 1..n : p[k] < Vacant(stack, b, p)
    BY <1>2, PlaceFacts
  <2>2. QED
    BY <1>2, <2>1 DEF Placed
<1>. HIDE DEF n
<1>6. CASE vs = <<>>
  <2>1. Len(vs) = 0
    BY <1>6
  <2>2. stack = <<>>
    BY <1>1, <2>1
  <2>3. b = 1
    BY <1>2, <2>1, <2>2 DEF Vacant
  <2>4. all = <<v>> /\ Len(all) = 1 /\ all \in Seq(DomValues)
    BY <1>6, OneToken
  <2>5. Placed(all, stack, b, p)
    <3>1. \A k \in 1..n : p[k] <= Len(all)
      BY <2>2 DEF n
    <3>2. \A i \in 1..Len(all) : i <= Len(vs) => all[i].type = vs[i].type
      BY <2>1, <2>4
    <3>. HIDE DEF all
    <3>3. b = 2 => Len(all) >= 1 /\ Len(vs) >= 1
      BY <2>3
    <3>4. QED
      BY <1>2, <2>4, <3>1, <3>2, <3>3, PlacedAlike DEF n
  <2>6. post_processing(all) = Built(all)
    BY <2>4 DEF post_processing
  <2>7. Whole(all, stack, b, p)
    BY <2>2, <2>4, <2>5 DEF Whole
  <2>8. QED
    BY <1>6, <2>2, <2>3, <2>4, <2>6, <2>7
<1>7. CASE vs # <<>>
  <2>1. Len(vs) \in Nat \ {0} /\ Last(vs) = vs[Len(vs)] /\ Last(vs) \in DomValues
    BY <1>7, PopFacts
  <2>2. post_processing(all)
          = IF Len(vs) > 1 /\ Last(vs).type = "string"
            THEN AddMember(Front(vs), Last(vs), v)
            ELSE IF Last(vs).type = "array"
            THEN Built(SetTop(vs, Extended(Last(vs), Text(v))))
            ELSE Corrupted
    <3>1. Len(all) # 1
      BY <1>3, <2>1
    <3>. HIDE DEF all
    <3>2. QED
      BY <1>3, <3>1 DEF post_processing, top_value
  <2>3. CASE stack = <<>> \/ Last(stack) = "array"
    <3>1. /\ Last(vs).type = "array"
          /\ Len(vs) = IF stack = <<>> THEN 1 ELSE p[n]
      <4>1. CASE stack = <<>>
        <5>1. Len(vs) + 1 = b
          BY <1>2, <4>1 DEF Vacant
        <5>2. b = 2 /\ Len(vs) = 1
          <6>. DEFINE m == Len(vs)
          <6>1. m \in Nat /\ m # 0 /\ m + 1 = b
            BY <2>1, <5>1
          <6>. HIDE DEF m
          <6>2. b # 1 /\ (b = 2 => m = 1)
            BY <6>1
          <6>3. QED
            BY <6>2 DEF m
        <5>3. vs[1].type = "array"
          BY <1>2, <5>2 DEF Placed
        <5>4. QED
          BY <2>1, <4>1, <5>2, <5>3
      <4>2. CASE stack # <<>>
        <5>1. Last(stack) = "array" /\ Len(vs) + 1 = p[n] + 1
          BY <1>2, <2>3, <4>2 DEF Vacant, n
        <5>2. Len(vs) = p[n]
          BY <1>1, <4>2, <5>1
        <5>3. QED
          BY <1>1, <2>1, <4>2, <5>1, <5>2
      <4>3. QED
        BY <4>1, <4>2
    <3>. DEFINE ws == SetTop(vs, Extended(Last(vs), Text(v)))
    <3>2. /\ ws \in Seq(DomValues) /\ Len(ws) = Len(vs)
          /\ \A i \in 1..Len(vs) : ws[i].type = vs[i].type
          /\ Flat(ws) = Flat(vs) \o Text(v)
      BY <1>4, <1>7, TopExtended DEF top_value
    <3>3. post_processing(all) = Built(ws)
      BY <2>2, <3>1
    <3>. HIDE DEF ws
    <3>4. Placed(ws, stack, b, p)
      <4>1. \A k \in 1..n : p[k] <= Len(ws)
        BY <1>1, <1>2, <1>5, <3>2
      <4>2. b = 2 => Len(ws) >= 1 /\ Len(vs) >= 1
        BY <2>1, <3>2
      <4>3. \A i \in 1..Len(ws) : i <= Len(vs) => ws[i].type = vs[i].type
        BY <3>2
      <4>4. QED
        BY <1>2, <3>2, <4>1, <4>2, <4>3, PlacedAlike DEF n
    <3>5. Whole(ws, stack, b, p)
      BY <3>1, <3>2, <3>4 DEF Whole, n
    <3>6. QED
      BY <1>7, <3>2, <3>3, <3>5 DEF ReadsOn
  <2>4. CASE stack # <<>> /\ Last(stack) # "array"
    <3>1. Last(stack) = "object"
      BY <1>1, <2>4 DEF Kinds
    <3>2. Last(vs).type = "string" /\ Len(vs) = p[n] + 1 /\ Len(vs) > 1
      <4>1. Len(vs) + 1 = p[n] + 2
        BY <1>2, <2>4 DEF Vacant, n
      <4>2. QED
        BY <1>1, <1>2, <2>1, <2>4, <3>1, <4>1
    <3>. DEFINE us == Front(vs)
                key == Last(vs)
                text == Text(key) \o Text(v)
                ws == SetTop(us, Extended(top_value(us), text))
    <3>3. /\ us \in Seq(DomValues) /\ Len(us) = Len(vs) - 1
          /\ \A i \in 1..Len(vs) - 1 : us[i] = vs[i]
          /\ us # <<>>
          /\ vs = Append(us, key)
          /\ Len(us) = p[n]
      <4>1. /\ us \in Seq(DomValues) /\ Len(us) = Len(vs) - 1
            /\ \A i \in 1..Len(vs) - 1 : us[i] = vs[i]
            /\ us = <<>> <=> Len(vs) = 1
        BY <1>7, PopFacts
      <4>2. vs = Append(us, key)
        BY <1>7, FrontLast
      <4>3. Len(vs) # 1 /\ Len(vs) - 1 = p[n]
        BY <1>1, <2>4, <3>2
      <4>4. QED
        BY <4>1, <4>2, <4>3
    <3>4. top_value(us).type = "object"
      <4>1. Last(us) = us[p[n]] /\ us[p[n]] = vs[p[n]]
        <5>1. p[n] \in 1..Len(vs) - 1
          BY <1>1, <2>4, <3>2
        <5>2. QED
          BY <3>3, <5>1 DEF Last
      <4>2. QED
        BY <1>1, <2>4, <3>1, <4>1 DEF top_value
    <3>5. Text(key) \in Seq(Tokens) /\ text \in Seq(Tokens)
      BY <1>4, <2>1, ValuesText, ConcatProperties
    <3>6. /\ ws \in Seq(DomValues) /\ Len(ws) = Len(us)
          /\ \A i \in 1..Len(us) : ws[i].type = us[i].type
          /\ Flat(ws) = Flat(us) \o text
      <4>. HIDE DEF text, us
      <4>. QED
        BY <3>3, <3>5, TopExtended
    <3>7. post_processing(all) = Built(ws)
      <4>1. post_processing(all) = AddMember(us, key, v)
        BY <2>2, <3>2
      <4>. HIDE DEF us, key
      <4>2. QED
        BY <3>4, <4>1 DEF AddMember
    <3>8. Flat(ws) = Flat(vs) \o Text(v)
      <4>. HIDE DEF us, key, ws
      <4>1. key \in DomValues /\ key.type = "string"
        BY <2>1, <3>2 DEF key
      <4>2. Opened(key) = Text(key)
        BY <4>1 DEF Opened, Text
      <4>3. Flat(vs) = Flat(us) \o Text(key) /\ Flat(us) \in Seq(Tokens)
        BY <3>3, <4>1, <4>2, FlatFacts
      <4>4. (Flat(us) \o Text(key)) \o Text(v) = Flat(us) \o (Text(key) \o Text(v))
        BY <1>4, <3>5, <4>3, ConcatAssociative
      <4>5. QED
        BY <3>6, <4>3, <4>4
    <3>. HIDE DEF us, ws, key, text
    <3>9. Placed(ws, stack, b, p)
      <4>1. \A k \in 1..n : p[k] <= Len(ws)
        <5>1. \A k \in 1..n : p[k] <= p[n]
          <6>1. ASSUME NEW k \in 1..n
                PROVE  p[k] <= p[n]
            <7>1. \A j, l \in 1..n : j < l => p[j] < p[l]
              BY <1>2 DEF Placed, n
            <7>2. k = n \/ (k < n /\ n \in 1..n)
              BY <1>1
            <7>3. p[k] \in Nat /\ p[n] \in Nat
              BY <1>1, <1>5, <2>4
            <7>4. QED
              BY <7>1, <7>2, <7>3
          <6>2. QED
            BY <6>1
        <5>2. QED
          BY <3>3, <3>6, <5>1
      <4>2. b = 2 => Len(ws) >= 1 /\ Len(vs) >= 1
        BY <1>1, <2>1, <2>4, <3>3, <3>6
      <4>3. \A i \in 1..Len(ws) : i <= Len(vs) => ws[i].type = vs[i].type
        BY <3>3, <3>6
      <4>4. QED
        BY <1>2, <3>6, <4>1, <4>2, <4>3, PlacedAlike DEF n
    <3>10. Whole(ws, stack, b, p)
      BY <2>4, <3>3, <3>6, <3>9 DEF Whole, n
    <3>11. QED
      BY <1>7, <3>6, <3>7, <3>8, <3>10 DEF ReadsOn
  <2>5. QED
    BY <2>3, <2>4
<1>8. QED
  BY <1>6, <1>7
-----------------------------------------------------------------------------
(* Steps.                                                                  *)

(* The document is below the stack.                                        *)
LEMMA ValuesNow ==
  ASSUME TypeOK
  PROVE  /\ AllValues \in Seq(DomValues) /\ AllValues # <<>>
         /\ Len(AllValues) = Len(working_stack) + 1
         /\ Head(AllValues) = doc /\ AllValues[1] = doc
<1>1. doc \in DomValues /\ working_stack \in Seq(DomValues)
  BY DEF TypeOK
<1>2. <<doc>> \in Seq(DomValues) /\ Len(<<doc>>) = 1 /\ <<doc>>[1] = doc
  BY <1>1
<1>3. /\ AllValues \in Seq(DomValues)
      /\ Len(AllValues) = Len(<<doc>>) + Len(working_stack)
      /\ \A i \in 1..Len(<<doc>>) + Len(working_stack) :
           AllValues[i] = IF i <= Len(<<doc>>) THEN <<doc>>[i]
                          ELSE working_stack[i - Len(<<doc>>)]
  BY <1>1, <1>2, ConcatProperties DEF AllValues
<1>4. Len(working_stack) \in Nat
  BY <1>1, LenProperties
<1>5. Len(AllValues) = Len(working_stack) + 1 /\ AllValues[1] = doc
  BY <1>2, <1>3, <1>4
<1>6. AllValues # <<>>
  BY <1>3, <1>4, <1>5, EmptySeq
<1>7. QED
  BY <1>3, <1>5, <1>6

(* A sequence is its first element and the rest.                           *)
LEMMA HeadTail ==
  ASSUME NEW S, NEW s \in Seq(S), s # <<>>
  PROVE  /\ Head(s) = s[1] /\ Head(s) \in S /\ Tail(s) \in Seq(S)
         /\ <<Head(s)>> \o Tail(s) = s
<1>1. /\ Len(s) \in Nat \ {0} /\ Head(s) = s[1] /\ Head(s) \in S
      /\ Tail(s) \in Seq(S) /\ Len(Tail(s)) = Len(s) - 1
      /\ \A i \in 1..Len(s) - 1 : Tail(s)[i] = s[i + 1]
  BY EmptySeq, LenProperties, ElementOfSeq, HeadTailProperties
<1>. DEFINE h == <<Head(s)>>
            t == Tail(s)
<1>2. h \in Seq(S) /\ Len(h) = 1 /\ h[1] = s[1]
  BY <1>1
<1>3. t \in Seq(S) /\ Len(t) = Len(s) - 1 /\ \A i \in 1..Len(s) - 1 : t[i] = s[i + 1]
  BY <1>1
<1>. HIDE DEF h, t
<1>4. /\ h \o t \in Seq(S)
      /\ Len(h \o t) = Len(s)
      /\ \A i \in 1..Len(s) : (h \o t)[i] = IF i <= 1 THEN h[i] ELSE t[i - 1]
  <2>1. /\ h \o t \in Seq(S)
        /\ Len(h \o t) = Len(h) + Len(t)
        /\ \A i \in 1..Len(h) + Len(t) :
             (h \o t)[i] = IF i <= Len(h) THEN h[i] ELSE t[i - Len(h)]
    <3>1. h \in Seq(S) /\ t \in Seq(S)
      BY <1>2, <1>3
    <3>2. QED
      BY <3>1, ConcatProperties
  <2>2. Len(h) + Len(t) = Len(s)
    BY <1>1, <1>2, <1>3
  <2>3. QED
    BY <1>2, <2>1, <2>2
<1>5. ASSUME NEW i \in 1..Len(s)
      PROVE  (h \o t)[i] = s[i]
  <2>1. CASE i = 1
    BY <1>2, <1>4, <2>1
  <2>2. CASE i # 1
    <3>1. i - 1 \in 1..Len(s) - 1 /\ (i - 1) + 1 = i /\ ~(i <= 1)
      BY <1>1, <2>2
    <3>2. QED
      BY <1>3, <1>4, <3>1
  <2>3. QED
    BY <2>1, <2>2
<1>6. h \o t = s
  BY <1>4, <1>5, SeqEqual
<1>7. QED
  BY <1>1, <1>6 DEF h, t

(* What the invariant says of the values when one may begin: after         *)
(* pre_processing() the top is the place for it.                           *)
LEMMA OpeningFacts ==
  ASSUME DomIInv, ValueMayBegin, NEW x \in DomValues
  PROVE  \E vs \in Seq(DomValues) : \E p :
           /\ SetTop(pre_processing(AllValues), x) = Append(vs, x)
           /\ Awaiting(vs, open, Bottom, p)
           /\ Flat(vs) = Before \o log
           /\ open = <<>> => log = <<>>
<1>. DEFINE all == AllValues
<1>1. phase \in {"waiting", "reading"} /\ (phase = "reading" => InArray \/ keyed)
  BY DEF ValueMayBegin
<1>2. /\ TypeOK /\ Consistent /\ Structured /\ DocumentIsText
      /\ log \in Seq(Tokens) /\ open \in Seq(Kinds) /\ Bottom \in {1, 2}
  BY <1>1 DEF DomIInv, Alive, TypeOK, SourceTypeOK, Bottom
<1>3. all \in Seq(DomValues) /\ all # <<>> /\ all[1] = doc
  BY <1>2, ValuesNow
<1>4. /\ Front(all) \in Seq(DomValues) /\ Len(all) \in Nat \ {0}
      /\ Last(all) \in DomValues /\ Last(all) = all[Len(all)]
      /\ all = Append(Front(all), Last(all))
  BY <1>3, PopFacts, FrontLast
<1>5. Placeholder \in DomValues /\ Placeholder.type = "null" /\ Opened(Placeholder) = <<>>
  BY DEF Placeholder, EmptyValue, DomValues, Types, Opened
<1>6. phase = "reading" => Flat(all) = Before \o log
  BY <1>2 DEF DocumentIsText, Flat, Opening
<1>7. open = <<>> => phase = "waiting" /\ log = <<>> /\ doc = base /\ ~keyed
  BY <1>1, <1>2 DEF Consistent
<1>8. open # <<>> => phase = "reading"
  BY <1>1, <1>2 DEF Consistent, Alive
<1>9. ASSUME Last(all).type = "array"
      PROVE  SetTop(pre_processing(all), x) = Append(all, x)
  <2>1. pre_processing(all) = Append(all, Placeholder)
    BY <1>9 DEF pre_processing, top_value
  <2>2. QED
    BY <1>3, <1>5, <2>1, FrontOfAppend DEF SetTop
<1>10. ASSUME Last(all).type # "array"
       PROVE  SetTop(pre_processing(all), x) = Append(Front(all), x)
  BY <1>10 DEF pre_processing, top_value, SetTop
<1>. HIDE DEF all
<1>11. CASE keyed
  <2>1. PICK p : /\ Awaiting(Front(all), open, Bottom, p)
                 /\ all = Append(Front(all), Placeholder)
    BY <1>2, <1>11 DEF Structured, all
  <2>2. Last(all) = Placeholder
    BY <1>4, <1>5, <2>1, FrontOfAppend
  <2>3. SetTop(pre_processing(all), x) = Append(Front(all), x)
    BY <1>5, <1>10, <2>2
  <2>4. Flat(Front(all)) = Before \o log
    <3>1. Flat(all) = Flat(Front(all)) \o <<>> /\ Flat(Front(all)) \in Seq(Tokens)
      BY <1>4, <1>5, <2>1, FlatFacts
    <3>2. phase = "reading"
      BY <1>7, <1>8, <1>11
    <3>3. QED
      BY <1>6, <3>1, <3>2, ConcatEmptySeq
  <2>5. QED
    BY <1>4, <1>7, <1>11, <2>1, <2>3, <2>4 DEF all
<1>12. CASE ~keyed
  <2>1. PICK p : Whole(all, open, Bottom, p)
    BY <1>2, <1>12 DEF Structured, all
  <2>2. Placed(all, open, Bottom, p)
    BY <2>1 DEF Whole
  <2>3. CASE open # <<>>
    <3>1. InArray /\ Last(open) = "array"
      BY <1>1, <1>8, <1>12, <2>3 DEF InArray
    <3>2. /\ Len(all) = p[Len(open)] /\ all[p[Len(open)]].type = Last(open)
      BY <1>2, <1>3, <2>1, <2>2, <2>3, PlaceFacts DEF Whole
    <3>3. Last(all).type = "array"
      BY <1>4, <3>1, <3>2
    <3>4. Awaiting(all, open, Bottom, p)
      <4>1. Vacant(open, Bottom, p) = p[Len(open)] + 1
        BY <2>3, <3>1 DEF Vacant
      <4>2. QED
        BY <2>2, <3>1, <3>2, <4>1 DEF Awaiting
    <3>5. QED
      BY <1>3, <1>6, <1>8, <1>9, <2>3, <3>3, <3>4 DEF all
  <2>4. CASE open = <<>>
    <3>1. Len(all) = 1 /\ Last(all) = doc /\ doc = base /\ log = <<>> /\ doc \in DomValues
      BY <1>3, <1>4, <1>7, <2>1, <2>4 DEF Whole
    <3>2. Vacant(open, Bottom, p) = Bottom
      BY <2>4 DEF Vacant
    <3>3. Before \in Seq(Tokens) /\ Before \o log = Before
      <4>1. Before \in Seq(Tokens)
        BY <3>1, ValuesText DEF Before
      <4>2. QED
        BY <3>1, <4>1, ConcatEmptySeq
    <3>4. Flat(<<>>) = <<>> /\ <<>> \in Seq(DomValues)
      <4>1. <<>> \in Seq(DomValues)
        OBVIOUS
      <4>2. QED
        BY <4>1, FlatFacts
    <3>5. all = <<doc>> /\ Front(all) = <<>> /\ all = Append(<<>>, doc)
      <4>1. Front(all) = <<>>
        BY <1>3, <3>1, PopFacts
      <4>2. all = Append(<<>>, doc)
        BY <1>4, <3>1, <4>1
      <4>3. QED
        BY <3>1, <4>1, <4>2, OneToken
    <3>6. CASE doc.type = "array"
      <4>1. Bottom = 2 /\ Before = Opened(doc)
        BY <3>1, <3>6 DEF Bottom, Before
      <4>2. Flat(all) = Before
        <5>1. Flat(all) = <<>> \o Opened(doc) /\ Opened(doc) \in Seq(Tokens)
          BY <3>1, <3>4, <3>5, FlatFacts, ValuesText
        <5>2. QED
          BY <4>1, <5>1, ConcatEmptySeq
      <4>3. Awaiting(all, open, Bottom, p)
        BY <2>2, <2>4, <3>1, <3>2, <4>1 DEF Awaiting
      <4>4. QED
        BY <1>3, <1>9, <3>1, <3>3, <3>6, <4>2, <4>3 DEF all
    <3>7. CASE doc.type # "array"
      <4>1. Bottom = 1 /\ Before = <<>>
        BY <3>1, <3>7 DEF Bottom, Before
      <4>2. Flat(Front(all)) = Before \o log
        BY <3>3, <3>4, <3>5, <4>1
      <4>3. Awaiting(Front(all), open, Bottom, p)
        <5>1. Len(Front(all)) = 0
          BY <3>5
        <5>2. Placed(<<>>, open, 1, p)
          <6>1. Len(open) = 0
            BY <2>4
          <6>2. QED
            BY <2>2, <2>4, <4>1, <6>1 DEF Placed
        <5>3. QED
          BY <2>4, <3>2, <3>5, <4>1, <5>1, <5>2 DEF Awaiting
      <4>4. SetTop(pre_processing(all), x) = Append(Front(all), x)
        BY <1>10, <3>1, <3>7
      <4>5. QED
        BY <1>4, <3>1, <4>2, <4>3, <4>4 DEF all
    <3>8. QED
      BY <3>6, <3>7
  <2>5. QED
    BY <2>3, <2>4
<1>13. QED
  BY <1>11, <1>12

(* What an event does: the values become ws and the source moves on.  What *)
(* is left to show is that ws is in its place and reads as the text.       *)
LEMMA Building ==
  ASSUME DomIInv, NEW e \in Events, NEW token \in Tokens,
         NEW ws \in Seq(DomValues), ws # <<>>, Becomes(e, token, Built(ws)),
         \E p : IF e = "Key"
                THEN /\ Awaiting(Front(ws), After(open, e), Bottom, p)
                     /\ ws = Append(Front(ws), Placeholder)
                ELSE Whole(ws, After(open, e), Bottom, p),
         After(open, e) # <<>> => Flat(ws) = (Before \o log) \o <<token>>,
         After(open, e) = <<>> =>
           Text(ws[1]) = ((Before \o log) \o <<token>>) \o Behind
  PROVE  DomIInv'
<1>1. TypeOK /\ Consistent
  BY DEF DomIInv
<1>2. /\ MayEmit(e)
      /\ open' = After(open, e)
      /\ keyed' = (e = "Key")
      /\ count' = IF ClosesElement(e) THEN count + 1 ELSE count
      /\ phase' = IF After(open, e) = <<>> THEN "done" ELSE "reading"
      /\ log' = Append(log, token)
      /\ base' = base
      /\ doc' = Head(ws)
      /\ working_stack' = Tail(ws)
      /\ the_error' = the_error
  <2>1. Built(ws).ok = TRUE /\ Built(ws).vs = ws
    BY DEF Built
  <2>2. QED
    BY <2>1 DEF Becomes, Emit
<1>3. /\ Head(ws) = ws[1] /\ Head(ws) \in DomValues /\ Tail(ws) \in Seq(DomValues)
      /\ <<Head(ws)>> \o Tail(ws) = ws
  BY HeadTail
<1>4. AllValues' = ws
  BY <1>2, <1>3 DEF AllValues
<1>5. /\ open \in Seq(Kinds) /\ log \in Seq(Tokens) /\ base \in DomValues
      /\ count \in Nat /\ the_error = "none"
  BY <1>1 DEF DomIInv, NeverCorrupted, TypeOK, SourceTypeOK
<1>6. e \in Ends => open # <<>>
  BY <1>2 DEF MayEmit, InArray, InObject, Ends, Starts
<1>7. After(open, e) \in Seq(Kinds)
  BY <1>5, <1>6, AfterFacts
<1>8. TypeOK'
  <2>1. SourceTypeOK'
    BY <1>2, <1>5, <1>7 DEF SourceTypeOK, Phases
  <2>2. log' \in Seq(Tokens)
    BY <1>2, <1>5, AppendProperties
  <2>3. QED
    BY <1>2, <1>3, <1>5, <2>1, <2>2 DEF TypeOK
<1>9. Consistent'
  <2>1. e = "Key" => After(open, e) = open /\ InObject
    BY <1>2 DEF MayEmit, After, Starts, Ends
  <2>2. QED
    BY <1>2, <2>1 DEF Consistent, InObject, Alive
<1>10. NeverCorrupted'
  BY <1>2, <1>5 DEF NeverCorrupted
<1>11. Bottom' = Bottom /\ Before' = Before /\ Behind' = Behind
  BY <1>2 DEF Bottom, Before, Behind
<1>12. Structured'
  BY <1>2, <1>4, <1>11 DEF Structured
<1>13. DocumentIsText'
  <2>1. Before \in Seq(Tokens) /\ <<token>> \in Seq(Tokens) /\ log' = log \o <<token>>
    <3>1. Before \in Seq(Tokens)
      BY <1>5, ValuesText DEF Before
    <3>2. log' = log \o <<token>>
      BY <1>2, <1>5, AppendIsConcat
    <3>3. QED
      BY <3>1, <3>2, OneToken
  <2>2. Before \o log' = (Before \o log) \o <<token>>
    BY <1>5, <2>1, ConcatAssociative
  <2>3. phase' = "reading" => Before' \o log' = Flat(ws)
    BY <1>2, <1>11, <2>2
  <2>4. phase' = "done" => Text(doc') = (Before' \o log') \o Behind'
    BY <1>2, <1>3, <1>11, <2>2
  <2>5. (phase = "reading" => Before \o log = Flat(AllValues))'
    BY <1>4, <2>3
  <2>6. QED
    BY <2>4, <2>5 DEF DocumentIsText, Flat, Opening
<1>14. QED
  BY <1>8, <1>9, <1>10, <1>12, <1>13 DEF DomIInv

(* A value that ends, wherever it is: below it is what it goes into.       *)
LEMMA Ending ==
  ASSUME DomIInv, NEW e \in Events, e # "Key", NEW token \in Tokens,
         NEW vs \in Seq(DomValues), NEW v \in DomValues,
         Becomes(e, token, post_processing(Append(vs, v))),
         \E p : Awaiting(vs, After(open, e), Bottom, p),
         Flat(vs) \o Text(v) = (Before \o log) \o <<token>>
  PROVE  DomIInv'
<1>1. TypeOK
  BY DEF DomIInv
<1>2. /\ open \in Seq(Kinds) /\ base \in DomValues /\ log \in Seq(Tokens)
      /\ Bottom \in {1, 2}
  BY <1>1 DEF TypeOK, SourceTypeOK, Bottom
<1>3. e \in Ends => open # <<>>
  BY DEF Becomes, Emit, MayEmit, InArray, InObject, Ends, Starts
<1>4. After(open, e) \in Seq(Kinds)
  BY <1>2, <1>3, AfterFacts
<1>5. PICK p : Awaiting(vs, After(open, e), Bottom, p)
  OBVIOUS
<1>. DEFINE stack == After(open, e)
<1>55. stack \in Seq(Kinds) /\ Awaiting(vs, stack, Bottom, p)
  BY <1>4, <1>5
<1>. HIDE DEF stack
<1>6. PICK ws \in Seq(DomValues) :
        /\ post_processing(Append(vs, v)) = Built(ws)
        /\ Whole(ws, stack, Bottom, p)
        /\ vs = <<>> => ws = <<v>> /\ stack = <<>> /\ Bottom = 1
        /\ vs # <<>> => ReadsOn(ws, vs, Text(v))
  BY <1>2, <1>55, Closing
<1>7. Placed(ws, stack, Bottom, p)
  BY <1>6 DEF Whole
<1>8. Len(ws) \in Nat \ {0} /\ (stack = <<>> => Len(ws) = 1)
  <2>1. CASE stack = <<>>
    BY <1>6, <2>1 DEF Whole
  <2>2. CASE stack # <<>>
    BY <1>2, <1>4, <1>6, <1>7, <2>2, PlaceFacts DEF Whole, stack
  <2>3. QED
    BY <2>1, <2>2
<1>9. ws # <<>>
  BY <1>8, EmptySeq
<1>10. Text(v) \in Seq(Tokens) /\ Flat(<<>>) = <<>>
  <2>1. <<>> \in Seq(DomValues)
    OBVIOUS
  <2>2. QED
    BY <2>1, ValuesText, FlatFacts
<1>11. ASSUME stack # <<>>
       PROVE  Flat(ws) = (Before \o log) \o <<token>>
  BY <1>6, <1>11 DEF ReadsOn
<1>12. ASSUME stack = <<>>
       PROVE  Text(ws[1]) = ((Before \o log) \o <<token>>) \o Behind
  <2>1. CASE vs = <<>>
    <3>1. ws[1] = v /\ Bottom = 1
      BY <1>6, <2>1
    <3>2. Behind = <<>>
      BY <3>1 DEF Bottom, Behind
    <3>3. Text(v) = (Before \o log) \o <<token>>
      <4>1. <<>> \o Text(v) = Text(v)
        BY <1>10, ConcatEmptySeq
      <4>2. QED
        BY <1>10, <2>1, <4>1
    <3>4. Text(v) \o <<>> = Text(v)
      BY <1>10, ConcatEmptySeq
    <3>5. QED
      BY <3>1, <3>2, <3>3, <3>4
  <2>2. CASE vs # <<>>
    <3>1. Flat(ws) = (Before \o log) \o <<token>>
      BY <1>6, <2>2 DEF ReadsOn
    <3>2. ws[1] \in DomValues /\ ws = Append(<<>>, ws[1])
      <4>1. Len(ws) = 1
        BY <1>8, <1>12
      <4>2. ws[1] \in DomValues
        <5>1. 1 \in 1..Len(ws)
          BY <4>1
        <5>2. QED
          BY <5>1, ElementOfSeq
      <4>3. Front(ws) = <<>> /\ Last(ws) = ws[1] /\ ws = Append(Front(ws), Last(ws))
        BY <1>9, <4>1, PopFacts, FrontLast
      <4>4. QED
        BY <4>2, <4>3
    <3>3. Flat(ws) = Opened(ws[1])
      <4>1. <<>> \in Seq(DomValues)
        OBVIOUS
      <4>2. Flat(Append(<<>>, ws[1])) = <<>> \o Opened(ws[1])
        BY <1>10, <3>2, <4>1, FlatFacts
      <4>3. Opened(ws[1]) \in Seq(Tokens)
        BY <3>2, ValuesText
      <4>4. QED
        BY <3>2, <4>2, <4>3, ConcatEmptySeq
    <3>4. CASE Bottom = 2
      <4>1. ws[1].type = "array"
        BY <1>7, <3>4 DEF Placed
      <4>2. Behind = <<Mark("]")>> /\ Text(ws[1]) = Opened(ws[1]) \o <<Mark("]")>>
        <5>1. base.type = "array"
          BY <3>4 DEF Bottom
        <5>2. QED
          BY <4>1, <5>1 DEF Behind, Text
      <4>3. QED
        BY <3>1, <3>3, <4>2
    <3>5. CASE Bottom = 1
      <4>1. Vacant(stack, Bottom, p) = 1 /\ Len(vs) + 1 = Vacant(stack, Bottom, p)
        BY <1>5, <1>12, <3>5 DEF Awaiting, Vacant, stack
      <4>2. Len(vs) = 0
        BY <4>1, LenProperties
      <4>3. QED
        BY <2>2, <4>2, EmptySeq
    <3>6. QED
      BY <1>2, <3>4, <3>5
  <2>3. QED
    BY <2>1, <2>2
<1>13. QED
  BY <1>6, <1>9, <1>11, <1>12, Building DEF stack

(* An event of the text begins with a text that is not too long.           *)
LEMMA TokenFacts ==
  ASSUME TypeOK, NEW k \in {"scalar", "string", "key"}, Len(log) < MaxText
  PROVE  <<k, Len(log)>> \in Tokens
<1>1. Len(log) \in 0..MaxText
  BY TextAssumption, LenProperties DEF TypeOK
<1>2. QED
  BY <1>1 DEF Tokens

(* What is read so far is text.                                            *)
LEMMA TextSoFar ==
  ASSUME TypeOK
  PROVE  Before \o log \in Seq(Tokens)
<1>1. base \in DomValues /\ log \in Seq(Tokens)
  BY DEF TypeOK
<1>2. Before \in Seq(Tokens)
  BY <1>1, ValuesText DEF Before
<1>3. QED
  BY <1>1, <1>2, ConcatProperties

(* A scalar or a string begins and ends at once.                           *)
LEMMA LeafStep ==
  ASSUME DomIInv, NEW kind \in {"scalar", "string"},
         Becomes("Scalar", <<kind, Len(log)>>,
           post_processing(SetTop(pre_processing(AllValues),
                                  Leaf(kind, <<kind, Len(log)>>))))
  PROVE  DomIInv'
<1>. DEFINE token == <<kind, Len(log)>>
            x == Leaf(kind, token)
<1>1. TypeOK /\ ValueMayBegin /\ Len(log) < MaxText
  BY DEF DomIInv, Becomes, Emit, MayEmit, Starts
<1>2. token \in Tokens
  <2>1. kind \in {"scalar", "string", "key"}
    OBVIOUS
  <2>2. QED
    BY <1>1, <2>1, TokenFacts
<1>3. After(open, "Scalar") = open /\ "Scalar" \in Events
  BY DEF After, Starts, Ends, Events
<1>. HIDE DEF token
<1>4. x \in DomValues /\ Text(x) = <<token>>
  <2>1. <<token>> \in Seq(Tokens)
    BY <1>2, OneToken
  <2>2. QED
    BY <2>1 DEF Leaf, DomValues, Types, Text
<1>5. Becomes("Scalar", token, post_processing(SetTop(pre_processing(AllValues), x)))
  BY DEF token
<1>. HIDE DEF x
<1>6. PICK vs \in Seq(DomValues) : \E p :
        /\ SetTop(pre_processing(AllValues), x) = Append(vs, x)
        /\ Awaiting(vs, open, Bottom, p)
        /\ Flat(vs) = Before \o log
  BY <1>1, <1>4, OpeningFacts
<1>7. /\ Becomes("Scalar", token, post_processing(Append(vs, x)))
      /\ \E p : Awaiting(vs, After(open, "Scalar"), Bottom, p)
      /\ Flat(vs) \o Text(x) = (Before \o log) \o <<token>>
  BY <1>3, <1>4, <1>5, <1>6
<1>8. QED
  BY <1>2, <1>3, <1>4, <1>7, Ending

(* A container begins: it is on top, and nothing is in it.                 *)
LEMMA StartStep ==
  ASSUME DomIInv, NEW e \in Starts, NEW mark \in {"[", "{"},
         mark = IF KindOf(e) = "array" THEN "[" ELSE "{",
         Becomes(e, Mark(mark),
           Built(SetTop(pre_processing(AllValues), EmptyValue(KindOf(e)))))
  PROVE  DomIInv'
<1>. DEFINE token == Mark(mark)
            kind == KindOf(e)
            x == EmptyValue(kind)
<1>1. TypeOK /\ ValueMayBegin
  BY DEF DomIInv, Becomes, Emit, MayEmit, Starts, Ends
<1>2. token \in Tokens /\ <<token>> \in Seq(Tokens)
  BY MarksText
<1>3. /\ e \in Events /\ e # "Key" /\ kind \in Kinds
      /\ After(open, e) = Append(open, kind)
      /\ open \in Seq(Kinds)
      /\ Bottom \in {1, 2}
  BY <1>1 DEF After, Starts, Events, Kinds, KindOf, TypeOK, SourceTypeOK, Bottom
<1>. HIDE DEF kind
<1>4. x \in DomValues /\ x.type = kind
  <2>1. kind \in Types
    BY <1>3 DEF Kinds, Types
  <2>2. QED
    BY <2>1, EmptyValueFacts
<1>5. Opened(x) = <<token>>
  <2>1. x.body = <<>>
    BY DEF EmptyValue
  <2>2. <<token>> \o <<>> = <<token>>
    BY <1>2, ConcatEmptySeq
  <2>3. Opened(x) = <<token>> \o x.body
    BY <1>3, <1>4 DEF Opened, Kinds, kind
  <2>4. QED
    BY <2>1, <2>2, <2>3
<1>6. Becomes(e, token, Built(SetTop(pre_processing(AllValues), x)))
  BY DEF kind
<1>. HIDE DEF x, token
<1>7. PICK vs \in Seq(DomValues) : \E p :
        /\ SetTop(pre_processing(AllValues), x) = Append(vs, x)
        /\ Awaiting(vs, open, Bottom, p)
        /\ Flat(vs) = Before \o log
  BY <1>1, <1>4, OpeningFacts
<1>. DEFINE ws == Append(vs, x)
<1>8. /\ ws \in Seq(DomValues) /\ ws # <<>>
      /\ Flat(ws) = (Before \o log) \o <<token>>
  <2>1. ws \in Seq(DomValues) /\ ws # <<>>
    BY <1>4, PushFacts
  <2>2. Flat(ws) = Flat(vs) \o Opened(x)
    BY <1>4, FlatFacts
  <2>3. QED
    BY <1>5, <1>7, <2>1, <2>2
<1>9. \E q : Whole(ws, Append(open, kind), Bottom, q)
  BY <1>3, <1>4, <1>7, PlacedAbove
<1>10. Append(open, kind) # <<>>
  <2>1. open \in Seq(Kinds) /\ kind \in Kinds
    BY <1>3
  <2>2. QED
    BY <2>1, PushFacts
<1>11. Becomes(e, token, Built(ws))
  BY <1>6, <1>7
<1>. HIDE DEF ws
<1>12. \E p : IF e = "Key"
              THEN /\ Awaiting(Front(ws), After(open, e), Bottom, p)
                   /\ ws = Append(Front(ws), Placeholder)
              ELSE Whole(ws, After(open, e), Bottom, p)
  BY <1>3, <1>9
<1>13. /\ After(open, e) # <<>> => Flat(ws) = (Before \o log) \o <<token>>
       /\ After(open, e) # <<>>
  BY <1>3, <1>8, <1>10
<1>14. QED
  BY <1>2, <1>3, <1>8, <1>11, <1>12, <1>13, Building

(* A container ends: it goes into what is below it.                        *)
LEMMA EndStep ==
  ASSUME DomIInv, NEW e \in Ends, NEW mark \in {"]", "}"},
         mark = IF KindOf(e) = "array" THEN "]" ELSE "}",
         Becomes(e, Mark(mark), post_processing(AllValues))
  PROVE  DomIInv'
<1>. DEFINE all == AllValues
            token == Mark(mark)
<1>1. MayEmit(e)
  BY DEF Becomes, Emit
<1>2. /\ e \in Events /\ e # "Key" /\ e \notin Starts
      /\ phase = "reading" /\ open # <<>> /\ Last(open) = KindOf(e) /\ ~keyed
  <2>1. e \in Events /\ e # "Key" /\ e \notin Starts
    BY DEF Ends, Starts, Events
  <2>2. CASE e = "EndArray"
    <3>1. phase = "reading" /\ InArray
      BY <1>1, <2>2 DEF MayEmit, Starts
    <3>2. ~keyed
      BY <3>1 DEF DomIInv, Consistent, InArray
    <3>3. QED
      BY <2>1, <2>2, <3>1, <3>2 DEF InArray, KindOf
  <2>3. CASE e = "EndObject"
    <3>1. phase = "reading" /\ InObject /\ ~keyed
      BY <1>1, <2>3 DEF MayEmit, Starts
    <3>2. QED
      BY <2>1, <2>3, <3>1 DEF InObject, KindOf
  <2>4. QED
    BY <2>2, <2>3 DEF Ends
<1>3. /\ TypeOK /\ Structured /\ DocumentIsText
      /\ open \in Seq(Kinds) /\ Bottom \in {1, 2}
  BY <1>2 DEF DomIInv, Alive, TypeOK, SourceTypeOK, Bottom
<1>4. PICK p : Whole(all, open, Bottom, p)
  BY <1>2, <1>3 DEF Structured
<1>5. all \in Seq(DomValues) /\ all # <<>>
  BY <1>3, ValuesNow
<1>6. After(open, e) = Front(open)
  BY <1>2 DEF After
<1>7. Flat(all) = Before \o log
  BY <1>2, <1>3 DEF DocumentIsText, Flat, Opening
<1>8. Becomes(e, token, post_processing(all))
  OBVIOUS
<1>9. token \in Tokens /\ <<token>> \in Seq(Tokens)
  BY MarksText
<1>. HIDE DEF all
<1>. DEFINE vs == Front(all)
            v == Last(all)
<1>10. /\ vs \in Seq(DomValues) /\ v \in DomValues /\ all = Append(vs, v)
  BY <1>5, PopFacts, FrontLast
<1>11. /\ \E q : Awaiting(vs, Front(open), Bottom, q)
       /\ v.type = KindOf(e)
  BY <1>2, <1>3, <1>4, <1>5, PlacedBelow
<1>. HIDE DEF vs, v
<1>12. Text(v) = Opened(v) \o <<token>>
  <2>1. CASE KindOf(e) = "array"
    BY <1>11, <2>1 DEF Text, token
  <2>2. CASE KindOf(e) # "array"
    <3>1. KindOf(e) = "object"
      BY <2>2 DEF KindOf
    <3>2. QED
      BY <1>11, <3>1 DEF Text, token
  <2>3. QED
    BY <2>1, <2>2
<1>. HIDE DEF token
<1>13. Flat(vs) \o Text(v) = (Before \o log) \o <<token>>
  <2>1. Flat(all) = Flat(vs) \o Opened(v) /\ Flat(vs) \in Seq(Tokens)
    BY <1>10, FlatFacts
  <2>2. Opened(v) \in Seq(Tokens)
    BY <1>10, ValuesText
  <2>3. (Flat(vs) \o Opened(v)) \o <<token>> = Flat(vs) \o (Opened(v) \o <<token>>)
    BY <1>9, <2>1, <2>2, TextAssociative
  <2>4. QED
    BY <1>7, <1>12, <2>1, <2>3
<1>14. Becomes(e, token, post_processing(Append(vs, v)))
  BY <1>8, <1>10
<1>15. \E q : Awaiting(vs, After(open, e), Bottom, q)
  BY <1>6, <1>11
<1>16. QED
  BY <1>2, <1>9, <1>10, <1>13, <1>14, <1>15, Ending

(* A key waits above its object, with a placeholder for its value.         *)
LEMMA KeyStep ==
  ASSUME DomIInv, Key
  PROVE  DomIInv'
<1>. DEFINE all == AllValues
            token == <<"key", Len(log)>>
            key == Leaf("string", token)
            low == Append(all, key)
            ws == Append(low, Placeholder)
<1>1. /\ Becomes("Key", token,
           IF top_value(all).type = "object"
           THEN Built(all \o <<key, Placeholder>>) ELSE Corrupted)
      /\ "Key" \in Events
  BY DEF Key, Events
<1>2. /\ phase = "reading" /\ open # <<>> /\ Last(open) = "object" /\ ~keyed
      /\ Len(log) < MaxText
  BY <1>1 DEF Becomes, Emit, MayEmit, InObject, Starts
<1>3. /\ TypeOK /\ Structured /\ DocumentIsText
      /\ open \in Seq(Kinds) /\ Bottom \in {1, 2}
      /\ After(open, "Key") = open
  BY <1>2 DEF DomIInv, Alive, TypeOK, SourceTypeOK, Bottom, After, Starts, Ends
<1>4. token \in Tokens /\ <<token>> \in Seq(Tokens)
  <2>1. token \in Tokens
    BY <1>2, <1>3, TokenFacts
  <2>2. QED
    BY <2>1, OneToken
<1>5. PICK p : Whole(all, open, Bottom, p)
  BY <1>2, <1>3 DEF Structured
<1>6. all \in Seq(DomValues) /\ all # <<>>
  BY <1>3, ValuesNow
<1>7. Flat(all) = Before \o log
  BY <1>2, <1>3 DEF DocumentIsText, Flat, Opening
<1>. HIDE DEF all, token
<1>8. /\ key \in DomValues /\ key.type = "string" /\ Opened(key) = <<token>>
      /\ Placeholder \in DomValues /\ Opened(Placeholder) = <<>>
  <2>1. key \in DomValues /\ key.type = "string" /\ Opened(key) = <<token>>
    BY <1>4 DEF Leaf, DomValues, Types, Opened
  <2>2. Placeholder \in DomValues /\ Opened(Placeholder) = <<>>
    BY EmptyValueFacts DEF Placeholder, Opened, Types
  <2>3. QED
    BY <2>1, <2>2
<1>9. /\ Placed(all, open, Bottom, p) /\ Len(all) = p[Len(open)]
      /\ Len(all) \in Nat \ {0} /\ p[Len(open)] \in Nat \ {0}
      /\ all[Len(all)].type = "object" /\ Last(all) = all[Len(all)]
  <2>1. Placed(all, open, Bottom, p) /\ Len(all) = p[Len(open)]
    BY <1>2, <1>5 DEF Whole
  <2>2. /\ p[Len(open)] \in Nat \ {0}
        /\ all[p[Len(open)]].type = Last(open)
    BY <1>2, <1>3, <1>6, <2>1, PlaceFacts
  <2>3. QED
    BY <1>2, <2>1, <2>2 DEF Last
<1>. HIDE DEF key
<1>10. /\ low \in Seq(DomValues) /\ Len(low) = Len(all) + 1
       /\ \A i \in 1..Len(all) : low[i] = all[i]
       /\ low[Len(low)] = key
       /\ Flat(low) = (Before \o log) \o <<token>>
  <2>1. /\ low \in Seq(DomValues) /\ Len(low) = Len(all) + 1
        /\ \A i \in 1..Len(all) : low[i] = all[i]
        /\ low[Len(all) + 1] = key
    BY <1>6, <1>8, PushFacts
  <2>2. Flat(low) = Flat(all) \o Opened(key)
    BY <1>6, <1>8, FlatFacts
  <2>3. QED
    BY <1>7, <1>8, <2>1, <2>2
<1>. HIDE DEF low
<1>11. /\ ws \in Seq(DomValues) /\ ws # <<>> /\ Front(ws) = low
       /\ Flat(ws) = (Before \o log) \o <<token>>
  <2>1. ws \in Seq(DomValues) /\ ws # <<>> /\ Front(ws) = low
    BY <1>8, <1>10, PushFacts, FrontOfAppend
  <2>2. Flat(ws) = Flat(low) \o <<>> /\ Flat(low) \in Seq(Tokens)
    BY <1>8, <1>10, FlatFacts
  <2>3. QED
    BY <1>10, <2>1, <2>2, ConcatEmptySeq
<1>12. all \o <<key, Placeholder>> = ws
  <2>. DEFINE two == <<key, Placeholder>>
              one == <<key>>
  <2>1. /\ two = Append(one, Placeholder) /\ one \in Seq(DomValues)
        /\ <<Placeholder>> \in Seq(DomValues)
    BY <1>8
  <2>2. /\ Append(one, Placeholder) = one \o <<Placeholder>>
        /\ low = all \o one
        /\ ws = low \o <<Placeholder>>
    <3>1. Append(one, Placeholder) = one \o <<Placeholder>>
      BY <1>8, <2>1, AppendIsConcat
    <3>2. low = all \o one
      BY <1>6, <1>8, AppendIsConcat DEF low
    <3>3. ws = low \o <<Placeholder>>
      BY <1>8, <1>10, AppendIsConcat
    <3>4. QED
      BY <3>1, <3>2, <3>3
  <2>. HIDE DEF two, one
  <2>3. (all \o one) \o <<Placeholder>> = all \o (one \o <<Placeholder>>)
    BY <1>6, <2>1, ConcatAssociative
  <2>4. all \o two = ws
    BY <2>1, <2>2, <2>3
  <2>5. QED
    BY <2>4 DEF two
<1>. HIDE DEF ws
<1>13. Becomes("Key", token, Built(ws))
  BY <1>1, <1>9, <1>12 DEF top_value
<1>14. Awaiting(low, open, Bottom, p)
  <2>1. Placed(low, open, Bottom, p)
    <3>1. \A k \in 1..Len(open) : p[k] <= Len(low)
      <4>1. \A k \in 1..Len(open) : p[k] \in Nat /\ p[k] <= Len(all)
        BY <1>9 DEF Placed
      <4>2. QED
        BY <1>9, <1>10, <4>1
    <3>2. Bottom = 2 => Len(low) >= 1 /\ Len(all) >= 1
      BY <1>9, <1>10
    <3>3. \A i \in 1..Len(low) : i <= Len(all) => low[i].type = all[i].type
      BY <1>9, <1>10
    <3>4. QED
      BY <1>3, <1>6, <1>9, <1>10, <3>1, <3>2, <3>3, PlacedAlike
  <2>2. Vacant(open, Bottom, p) = p[Len(open)] + 2
    BY <1>2 DEF Vacant
  <2>3. Len(low) + 1 = Vacant(open, Bottom, p)
    BY <1>9, <1>10, <2>2
  <2>4. low[Len(low)].type = "string"
    BY <1>8, <1>10
  <2>5. QED
    BY <2>1, <2>3, <2>4 DEF Awaiting
<1>15. ws = Append(Front(ws), Placeholder)
  BY <1>11 DEF ws
<1>16. \E q : IF "Key" = "Key"
              THEN /\ Awaiting(Front(ws), After(open, "Key"), Bottom, q)
                   /\ ws = Append(Front(ws), Placeholder)
              ELSE Whole(ws, After(open, "Key"), Bottom, q)
  BY <1>3, <1>11, <1>14, <1>15
<1>17. /\ After(open, "Key") # <<>> => Flat(ws) = (Before \o log) \o <<token>>
       /\ After(open, "Key") # <<>>
  BY <1>2, <1>3, <1>11
<1>18. QED
  BY <1>1, <1>4, <1>11, <1>13, <1>16, <1>17, Building

(* Between values nothing is on the stack.                                 *)
LEMMA BetweenValues ==
  ASSUME DomIInv, Alive, phase # "reading"
  PROVE  working_stack = <<>> /\ open = <<>> /\ ~keyed
<1>1. TypeOK /\ open = <<>> /\ ~keyed
  BY DEF DomIInv, Consistent
<1>2. PICK p : Whole(AllValues, open, Bottom, p)
  BY <1>1 DEF DomIInv, Structured
<1>3. Len(AllValues) = 1
  BY <1>1, <1>2 DEF Whole
<1>4. Len(working_stack) \in Nat /\ working_stack \in Seq(DomValues)
  BY <1>1, LenProperties DEF TypeOK
<1>5. Len(working_stack) = 0
  BY <1>1, <1>3, <1>4, ValuesNow
<1>6. QED
  BY <1>1, <1>4, <1>5, EmptySeq

(* A handler that waits for a value, whatever its document holds.          *)
LEMMA Waiting ==
  ASSUME TypeOK, phase = "waiting", open = <<>>, ~keyed, working_stack = <<>>,
         the_error = "none", log = <<>>, doc = base
  PROVE  DomIInv
<1>1. AllValues = <<doc>> /\ Len(AllValues) = 1 /\ AllValues[1] = doc
  <2>1. AllValues \in Seq(DomValues) /\ Len(AllValues) = 1 /\ AllValues[1] = doc
    <3>1. Len(working_stack) = 0
      OBVIOUS
    <3>2. QED
      BY <3>1, ValuesNow
  <2>2. <<doc>> \in Seq(DomValues) /\ Len(<<doc>>) = 1 /\ <<doc>>[1] = doc
    BY DEF TypeOK
  <2>3. \A i \in 1..1 : AllValues[i] = <<doc>>[i]
    BY <2>1, <2>2
  <2>4. AllValues = <<doc>>
    BY <2>1, <2>2, <2>3, SeqEqual
  <2>5. QED
    BY <2>1, <2>4
<1>2. Structured
  <2>. DEFINE p == [k \in 1..0 |-> 1]
  <2>1. p \in [1..Len(open) -> Nat \ {0}] /\ Len(open) = 0
    OBVIOUS
  <2>2. Bottom = 2 => AllValues[1].type = "array"
    BY <1>1 DEF Bottom
  <2>. HIDE DEF p
  <2>3. Placed(AllValues, open, Bottom, p)
    BY <2>1, <2>2 DEF Placed
  <2>4. Whole(AllValues, open, Bottom, p)
    BY <1>1, <2>3 DEF Whole
  <2>5. QED
    BY <2>4 DEF Structured
<1>3. Consistent
  BY DEF Consistent
<1>4. NeverCorrupted /\ DocumentIsText
  BY DEF NeverCorrupted, DocumentIsText
<1>5. QED
  BY <1>2, <1>3, <1>4 DEF DomIInv
-----------------------------------------------------------------------------
(* The invariant and what it implies.                                      *)

(* A new handler waits for a value.                                        *)
LEMMA DomInitInvariant == Init => DomIInv
<1>1. SUFFICES ASSUME Init PROVE DomIInv
  OBVIOUS
<1>2. Mark("old") \in Tokens /\ <<Mark("old")>> \in Seq(Tokens)
  <2>. DEFINE M == {Mark(k) : k \in {"[", "]", "{", "}", "old"}}
              L == {"scalar", "string", "key"} \X (0..MaxText)
  <2>1. Tokens = M \cup L
    BY DEF Tokens
  <2>2. Mark("old") \in M
    BY Zenon
  <2>. HIDE DEF M, L
  <2>3. Mark("old") \in Tokens
    BY <2>1, <2>2
  <2>4. QED
    BY <2>3, OneToken
<1>3. doc \in DomValues
  <2>1. CASE doc = Placeholder
    BY <2>1, EmptyValueFacts DEF Placeholder, Types
  <2>2. CASE doc \in {[type |-> t, body |-> <<Mark("old")>>] : t \in Types}
    <3>1. PICK t \in Types : doc = [type |-> t, body |-> <<Mark("old")>>]
      BY <2>2
    <3>2. QED
      BY <1>2, <3>1 DEF DomValues
  <2>3. QED
    BY <1>1, <2>1, <2>2 DEF Init
<1>4. /\ phase = "waiting" /\ open = <<>> /\ ~keyed /\ working_stack = <<>>
      /\ the_error = "none" /\ log = <<>> /\ doc = base /\ count = 0
  BY <1>1 DEF Init, SourceInit
<1>5. TypeOK
  <2>1. working_stack \in Seq(DomValues) /\ log \in Seq(Tokens) /\ open \in Seq(Kinds)
    BY <1>4
  <2>2. SourceTypeOK
    BY <1>1, <2>1 DEF Init, SourceInit, SourceTypeOK, Phases
  <2>3. QED
    BY <1>3, <1>4, <2>1, <2>2 DEF TypeOK
<1>6. QED
  BY <1>4, <1>5, Waiting

(* Every event, and every use of the handler for another value, keeps it.  *)
LEMMA DomStepInvariant == DomIInv /\ [Next]_vars => DomIInv'
<1>1. SUFFICES ASSUME DomIInv, [Next]_vars PROVE DomIInv'
  OBVIOUS
<1>2. TypeOK /\ Consistent /\ NeverCorrupted
  BY <1>1 DEF DomIInv
<1>3. CASE Scalar
  BY <1>1, <1>3, LeafStep DEF Scalar
<1>4. CASE String
  BY <1>1, <1>4, LeafStep DEF String
<1>5. CASE Key
  BY <1>1, <1>5, KeyStep
<1>6. CASE StartArray
  <2>1. "StartArray" \in Starts /\ KindOf("StartArray") = "array"
    BY DEF Starts, KindOf
  <2>2. QED
    BY <1>1, <1>6, <2>1, StartStep DEF StartArray
<1>7. CASE EndArray
  <2>1. "EndArray" \in Ends /\ KindOf("EndArray") = "array"
    BY DEF Ends, KindOf
  <2>2. QED
    BY <1>1, <1>7, <2>1, EndStep DEF EndArray
<1>8. CASE StartObject
  <2>1. "StartObject" \in Starts /\ KindOf("StartObject") = "object"
    BY DEF Starts, KindOf
  <2>2. QED
    BY <1>1, <1>8, <2>1, StartStep DEF StartObject
<1>9. CASE EndObject
  <2>1. "EndObject" \in Ends /\ KindOf("EndObject") = "object"
    BY DEF Ends, KindOf
  <2>2. QED
    BY <1>1, <1>9, <2>1, EndStep DEF EndObject
<1>10. CASE SyntaxError
  <2>1. phase' = "malformed" /\ UNCHANGED <<open, keyed, count, handlerVars>>
    BY <1>10 DEF SyntaxError, Malformed
  <2>2. TypeOK'
    BY <1>2, <2>1 DEF TypeOK, SourceTypeOK, Phases, handlerVars
  <2>3. Consistent' /\ NeverCorrupted' /\ DocumentIsText' /\ ~Alive'
    BY <1>2, <2>1 DEF Consistent, NeverCorrupted, DocumentIsText, Alive, handlerVars
  <2>4. QED
    BY <2>2, <2>3 DEF DomIInv
<1>11. CASE PrepareForReuse \/ RepeatedMember
  <2>1. phase = "done" /\ phase' = "waiting" /\ count' = 0 /\ UNCHANGED <<open, keyed>>
    BY <1>11 DEF PrepareForReuse, RepeatedMember, AnotherValue
  <2>2. working_stack = <<>> /\ open = <<>> /\ ~keyed
    BY <1>1, <2>1, BetweenValues DEF Alive
  <2>3. /\ working_stack' = <<>> /\ the_error' = "none" /\ log' = <<>>
        /\ doc' = base' /\ doc' \in DomValues
    <3>1. CASE PrepareForReuse
      BY <3>1, EmptyValueFacts DEF PrepareForReuse, Placeholder, Types
    <3>2. CASE RepeatedMember
      BY <1>2, <2>2, <3>2 DEF RepeatedMember, NeverCorrupted, TypeOK
    <3>3. QED
      BY <1>11, <3>1, <3>2
  <2>4. TypeOK'
    <3>1. working_stack' \in Seq(DomValues) /\ log' \in Seq(Tokens)
      BY <2>3
    <3>2. QED
      BY <1>2, <2>1, <2>3, <3>1 DEF TypeOK, SourceTypeOK, Phases
  <2>5. /\ TypeOK' /\ phase' = "waiting" /\ open' = <<>> /\ ~keyed'
        /\ working_stack' = <<>> /\ the_error' = "none" /\ log' = <<>> /\ doc' = base'
    BY <2>1, <2>2, <2>3, <2>4
  <2>6. (TypeOK /\ phase = "waiting" /\ open = <<>> /\ ~keyed /\ working_stack = <<>>
           /\ the_error = "none" /\ log = <<>> /\ doc = base => DomIInv)'
    BY Waiting, PTL
  <2>7. QED
    BY <2>5, <2>6
<1>12. CASE UNCHANGED vars
  <2>1. UNCHANGED <<open, keyed, phase, count, working_stack, the_error, doc, log, base>>
    BY <1>12 DEF vars, sourceVars, handlerVars
  <2>2. TypeOK' /\ Consistent' /\ NeverCorrupted'
    BY <1>2, <2>1 DEF TypeOK, SourceTypeOK, Consistent, NeverCorrupted, Alive
  <2>3. /\ AllValues' = AllValues /\ Bottom' = Bottom
        /\ Before' = Before /\ Behind' = Behind /\ Alive' = Alive
    BY <2>1 DEF AllValues, Bottom, Before, Behind, Alive
  <2>4. (Alive => Structured)'
    BY <1>1, <2>1, <2>3 DEF DomIInv, Structured
  <2>5. DocumentIsText'
    BY <1>1, <2>1, <2>3 DEF DomIInv, DocumentIsText
  <2>6. QED
    BY <2>2, <2>4, <2>5 DEF DomIInv
<1>13. QED
  BY <1>1, <1>3, <1>4, <1>5, <1>6, <1>7, <1>8, <1>9, <1>10, <1>11, <1>12 DEF Next

(* The variables keep their types.                                         *)
THEOREM DomTypeCorrect == Spec => []TypeOK
<1>1. DomIInv => TypeOK
  BY DEF DomIInv
<1>2. QED
  BY DomInitInvariant, DomStepInvariant, <1>1, PTL DEF Spec

(* While the text is read, the document and the values on the stack above  *)
(* it read as the text so far, and the finished document reads as the      *)
(* text: nothing is lost, reordered or added twice (dom.hpp).              *)
THEOREM DocumentFaithful == Spec => []DocumentIsText
<1>1. DomIInv => DocumentIsText
  BY DEF DomIInv
<1>2. QED
  BY DomInitInvariant, DomStepInvariant, <1>1, PTL DEF Spec

(* post_processing() and Key() never report a corrupted DOM: what is below *)
(* a value is always an array, or a key with its object below it.          *)
THEOREM DomNeverCorrupted == Spec => []NeverCorrupted
<1>1. DomIInv => NeverCorrupted
  BY DEF DomIInv
<1>2. QED
  BY DomInitInvariant, DomStepInvariant, <1>1, PTL DEF Spec

(* PrepareForReuse() clears a stack that is empty, which is the only kind  *)
(* utility::stack can clear without stepping past its last node.           *)
THEOREM StackEmptyBetweenValues == Spec => []EmptyBetweenValues
<1>1. DomIInv => EmptyBetweenValues
  BY BetweenValues DEF EmptyBetweenValues, Alive
<1>2. QED
  BY DomInitInvariant, DomStepInvariant, <1>1, PTL DEF Spec
-----------------------------------------------------------------------------
(***************************************************************************)
(* The stack those values are kept in, utility::stack, used as the         *)
(* handlers use it, is a stack: the linked nodes implement Lifo for every  *)
(* node size, and no object is constructed, destroyed or freed at the      *)
(* wrong moment.  The argument is the place of a slot: counting slots from *)
(* the bottom of the list, total_size is always the place of the last one  *)
(* in use.                                                                 *)
(***************************************************************************)

N == NumElementsPerNode

Node == [Slots -> Values \cup {Raw}]

(* Where the slots are, counted from the bottom, and back.                 *)
Place(n, s) == N * (n - 1) + s
NodeAt(i) == (i - 1) \div N + 1
SlotAt(i) == ((i - 1) % N) + 1

(* The first size slots of the head and all those behind it are in use.    *)
InUse(list, size) ==
  \A n \in 1..Len(list) :
    FreesCleanly(list[n], IF n = Len(list) THEN size ELSE N)

(* total_size counts the slots in use; without a node the head is full, so *)
(* that the next push allocates one.                                       *)
SizesAgree ==
  /\ total_size = N * (Len(nodes) - 1) + current_size
  /\ nodes = <<>> => current_size = N

StackIInv == StackTypeOK /\ SizesAgree /\ LifetimesPaired
-----------------------------------------------------------------------------
(* Places.                                                                 *)

(* Every place is that of one slot.                                        *)
LEMMA PlaceOf ==
  ASSUME NEW i \in Nat \ {0}
  PROVE  /\ NodeAt(i) \in Nat \ {0} /\ SlotAt(i) \in Slots
         /\ Place(NodeAt(i), SlotAt(i)) = i
<1>1. N \in Nat \ {0} /\ Slots = 1..N
  BY StackAssumption DEF N, Slots
<1>. DEFINE j == i - 1
            q == j \div N
            r == j % N
<1>2. j \in Nat
  OBVIOUS
<1>. HIDE DEF j
<1>3. q \in Int /\ r \in 0..N-1
  BY <1>1, <1>2
<1>4. r = j - N * q
  BY <1>1, <1>2
<1>5. NodeAt(i) = q + 1 /\ SlotAt(i) = r + 1
  BY DEF j, NodeAt, SlotAt
<1>. HIDE DEF q, r
<1>6. N * q \in Int
  BY <1>1, <1>3
<1>7. q >= 0
  <2>1. q < 0 => N * q + N <= 0
    BY <1>1, <1>3
  <2>2. QED
    BY <1>1, <1>2, <1>3, <1>4, <1>6, <2>1
<1>8. Place(q + 1, r + 1) = i
  <2>1. (q + 1) - 1 = q
    BY <1>3
  <2>2. Place(q + 1, r + 1) = N * q + (r + 1)
    BY <2>1 DEF Place
  <2>3. QED
    BY <1>2, <1>3, <1>4, <1>6, <2>2 DEF j
<1>9. QED
  BY <1>1, <1>3, <1>5, <1>7, <1>8

(* Places are ordered by node, then by slot.                               *)
LEMMA PlaceOrder ==
  ASSUME NEW n \in Nat \ {0}, NEW s \in Slots, NEW m \in Nat \ {0}, NEW t \in Slots
  PROVE  /\ Place(n, s) \in Nat \ {0}
         /\ n < m => Place(n, s) < Place(m, t)
         /\ Place(n, s) = Place(m, t) => n = m /\ s = t
<1>1. N \in Nat \ {0} /\ s \in 1..N /\ t \in 1..N
  BY StackAssumption DEF N, Slots
<1>2. \A p, q \in Nat : N * p \in Nat /\ (p < q => N * p + N <= N * q)
  BY <1>1
<1>. DEFINE p == n - 1
            q == m - 1
<1>3. /\ p \in Nat /\ q \in Nat /\ n = p + 1 /\ m = q + 1
      /\ Place(n, s) = N * p + s /\ Place(m, t) = N * q + t
  BY DEF Place
<1>. HIDE DEF p, q
<1>4. N * p \in Nat /\ N * q \in Nat
  BY <1>2, <1>3
<1>5. /\ n < m => Place(n, s) < Place(m, t)
      /\ m < n => Place(m, t) < Place(n, s)
  <2>1. (n < m => N * p + N <= N * q) /\ (m < n => N * q + N <= N * p)
    BY <1>2, <1>3
  <2>2. QED
    BY <1>1, <1>3, <1>4, <2>1
<1>6. Place(n, s) \in Nat \ {0} /\ Place(m, t) \in Nat
  BY <1>1, <1>3, <1>4
<1>7. n = m /\ Place(n, s) = Place(m, t) => s = t
  BY <1>1, <1>3, <1>4
<1>8. n < m \/ n = m \/ m < n
  OBVIOUS
<1>9. QED
  BY <1>5, <1>6, <1>7, <1>8

(* The last slot of a node comes right before the first of the next.       *)
LEMMA PlaceSuccessor ==
  ASSUME NEW n \in Nat \ {0}
  PROVE  /\ 1 \in Slots /\ N \in Slots
         /\ Place(n, N) = N * n
         /\ Place(n + 1, 1) = N * n + 1
         /\ N * n \in Nat
<1>1. N \in Nat \ {0} /\ Slots = 1..N
  BY StackAssumption DEF N, Slots
<1>2. N * (n - 1) + N = N * n /\ N * n \in Nat
  BY <1>1
<1>3. (n + 1) - 1 = n
  OBVIOUS
<1>4. QED
  BY <1>1, <1>2, <1>3 DEF Place
-----------------------------------------------------------------------------
(* Lists of nodes.                                                         *)

(* A function on 1..n is a sequence of length n.                           *)
LEMMA FunctionIsSeq ==
  ASSUME NEW S, NEW n \in Nat, NEW f \in [1..n -> S]
  PROVE  f \in Seq(S) /\ Len(f) = n
<1>1. f \in Seq(S)
  BY SeqDef
<1>2. Len(f) \in Nat /\ DOMAIN f = 1..Len(f)
  BY <1>1, LenProperties
<1>3. 1..Len(f) = 1..n
  BY <1>2
<1>4. \A k \in Nat : k = 0 \/ k \in 1..k
  OBVIOUS
<1>5. (n = 0 \/ n \in 1..Len(f)) /\ (Len(f) = 0 \/ Len(f) \in 1..n)
  BY <1>2, <1>3, <1>4
<1>6. QED
  BY <1>1, <1>2, <1>5

(* Dropping the last element.                                              *)
LEMMA FrontFacts ==
  ASSUME NEW S, NEW s \in Seq(S), s # <<>>
  PROVE  /\ Len(s) \in Nat \ {0}
         /\ Front(s) \in Seq(S) /\ Len(Front(s)) = Len(s) - 1
         /\ \A i \in 1..Len(s) - 1 : Front(s)[i] = s[i]
<1>. DEFINE n == Len(s) - 1
<1>1. Len(s) \in Nat \ {0}
  BY EmptySeq
<1>2. n \in Nat /\ n \in Int /\ 1 \in Int
  BY <1>1
<1>3. \A i \in 1..n : s[i] \in S
  BY <1>1, ElementOfSeq
<1>4. Front(s) = SubSeq(s, 1, n)
  BY DEF Front
<1>5. /\ SubSeq(s, 1, n) \in Seq(S)
      /\ Len(SubSeq(s, 1, n)) = IF 1 <= n THEN n - 1 + 1 ELSE 0
      /\ \A i \in 1..n - 1 + 1 : SubSeq(s, 1, n)[i] = s[1 + i - 1]
  <2>. HIDE DEF n
  <2>1. QED
    BY <1>2, <1>3, SubSeqProperties
<1>. HIDE DEF n
<1>6. n - 1 + 1 = n /\ (IF 1 <= n THEN n - 1 + 1 ELSE 0) = n
  BY <1>2
<1>7. \A i \in 1..n : SubSeq(s, 1, n)[i] = s[i]
  BY <1>2, <1>5
<1>8. QED
  BY <1>1, <1>4, <1>5, <1>6, <1>7 DEF n

(* Writing into a slot of the last node.                                   *)
LEMMA WriteFacts ==
  ASSUME NEW list \in Seq(Node), list # <<>>, NEW slot \in Slots,
         NEW x \in Values \cup {Raw}
  PROVE  LET L == Len(list)
             new == [list EXCEPT ![L][slot] = x]
         IN  /\ L \in Nat \ {0} /\ new \in Seq(Node) /\ Len(new) = L
             /\ \A n \in 1..L, s \in Slots :
                  new[n][s] = IF n = L /\ s = slot THEN x ELSE list[n][s]
<1>. DEFINE L == Len(list)
            top == [list[L] EXCEPT ![slot] = x]
            new == [list EXCEPT ![L] = top]
<1>1. L \in Nat \ {0}
  BY EmptySeq
<1>2. \A n \in 1..L : list[n] \in Node
  BY ElementOfSeq
<1>3. list[L] \in Node
  BY <1>1, <1>2
<1>4. top \in Node /\ \A s \in Slots : top[s] = IF s = slot THEN x ELSE list[L][s]
  BY <1>3 DEF Node
<1>5. L \in 1..L
  BY <1>1
<1>. HIDE DEF top
<1>6. new \in Seq(Node) /\ Len(new) = L
      /\ \A n \in 1..L : new[n] = IF n = L THEN top ELSE list[n]
  BY <1>4, <1>5, ExceptSeq
<1>7. [list EXCEPT ![L][slot] = x] = new
  BY DEF top
<1>. HIDE DEF new
<1>8. \A n \in 1..L, s \in Slots :
        new[n][s] = IF n = L /\ s = slot THEN x ELSE list[n][s]
  BY <1>4, <1>6
<1>9. QED
  BY <1>1, <1>6, <1>7, <1>8

(* Storing an object in the first free slot keeps the lifetimes.           *)
LEMMA StoreKeepsInUse ==
  ASSUME NEW list \in Seq(Node), list # <<>>, NEW slot \in Slots,
         NEW v \in Values, InUse(list, slot - 1)
  PROVE  /\ list[Len(list)][slot] = Raw
         /\ InUse([list EXCEPT ![Len(list)][slot] = v], slot)
<1>. DEFINE L == Len(list)
            new == [list EXCEPT ![L][slot] = v]
<1>1. /\ L \in Nat \ {0} /\ Len(new) = L
      /\ \A n \in 1..L, s \in Slots :
           new[n][s] = IF n = L /\ s = slot THEN v ELSE list[n][s]
  <2>1. v \in Values \cup {Raw}
    OBVIOUS
  <2>2. QED
    BY <2>1, WriteFacts
<1>. HIDE DEF new
<1>2. \A n \in 1..L, s \in Slots :
        list[n][s] # Raw <=> s <= (IF n = L THEN slot - 1 ELSE N)
  BY DEF InUse, FreesCleanly
<1>3. slot \in Nat \ {0} /\ \A s \in Slots : s \in Nat
  BY StackAssumption DEF Slots
<1>4. list[L][slot] = Raw
  BY <1>1, <1>2, <1>3
<1>5. v # Raw
  BY StackAssumption
<1>6. ASSUME NEW n \in 1..L, NEW s \in Slots
      PROVE  new[n][s] # Raw <=> s <= (IF n = L THEN slot ELSE N)
  <2>1. CASE n # L
    BY <1>1, <1>2, <2>1
  <2>2. CASE n = L
    <3>1. s <= slot <=> s <= slot - 1 \/ s = slot
      BY <1>3
    <3>2. QED
      BY <1>1, <1>2, <1>5, <2>2, <3>1
  <2>3. QED
    BY <2>1, <2>2
<1>7. InUse(new, slot)
  BY <1>1, <1>6 DEF InUse, FreesCleanly
<1>8. QED
  BY <1>4, <1>7 DEF new

(* ... and so does destroying the object in the last slot in use.          *)
LEMMA DestroyKeepsInUse ==
  ASSUME NEW list \in Seq(Node), list # <<>>, NEW slot \in Slots,
         InUse(list, slot)
  PROVE  /\ list[Len(list)][slot] # Raw
         /\ InUse([list EXCEPT ![Len(list)][slot] = Raw], slot - 1)
<1>. DEFINE L == Len(list)
            new == [list EXCEPT ![L][slot] = Raw]
<1>1. /\ L \in Nat \ {0} /\ Len(new) = L
      /\ \A n \in 1..L, s \in Slots :
           new[n][s] = IF n = L /\ s = slot THEN Raw ELSE list[n][s]
  <2>1. Raw \in Values \cup {Raw}
    OBVIOUS
  <2>2. QED
    BY <2>1, WriteFacts
<1>. HIDE DEF new
<1>2. \A n \in 1..L, s \in Slots :
        list[n][s] # Raw <=> s <= (IF n = L THEN slot ELSE N)
  BY DEF InUse, FreesCleanly
<1>3. slot \in Nat \ {0} /\ \A s \in Slots : s \in Nat
  BY StackAssumption DEF Slots
<1>4. list[L][slot] # Raw
  BY <1>1, <1>2, <1>3
<1>5. ASSUME NEW n \in 1..L, NEW s \in Slots
      PROVE  new[n][s] # Raw <=> s <= (IF n = L THEN slot - 1 ELSE N)
  <2>1. CASE n # L
    BY <1>1, <1>2, <2>1
  <2>2. CASE n = L
    <3>1. s <= slot - 1 <=> s <= slot /\ s # slot
      BY <1>3
    <3>2. QED
      BY <1>1, <1>2, <2>2, <3>1
  <2>3. QED
    BY <2>1, <2>2
<1>6. InUse(new, slot - 1)
  BY <1>1, <1>5 DEF InUse, FreesCleanly
<1>7. QED
  BY <1>4, <1>6 DEF new
-----------------------------------------------------------------------------
(* What the invariant says of the slots.                                   *)

(* The invariant in the words of the lemmas.                               *)
LEMMA Known ==
  ASSUME StackIInv
  PROVE  /\ nodes \in Seq(Node) /\ Len(nodes) \in Nat
         /\ nodes # <<>> => Len(nodes) \in Nat \ {0}
         /\ nodes = <<>> => Len(nodes) = 0 /\ current_size = N
         /\ N \in Nat \ {0} /\ Slots = 1..N /\ current_size \in 0..N
         /\ total_size \in Nat /\ N * (Len(nodes) - 1) \in Int
         /\ total_size = N * (Len(nodes) - 1) + current_size
         /\ ~fault /\ fault \in BOOLEAN /\ InUse(nodes, current_size)
<1>1. nodes \in Seq(Node) /\ total_size \in Nat /\ fault \in BOOLEAN
      /\ current_size \in 0..N
  BY DEF StackIInv, StackTypeOK, Node, N
<1>2. /\ Len(nodes) \in Nat
      /\ nodes # <<>> => Len(nodes) \in Nat \ {0}
      /\ nodes = <<>> => Len(nodes) = 0
  BY <1>1, EmptySeq, LenProperties
<1>3. N \in Nat \ {0} /\ Slots = 1..N
  BY StackAssumption DEF N, Slots
<1>4. N * (Len(nodes) - 1) \in Int
  BY <1>2, <1>3
<1>5. ~fault /\ InUse(nodes, current_size)
  BY DEF StackIInv, LifetimesPaired, InUse, N
<1>6. QED
  BY <1>1, <1>2, <1>3, <1>4, <1>5 DEF StackIInv, SizesAgree

(* A slot of the list holds an object exactly when its place is below the  *)
(* size, and every place below the size is in the list.                    *)
LEMMA Occupied ==
  ASSUME StackIInv
  PROVE  /\ \A n \in 1..Len(nodes), s \in Slots :
              nodes[n][s] # Raw <=> Place(n, s) <= total_size
         /\ \A i \in 1..total_size : NodeAt(i) \in 1..Len(nodes)
<1>. DEFINE W == Len(nodes)
<1>1. /\ W \in Nat /\ (nodes = <<>> => W = 0 /\ current_size = N)
      /\ N \in Nat \ {0} /\ Slots = 1..N /\ current_size \in 0..N
      /\ N * (W - 1) \in Int /\ total_size \in Nat
      /\ total_size = N * (W - 1) + current_size
      /\ InUse(nodes, current_size)
  BY Known
<1>. HIDE DEF W
<1>2. ASSUME W # 0, NEW n \in 1..W, NEW s \in Slots
      PROVE  nodes[n][s] # Raw <=> Place(n, s) <= total_size
  <2>1. nodes[n][s] # Raw <=> s <= (IF n = W THEN current_size ELSE N)
    BY <1>1, <1>2 DEF W, InUse, FreesCleanly
  <2>2. CASE n = W
    <3>1. Place(n, s) = N * (W - 1) + s
      BY <2>2 DEF Place
    <3>2. Place(n, s) <= total_size <=> s <= current_size
      BY <1>1, <3>1
    <3>3. QED
      BY <2>1, <2>2, <3>2
  <2>3. CASE n # W
    <3>1. W \in Nat \ {0} /\ n \in Nat \ {0} /\ n < W /\ 1 \in Slots
      BY <1>1, <1>2, <2>3
    <3>2. Place(n, s) < Place(W, 1) /\ Place(n, s) \in Nat
      BY <3>1, PlaceOrder
    <3>3. Place(W, 1) = N * (W - 1) + 1
      BY DEF Place
    <3>4. Place(n, s) <= total_size
      BY <1>1, <3>2, <3>3
    <3>5. s <= N
      BY <1>1
    <3>6. QED
      BY <2>1, <2>3, <3>4, <3>5
  <2>4. QED
    BY <2>2, <2>3
<1>3. ASSUME NEW i \in 1..total_size
      PROVE  NodeAt(i) \in 1..W
  <2>1. i \in Nat \ {0} /\ i <= total_size
    BY <1>1
  <2>2. /\ NodeAt(i) \in Nat \ {0} /\ SlotAt(i) \in Slots
        /\ Place(NodeAt(i), SlotAt(i)) = i
    BY <2>1, PlaceOf
  <2>3. W # 0
    <3>1. W = 0 => N * (W - 1) = -N
      BY <1>1
    <3>2. QED
      BY <1>1, <2>1, <3>1
  <2>4. ~(W < NodeAt(i))
    <3>1. W \in Nat \ {0} /\ N \in Slots
      BY <1>1, <2>3
    <3>2. W < NodeAt(i) => Place(W, N) < i
      BY <2>2, <3>1, PlaceOrder
    <3>3. Place(W, N) = N * (W - 1) + N
      BY DEF Place
    <3>4. ~(Place(W, N) < i)
      BY <1>1, <2>1, <3>3
    <3>5. QED
      BY <3>2, <3>4
  <2>5. QED
    BY <1>1, <2>2, <2>4
<1>4. QED
  <2>1. ASSUME NEW n \in 1..W
        PROVE  W # 0
    BY <1>1
  <2>2. QED
    BY <1>2, <1>3, <2>1 DEF W

(* Contents is the sequence of the objects, bottom first.                  *)
ContentsKnown ==
  /\ total_size \in Nat /\ Contents \in Seq(Values) /\ Len(Contents) = total_size
  /\ \A i \in 1..total_size :
       /\ NodeAt(i) \in 1..Len(nodes)
       /\ Contents[i] = nodes[NodeAt(i)][SlotAt(i)]

(* The invariant says so.                                                  *)
LEMMA ContentsFacts == StackIInv => ContentsKnown
<1>. SUFFICES ASSUME StackIInv PROVE ContentsKnown
  OBVIOUS
<1>1. total_size \in Nat /\ nodes \in Seq(Node) /\ Len(nodes) \in Nat
  BY Known
<1>2. Contents = [i \in 1..total_size |-> nodes[NodeAt(i)][SlotAt(i)]]
  BY DEF Contents, NodeAt, SlotAt, N
<1>3. ASSUME NEW i \in 1..total_size
      PROVE  NodeAt(i) \in 1..Len(nodes) /\ nodes[NodeAt(i)][SlotAt(i)] \in Values
  <2>1. i \in Nat \ {0} /\ i <= total_size
    BY <1>1
  <2>2. SlotAt(i) \in Slots /\ Place(NodeAt(i), SlotAt(i)) = i
    BY <2>1, PlaceOf
  <2>3. NodeAt(i) \in 1..Len(nodes)
    BY Occupied
  <2>4. nodes[NodeAt(i)][SlotAt(i)] # Raw
    BY <2>1, <2>2, <2>3, Occupied
  <2>5. nodes[NodeAt(i)] \in Node
    BY <1>1, <2>3, ElementOfSeq
  <2>6. QED
    BY <2>2, <2>3, <2>4, <2>5 DEF Node
<1>4. Contents \in [1..total_size -> Values]
  BY <1>2, <1>3
<1>5. Contents \in Seq(Values) /\ Len(Contents) = total_size
  BY <1>1, <1>4, FunctionIsSeq
<1>6. QED
  BY <1>1, <1>2, <1>3, <1>5 DEF ContentsKnown

(* ... after a step as before it.                                          *)
LEMMA NextContentsFacts == StackIInv' => ContentsKnown'
  BY ContentsFacts, PTL
-----------------------------------------------------------------------------
(* The operations.                                                         *)

(* The list and the slot Push() constructs in.                             *)
Grown == IF current_size = N THEN Append(nodes, RawNode) ELSE nodes
FreeSlot == IF current_size = N THEN 1 ELSE current_size + 1

(* The list Pop() is left with, and the slot it destroys.                  *)
Shrunk == IF current_size = 0 THEN Front(nodes) ELSE nodes
TopSlot == IF current_size = 0 THEN N ELSE current_size

(* The free slot is the next place.                                        *)
LEMMA FreePlace ==
  ASSUME StackIInv
  PROVE  /\ Grown \in Seq(Node) /\ Grown # <<>> /\ FreeSlot \in Slots
         /\ Len(nodes) \in Nat /\ Len(Grown) \in Nat \ {0}
         /\ Len(nodes) <= Len(Grown)
         /\ \A n \in 1..Len(nodes) : Grown[n] = nodes[n]
         /\ InUse(Grown, FreeSlot - 1)
         /\ Place(Len(Grown), FreeSlot) = total_size + 1
<1>1. /\ nodes \in Seq(Node) /\ Len(nodes) \in Nat
      /\ nodes # <<>> => Len(nodes) \in Nat \ {0}
      /\ nodes = <<>> => Len(nodes) = 0 /\ current_size = N
      /\ N \in Nat \ {0} /\ Slots = 1..N /\ current_size \in 0..N
      /\ total_size \in Nat /\ N * (Len(nodes) - 1) \in Int
      /\ total_size = N * (Len(nodes) - 1) + current_size
      /\ InUse(nodes, current_size)
  BY Known
<1>2. CASE current_size = N
  <2>1. Grown = Append(nodes, RawNode) /\ FreeSlot = 1
    BY <1>2 DEF Grown, FreeSlot
  <2>2. RawNode \in Node
    BY DEF RawNode, Node
  <2>3. /\ Grown \in Seq(Node) /\ Len(Grown) = Len(nodes) + 1
        /\ \A n \in 1..Len(nodes) : Grown[n] = nodes[n]
        /\ Grown[Len(nodes) + 1] = RawNode
    BY <1>1, <2>1, <2>2, AppendProperties
  <2>4. Grown # <<>>
    BY <1>1, <2>3, EmptySeq
  <2>5. InUse(Grown, FreeSlot - 1)
    <3>1. FreeSlot - 1 = 0
      BY <2>1
    <3>2. ASSUME NEW n \in 1..Len(nodes)
          PROVE  FreesCleanly(Grown[n], N)
      BY <1>1, <1>2, <2>3, <3>2 DEF InUse
    <3>3. FreesCleanly(RawNode, 0)
      BY <1>1 DEF FreesCleanly, RawNode
    <3>4. QED
      BY <1>1, <2>3, <3>1, <3>2, <3>3 DEF InUse
  <2>6. Place(Len(Grown), FreeSlot) = total_size + 1
    <3>1. (Len(nodes) + 1) - 1 = Len(nodes)
      BY <1>1
    <3>2. Place(Len(Grown), FreeSlot) = N * Len(nodes) + 1
      BY <2>1, <2>3, <3>1 DEF Place
    <3>3. N * (Len(nodes) - 1) + N = N * Len(nodes)
      BY <1>1
    <3>4. QED
      BY <1>1, <1>2, <3>2, <3>3
  <2>7. QED
    BY <1>1, <2>1, <2>3, <2>4, <2>5, <2>6
<1>3. CASE current_size # N
  <2>1. Grown = nodes /\ FreeSlot = current_size + 1
    BY <1>3 DEF Grown, FreeSlot
  <2>2. nodes # <<>> /\ FreeSlot \in Slots /\ FreeSlot - 1 = current_size
    BY <1>1, <1>3, <2>1
  <2>3. Place(Len(Grown), FreeSlot) = total_size + 1
    BY <1>1, <2>1 DEF Place
  <2>4. QED
    BY <1>1, <2>1, <2>2, <2>3
<1>4. QED
  BY <1>2, <1>3

(* The slot of a pop is the last place, and a freed node holds nothing.    *)
LEMMA TopPlace ==
  ASSUME StackIInv, ~empty
  PROVE  /\ nodes # <<>> /\ total_size \in Nat \ {0}
         /\ Shrunk \in Seq(Node) /\ Shrunk # <<>> /\ TopSlot \in Slots
         /\ Len(nodes) \in Nat \ {0} /\ Len(Shrunk) \in Nat \ {0}
         /\ Len(Shrunk) <= Len(nodes)
         /\ current_size = 0 => Len(Shrunk) = Len(nodes) - 1
         /\ \A n \in 1..Len(Shrunk) : Shrunk[n] = nodes[n]
         /\ InUse(Shrunk, TopSlot)
         /\ Place(Len(Shrunk), TopSlot) = total_size
         /\ current_size = 0 => FreesCleanly(Last(nodes), 0)
<1>1. /\ nodes \in Seq(Node) /\ Len(nodes) \in Nat
      /\ nodes # <<>> => Len(nodes) \in Nat \ {0}
      /\ nodes = <<>> => Len(nodes) = 0 /\ current_size = N
      /\ N \in Nat \ {0} /\ Slots = 1..N /\ current_size \in 0..N
      /\ total_size \in Nat /\ N * (Len(nodes) - 1) \in Int
      /\ total_size = N * (Len(nodes) - 1) + current_size
      /\ InUse(nodes, current_size)
  BY Known
<1>2. total_size \in Nat \ {0}
  BY <1>1 DEF empty
<1>3. nodes # <<>>
  <2>1. Len(nodes) = 0 => N * (Len(nodes) - 1) = -N
    BY <1>1
  <2>2. QED
    BY <1>1, <1>2, <2>1
<1>4. CASE current_size = 0
  <2>1. Shrunk = Front(nodes) /\ TopSlot = N
    BY <1>4 DEF Shrunk, TopSlot
  <2>2. /\ Shrunk \in Seq(Node) /\ Len(Shrunk) = Len(nodes) - 1
        /\ \A n \in 1..Len(nodes) - 1 : Shrunk[n] = nodes[n]
    BY <1>1, <1>3, <2>1, FrontFacts
  <2>3. Len(Shrunk) \in Nat \ {0}
    <3>1. Len(nodes) = 1 => N * (Len(nodes) - 1) = 0
      BY <1>1
    <3>2. Len(nodes) # 1
      BY <1>1, <1>2, <1>4, <3>1
    <3>3. QED
      BY <1>1, <1>3, <2>2, <3>2
  <2>4. Shrunk # <<>>
    BY <2>3, EmptySeq
  <2>5. InUse(Shrunk, TopSlot)
    <3>1. ASSUME NEW n \in 1..Len(Shrunk)
          PROVE  FreesCleanly(Shrunk[n], N)
      <4>1. n \in 1..Len(nodes) /\ n # Len(nodes) /\ Shrunk[n] = nodes[n]
        BY <1>1, <1>3, <2>2
      <4>2. QED
        BY <1>1, <4>1 DEF InUse
    <3>2. QED
      BY <2>1, <3>1 DEF InUse
  <2>6. Place(Len(Shrunk), TopSlot) = total_size
    <3>1. Place(Len(Shrunk), TopSlot) = N * (Len(Shrunk) - 1) + N
      BY <2>1 DEF Place
    <3>2. N * (Len(Shrunk) - 1) + N = N * Len(Shrunk)
      BY <1>1, <2>3
    <3>3. QED
      BY <1>1, <1>4, <2>2, <3>1, <3>2
  <2>7. FreesCleanly(Last(nodes), 0)
    BY <1>1, <1>3, <1>4 DEF InUse, Last
  <2>8. QED
    BY <1>1, <1>2, <1>3, <2>1, <2>2, <2>3, <2>4, <2>5, <2>6, <2>7
<1>5. CASE current_size # 0
  <2>1. Shrunk = nodes /\ TopSlot = current_size
    BY <1>5 DEF Shrunk, TopSlot
  <2>2. TopSlot \in Slots /\ Place(Len(Shrunk), TopSlot) = total_size
    BY <1>1, <1>5, <2>1 DEF Place
  <2>3. QED
    BY <1>1, <1>2, <1>3, <1>5, <2>1, <2>2
<1>6. QED
  BY <1>4, <1>5

(* The invariant holds of a list whose last slot in use is the size.       *)
LEMMA AfterOperation ==
  ASSUME nodes' \in Seq(Node), nodes' # <<>>, current_size' \in 0..N,
         total_size' \in Nat, ~fault', fault' \in BOOLEAN,
         total_size' = N * (Len(nodes') - 1) + current_size',
         InUse(nodes', current_size')
  PROVE  StackIInv'
<1>1. StackTypeOK'
  BY DEF StackTypeOK, Node, Slots, N
<1>2. SizesAgree'
  BY DEF SizesAgree, N
<1>3. LifetimesPaired'
  BY DEF LifetimesPaired, InUse, FreesCleanly, Slots, N
<1>4. QED
  BY <1>1, <1>2, <1>3 DEF StackIInv

(* Push() constructs the new object in raw storage.                        *)
LEMMA PushKeepsInvariant ==
  ASSUME StackIInv, NEW v \in Values, Push(v)
  PROVE  /\ StackIInv' /\ total_size' = total_size + 1
         /\ nodes' = [Grown EXCEPT ![Len(Grown)][FreeSlot] = v]
<1>1. /\ nodes' = [Grown EXCEPT ![Len(Grown)][FreeSlot] = v]
      /\ current_size' = FreeSlot
      /\ total_size' = total_size + 1
      /\ fault' = (fault \/ Grown[Len(Grown)][FreeSlot] # Raw)
  BY DEF Push, Grown, FreeSlot, N
<1>2. /\ Grown \in Seq(Node) /\ Grown # <<>> /\ FreeSlot \in Slots
      /\ InUse(Grown, FreeSlot - 1)
      /\ Place(Len(Grown), FreeSlot) = total_size + 1
  BY FreePlace
<1>3. v \in Values \cup {Raw}
  OBVIOUS
<1>4. nodes' \in Seq(Node) /\ Len(nodes') = Len(Grown) /\ Len(Grown) \in Nat \ {0}
  BY <1>1, <1>2, <1>3, WriteFacts
<1>5. nodes' # <<>>
  BY <1>4, EmptySeq
<1>6. Grown[Len(Grown)][FreeSlot] = Raw /\ InUse(nodes', FreeSlot)
  BY <1>1, <1>2, StoreKeepsInUse
<1>7. ~fault' /\ fault' \in BOOLEAN /\ total_size' \in Nat
      /\ current_size' \in 0..N
  BY <1>1, <1>2, <1>6, Known
<1>8. total_size' = N * (Len(nodes') - 1) + current_size'
  BY <1>1, <1>2, <1>4 DEF Place
<1>9. QED
  BY <1>1, <1>4, <1>5, <1>6, <1>7, <1>8, AfterOperation

(* Pop() destroys the top object, and frees an empty head.                 *)
LEMMA PopKeepsInvariant ==
  ASSUME StackIInv, Pop
  PROVE  /\ StackIInv' /\ total_size' = total_size - 1
         /\ nodes' = [Shrunk EXCEPT ![Len(Shrunk)][TopSlot] = Raw]
<1>1. /\ ~empty
      /\ nodes' = [Shrunk EXCEPT ![Len(Shrunk)][TopSlot] = Raw]
      /\ current_size' = TopSlot - 1
      /\ total_size' = total_size - 1
      /\ fault' = (fault \/ Shrunk[Len(Shrunk)][TopSlot] = Raw
                         \/ (current_size = 0 /\ ~FreesCleanly(Last(nodes), 0)))
  BY DEF Pop, Shrunk, TopSlot, N
<1>2. /\ Shrunk \in Seq(Node) /\ Shrunk # <<>> /\ TopSlot \in Slots
      /\ InUse(Shrunk, TopSlot) /\ total_size \in Nat \ {0}
      /\ Place(Len(Shrunk), TopSlot) = total_size
      /\ current_size = 0 => FreesCleanly(Last(nodes), 0)
  BY <1>1, TopPlace
<1>3. Raw \in Values \cup {Raw}
  OBVIOUS
<1>4. nodes' \in Seq(Node) /\ Len(nodes') = Len(Shrunk) /\ Len(Shrunk) \in Nat \ {0}
  BY <1>1, <1>2, <1>3, WriteFacts
<1>5. nodes' # <<>>
  BY <1>4, EmptySeq
<1>6. Shrunk[Len(Shrunk)][TopSlot] # Raw /\ InUse(nodes', TopSlot - 1)
  BY <1>1, <1>2, DestroyKeepsInUse
<1>7. ~fault' /\ fault' \in BOOLEAN
  BY <1>1, <1>2, <1>6, Known
<1>8. total_size' \in Nat /\ current_size' \in 0..N
  BY <1>1, <1>2, Known
<1>9. total_size' = N * (Len(nodes') - 1) + current_size'
  <2>1. N * (Len(Shrunk) - 1) \in Int /\ TopSlot \in Nat
    BY <1>2, <1>4, Known
  <2>2. total_size = N * (Len(Shrunk) - 1) + TopSlot
    BY <1>2 DEF Place
  <2>3. QED
    BY <1>1, <1>4, <2>1, <2>2
<1>10. QED
  BY <1>1, <1>4, <1>5, <1>6, <1>7, <1>8, <1>9, AfterOperation

(* Clear() on an empty stack frees nodes without objects.                  *)
LEMMA ClearKeepsInvariant ==
  ASSUME StackIInv, empty, Clear
  PROVE  StackIInv' /\ total_size' = 0 /\ total_size = 0
<1>1. nodes' = <<>> /\ current_size' = N /\ total_size' = 0 /\ total_size = 0
  BY DEF Clear, empty, N
<1>2. ~fault' /\ fault' \in BOOLEAN
  BY Known DEF Clear, InUse, N
<1>3. Len(<<>>) = 0 /\ <<>> \in Seq([Slots -> Values \cup {Raw}])
  BY EmptySeq
<1>4. StackTypeOK'
  BY <1>1, <1>2, <1>3, Known DEF StackTypeOK, Slots, N
<1>5. SizesAgree'
  <2>1. N * (0 - 1) + N = 0
    BY Known
  <2>2. QED
    BY <1>1, <1>3, <2>1 DEF SizesAgree, N
<1>6. LifetimesPaired'
  BY <1>1, <1>2, <1>3 DEF LifetimesPaired
<1>7. QED
  BY <1>1, <1>4, <1>5, <1>6 DEF StackIInv
-----------------------------------------------------------------------------
(* What the operations do to the contents.                                 *)

(* Push() adds the object on top.                                          *)
LEMMA PushIsPush ==
  ASSUME StackIInv, NEW v \in Values, Push(v)
  PROVE  Contents' = Append(Contents, v)
<1>. DEFINE T == total_size
            new == [Grown EXCEPT ![Len(Grown)][FreeSlot] = v]
<1>1. StackIInv' /\ total_size' = T + 1 /\ nodes' = new
  BY PushKeepsInvariant
<1>2. /\ T \in Nat /\ Contents \in Seq(Values) /\ Len(Contents) = T
      /\ \A i \in 1..T : /\ NodeAt(i) \in 1..Len(nodes)
                         /\ Contents[i] = nodes[NodeAt(i)][SlotAt(i)]
  BY ContentsFacts DEF ContentsKnown
<1>3. /\ Contents' \in Seq(Values) /\ Len(Contents') = T + 1
      /\ \A i \in 1..T + 1 : Contents'[i] = new[NodeAt(i)][SlotAt(i)]
  BY <1>1, NextContentsFacts DEF ContentsKnown, NodeAt, SlotAt, N
<1>4. /\ Grown \in Seq(Node) /\ Grown # <<>> /\ FreeSlot \in Slots
      /\ Len(nodes) \in Nat /\ Len(Grown) \in Nat \ {0}
      /\ Len(nodes) <= Len(Grown)
      /\ \A n \in 1..Len(nodes) : Grown[n] = nodes[n]
      /\ Place(Len(Grown), FreeSlot) = T + 1
  BY FreePlace
<1>5. \A n \in 1..Len(Grown), s \in Slots :
        new[n][s] = IF n = Len(Grown) /\ s = FreeSlot THEN v ELSE Grown[n][s]
  <2>1. v \in Values \cup {Raw}
    OBVIOUS
  <2>2. Grown \in Seq(Node) /\ Grown # <<>> /\ FreeSlot \in Slots
    BY <1>4
  <2>3. QED
    BY <2>1, <2>2, WriteFacts
<1>6. \A i \in 1..T + 1 : /\ i \in Nat \ {0}
                          /\ NodeAt(i) \in Nat \ {0} /\ SlotAt(i) \in Slots
                          /\ Place(NodeAt(i), SlotAt(i)) = i
  <2>1. \A i \in 1..T + 1 : i \in Nat \ {0}
    BY <1>2
  <2>2. QED
    BY <2>1, PlaceOf
<1>. HIDE DEF new, T
<1>7. ASSUME NEW i \in 1..T
      PROVE  Contents'[i] = Append(Contents, v)[i]
  <2>1. i \in 1..T + 1 /\ i # T + 1
    BY <1>2
  <2>2. ~(NodeAt(i) = Len(Grown) /\ SlotAt(i) = FreeSlot)
    BY <1>4, <1>6, <2>1
  <2>3. NodeAt(i) \in 1..Len(Grown) /\ NodeAt(i) \in 1..Len(nodes)
    BY <1>2, <1>4, <1>6, <2>1
  <2>4. new[NodeAt(i)][SlotAt(i)] = nodes[NodeAt(i)][SlotAt(i)]
    BY <1>4, <1>5, <1>6, <2>1, <2>2, <2>3
  <2>5. Append(Contents, v)[i] = Contents[i]
    BY <1>2, AppendProperties
  <2>6. QED
    BY <1>2, <1>3, <2>1, <2>4, <2>5
<1>8. Contents'[T + 1] = v
  <2>1. T + 1 \in 1..T + 1
    BY <1>2
  <2>2. NodeAt(T + 1) = Len(Grown) /\ SlotAt(T + 1) = FreeSlot
    BY <1>4, <1>6, <2>1, PlaceOrder
  <2>3. Len(Grown) \in 1..Len(Grown)
    BY <1>4
  <2>4. QED
    BY <1>3, <1>4, <1>5, <2>1, <2>2, <2>3
<1>9. /\ Append(Contents, v) \in Seq(Values)
      /\ Len(Append(Contents, v)) = T + 1
      /\ Append(Contents, v)[T + 1] = v
  BY <1>2, AppendProperties
<1>10. \A i \in 1..T + 1 : i \in 1..T \/ i = T + 1
  BY <1>2
<1>11. \A i \in 1..T + 1 : Contents'[i] = Append(Contents, v)[i]
  BY <1>7, <1>8, <1>9, <1>10
<1>12. QED
  BY <1>3, <1>9, <1>11, SeqEqual

(* Pop() takes the top object away.                                        *)
LEMMA PopIsPop ==
  ASSUME StackIInv, Pop
  PROVE  Contents # <<>> /\ Contents' = Front(Contents)
<1>. DEFINE T == total_size
            new == [Shrunk EXCEPT ![Len(Shrunk)][TopSlot] = Raw]
<1>1. StackIInv' /\ total_size' = T - 1 /\ nodes' = new
  BY PopKeepsInvariant
<1>2. /\ T \in Nat /\ Contents \in Seq(Values) /\ Len(Contents) = T
      /\ \A i \in 1..T : /\ NodeAt(i) \in 1..Len(nodes)
                         /\ Contents[i] = nodes[NodeAt(i)][SlotAt(i)]
  BY ContentsFacts DEF ContentsKnown
<1>3. /\ Contents' \in Seq(Values) /\ Len(Contents') = T - 1
      /\ \A i \in 1..T - 1 : /\ NodeAt(i) \in 1..Len(new)
                             /\ Contents'[i] = new[NodeAt(i)][SlotAt(i)]
  BY <1>1, NextContentsFacts DEF ContentsKnown, NodeAt, SlotAt, N
<1>4. /\ Shrunk \in Seq(Node) /\ Shrunk # <<>> /\ TopSlot \in Slots
      /\ Len(Shrunk) \in Nat \ {0} /\ T \in Nat \ {0}
      /\ \A n \in 1..Len(Shrunk) : Shrunk[n] = nodes[n]
      /\ Place(Len(Shrunk), TopSlot) = T
  BY TopPlace DEF Pop
<1>5. /\ Len(new) = Len(Shrunk)
      /\ \A n \in 1..Len(Shrunk), s \in Slots :
           new[n][s] = IF n = Len(Shrunk) /\ s = TopSlot THEN Raw ELSE Shrunk[n][s]
  <2>1. Raw \in Values \cup {Raw}
    OBVIOUS
  <2>2. Shrunk \in Seq(Node) /\ Shrunk # <<>> /\ TopSlot \in Slots
    BY <1>4
  <2>3. QED
    BY <2>1, <2>2, WriteFacts
<1>. HIDE DEF new, T
<1>6. ASSUME NEW i \in 1..T - 1
      PROVE  Contents'[i] = Contents[i]
  <2>1. i \in Nat \ {0} /\ i \in 1..T /\ i # T
    BY <1>4
  <2>2. SlotAt(i) \in Slots /\ Place(NodeAt(i), SlotAt(i)) = i
    BY <2>1, PlaceOf
  <2>3. ~(NodeAt(i) = Len(Shrunk) /\ SlotAt(i) = TopSlot)
    BY <1>4, <2>1, <2>2
  <2>4. new[NodeAt(i)][SlotAt(i)] = nodes[NodeAt(i)][SlotAt(i)]
    BY <1>3, <1>4, <1>5, <2>2, <2>3
  <2>5. QED
    BY <1>2, <1>3, <2>1, <2>4
<1>7. Contents # <<>>
  BY <1>2, <1>4, EmptySeq
<1>8. /\ Front(Contents) \in Seq(Values) /\ Len(Front(Contents)) = T - 1
      /\ \A i \in 1..T - 1 : Front(Contents)[i] = Contents[i]
  BY <1>2, <1>7, FrontFacts
<1>9. \A i \in 1..T - 1 : Contents'[i] = Front(Contents)[i]
  BY <1>6, <1>8
<1>10. QED
  BY <1>3, <1>7, <1>8, <1>9, SeqEqual
-----------------------------------------------------------------------------
(* The theorems.                                                           *)

(* The initial states.                                                     *)
LEMMA StackInitInvariant == StackInit => StackIInv /\ Contents = <<>>
<1>. SUFFICES ASSUME StackInit PROVE StackIInv /\ Contents = <<>>
  OBVIOUS
<1>1. nodes = <<>> /\ current_size = N /\ total_size = 0 /\ fault = FALSE
  BY DEF StackInit, N
<1>2. Len(<<>>) = 0 /\ <<>> \in Seq([Slots -> Values \cup {Raw}])
  BY EmptySeq
<1>3. N \in Nat \ {0} /\ N * (0 - 1) + N = 0
  BY StackAssumption DEF N
<1>4. StackTypeOK
  <2>1. N \in 0..N
    BY <1>3
  <2>2. QED
    BY <1>1, <1>2, <2>1 DEF StackTypeOK, N
<1>5. SizesAgree
  BY <1>1, <1>2, <1>3 DEF SizesAgree
<1>6. LifetimesPaired
  BY <1>1, <1>2 DEF LifetimesPaired
<1>7. StackIInv
  BY <1>4, <1>5, <1>6 DEF StackIInv
<1>8. Contents = <<>>
  BY <1>1, <1>7, ContentsFacts, EmptySeq DEF ContentsKnown
<1>9. QED
  BY <1>7, <1>8

(* Every step keeps the invariant and is a step of Lifo on the contents.   *)
LEMMA StepRefines ==
  StackIInv /\ [UsedNext]_stackVars => StackIInv' /\ [Abstract!Next]_Contents
<1>. SUFFICES ASSUME StackIInv, [UsedNext]_stackVars
              PROVE  StackIInv' /\ [Abstract!Next]_Contents
  OBVIOUS
<1>1. ASSUME NEW v \in Values, Push(v)
      PROVE  StackIInv' /\ [Abstract!Next]_Contents
  <2>1. Contents' = Append(Contents, v)
    BY <1>1, PushIsPush
  <2>2. QED
    BY <1>1, <2>1, PushKeepsInvariant DEF Abstract!Next, Abstract!Push
<1>2. CASE Pop
  <2>1. Contents # <<>> /\ Contents' = Front(Contents)
    BY <1>2, PopIsPop
  <2>2. QED
    BY <1>2, <2>1, PopKeepsInvariant
       DEF Abstract!Next, Abstract!Pop, Abstract!Front, Front
<1>3. CASE empty /\ Clear
  <2>1. StackIInv' /\ total_size' = 0
    BY <1>3, ClearKeepsInvariant
  <2>2. Contents' = <<>>
    BY <2>1, NextContentsFacts, EmptySeq DEF ContentsKnown
  <2>3. QED
    BY <2>1, <2>2 DEF Abstract!Next, Abstract!Clear
<1>4. CASE UNCHANGED stackVars
  BY <1>4 DEF stackVars, StackIInv, StackTypeOK, SizesAgree, LifetimesPaired, Contents
<1>5. QED
  BY <1>1, <1>2, <1>3, <1>4 DEF UsedNext

(* When the stack is not empty, the slot top() returns is the last place.  *)
LEMMA TopFacts ==
  ASSUME StackIInv, ~empty
  PROVE  nodes # <<>> /\ top_slot = Last(Contents) /\ top_slot # Raw
<1>1. /\ nodes # <<>> /\ total_size \in Nat \ {0} /\ TopSlot \in Slots
      /\ Len(nodes) \in Nat \ {0} /\ Len(Shrunk) \in Nat \ {0}
      /\ Len(Shrunk) <= Len(nodes)
      /\ current_size = 0 => Len(Shrunk) = Len(nodes) - 1
      /\ \A n \in 1..Len(Shrunk) : Shrunk[n] = nodes[n]
      /\ Place(Len(Shrunk), TopSlot) = total_size
  BY TopPlace
<1>2. /\ Contents \in Seq(Values) /\ Len(Contents) = total_size
      /\ \A i \in 1..total_size :
           /\ NodeAt(i) \in 1..Len(nodes)
           /\ Contents[i] = nodes[NodeAt(i)][SlotAt(i)]
  BY ContentsFacts DEF ContentsKnown
<1>3. total_size \in 1..total_size
  BY <1>1
<1>4. NodeAt(total_size) = Len(Shrunk) /\ SlotAt(total_size) = TopSlot
  <2>1. /\ NodeAt(total_size) \in Nat \ {0} /\ SlotAt(total_size) \in Slots
        /\ Place(NodeAt(total_size), SlotAt(total_size)) = total_size
    BY <1>1, PlaceOf
  <2>2. Place(NodeAt(total_size), SlotAt(total_size)) = Place(Len(Shrunk), TopSlot)
    BY <1>1, <2>1
  <2>3. QED
    BY <1>1, <2>1, <2>2, PlaceOrder
<1>5. Last(Contents) = nodes[Len(Shrunk)][TopSlot] /\ Last(Contents) \in Values
  BY <1>2, <1>3, <1>4, ElementOfSeq DEF Last
<1>6. top_slot = nodes[Len(Shrunk)][TopSlot]
  <2>1. current_size \in Nat
    BY Known
  <2>2. CASE current_size = 0
    BY <1>1, <2>2 DEF top_slot, TopSlot, N
  <2>3. CASE current_size # 0
    BY <2>1, <2>3 DEF top_slot, TopSlot, Shrunk, Last
  <2>4. QED
    BY <2>2, <2>3
<1>7. QED
  BY <1>1, <1>5, <1>6, StackAssumption

(* The variables keep their types.                                         *)
THEOREM StackTypeCorrect == UsedSpec => []StackTypeOK
<1>1. StackIInv => StackTypeOK
  BY DEF StackIInv
<1>2. QED
  BY StackInitInvariant, StepRefines, <1>1, PTL DEF UsedSpec

(* Every object is constructed in raw storage and destroyed once, and no   *)
(* node is freed with an object in it.                                     *)
THEOREM Lifetimes == UsedSpec => []LifetimesPaired
<1>1. StackIInv => LifetimesPaired
  BY DEF StackIInv
<1>2. QED
  BY StackInitInvariant, StepRefines, <1>1, PTL DEF UsedSpec

(* The assertion that the stack is not empty is enough for top() and       *)
(* pop() to find an object.                                                *)
THEOREM AssertIsEnough == UsedSpec => []AssertProtects
<1>1. StackIInv => AssertProtects
  BY TopFacts DEF AssertProtects
<1>2. QED
  BY StackInitInvariant, StepRefines, <1>1, PTL DEF UsedSpec

(* top() returns the object pushed last and not popped since.              *)
THEOREM TopIsTop == UsedSpec => []TopIsLast
<1>1. StackIInv => TopIsLast
  BY TopFacts DEF TopIsLast
<1>2. QED
  BY StackInitInvariant, StepRefines, <1>1, PTL DEF UsedSpec

(* The linked nodes implement std::stack, whatever the node size.          *)
THEOREM ImplementsStack == UsedSpec => ImplementsLifo
<1>1. StackInit => Abstract!Init
  BY StackInitInvariant DEF Abstract!Init
<1>2. QED
  BY StackInitInvariant, StepRefines, <1>1, PTL DEF UsedSpec, ImplementsLifo, Abstract!Spec
-----------------------------------------------------------------------------
(***************************************************************************)
(* For every width of the machine integers: a scalar handler stores the    *)
(* number it was given, refuses a number for its size exactly when its     *)
(* type cannot hold it, and never changes the value when it refuses.       *)
(***************************************************************************)

ScalarInv == ScalarTypeOK /\ Exact /\ RangeErrorIsReal

(* The remainder of a number that is small enough is the number.           *)
LEMMA SmallRemainder ==
  ASSUME NEW m \in Nat \ {0}, NEW x \in 0 .. m - 1
  PROVE  x % m = x
  BY SMT

(* static_cast does not change a number the target type can hold.          *)
LEMMA Narrowing ==
  ASSUME NEW half \in Nat \ {0}
  PROVE  /\ \A n \in Signed(half) : ToSigned(n, half) = n
         /\ \A n \in Unsigned(half) : ToUnsigned(n, half) = n
<1>1. ASSUME NEW n \in Signed(half)
      PROVE  ToSigned(n, half) = n
  <2>1. n + half \in 0 .. 2 * half - 1 /\ 2 * half \in Nat \ {0}
    BY DEF Signed
  <2>2. (n + half) % (2 * half) = n + half
    BY <2>1, SmallRemainder
  <2>3. QED
    BY <2>2 DEF ToSigned, Signed
<1>2. ASSUME NEW n \in Unsigned(half)
      PROVE  ToUnsigned(n, half) = n
  <2>1. n \in 0 .. 2 * half - 1 /\ 2 * half \in Nat \ {0}
    BY DEF Unsigned
  <2>2. QED
    BY <2>1, SmallRemainder DEF ToUnsigned
<1>3. QED
  BY <1>1, <1>2

(* The payload of an integer event is an integer of the event's width.     *)
LEMMA PayloadIsInteger ==
  ASSUME NEW type \in EventTypes, NEW v \in Payload[type]
  PROVE  /\ v \in Int
         /\ type = "Int" => v \in Signed(HalfInt)
         /\ type = "Uint" => v \in Unsigned(HalfInt)
         /\ type = "Int64" => v \in Signed(HalfInt64)
         /\ type = "Uint64" => v \in Unsigned(HalfInt64)
         /\ type \in {"Null", "Bool", "String"} => v \in {0, 1}
  BY WidthAssumption DEF EventTypes, Payload, Signed, Unsigned
-----------------------------------------------------------------------------

(* What one event may do to a value whose type holds the numbers of range. *)
Contract(type, v, range) ==
  /\ scalar_error' \in ScalarErrors
  /\ scalar_error' = "none" => m_value' = v /\ v \in range
  /\ scalar_error' # "none" => m_value' = m_value
  /\ type \in IntegerEvents =>
       (scalar_error' = "NUMBER_OUT_OF_RANGE" <=> v \notin range)

(* Two ways a handler ends, with what it must know of the number.          *)
LEMMA Stored ==
  ASSUME NEW type, NEW v, NEW range, v \in range, store(v)
  PROVE  Contract(type, v, range)
  BY DEF store, Contract, ScalarErrors

(* ... and with a type mismatch, without looking at the number.            *)
LEMMA Refused ==
  ASSUME NEW type, NEW v, NEW range, type \notin IntegerEvents, set_type_mismatch
  PROVE  Contract(type, v, range)
  BY DEF set_type_mismatch, Contract, ScalarErrors

(* The handler of int meets the contract with int's numbers.               *)
LEMMA IntContract ==
  ASSUME NEW type \in EventTypes, NEW v \in Payload[type], handler_int(type, v)
  PROVE  Contract(type, v, Signed(HalfInt))
<1>. DEFINE range == Signed(HalfInt)
<1>. SUFFICES Contract(type, v, range)
  OBVIOUS
<1>1. v \in Int
  BY PayloadIsInteger
<1>2. CASE type = "Int" /\ store(v)
  <2>1. v \in range
    BY <1>2, PayloadIsInteger, WidthAssumption DEF Signed, Unsigned, IntMax, IntMin, UintMax, Int64Max
  <2>2. QED
    BY <1>2, <2>1, Stored
<1>3. CASE type = "Uint" /\ checked(~(v > IntMax), ToSigned(v, HalfInt))
  <2>1. ~(v > IntMax) <=> v \in range
    BY <1>3, PayloadIsInteger, WidthAssumption DEF Signed, Unsigned, IntMax, IntMin, UintMax, Int64Max
  <2>2. v \in range => ToSigned(v, HalfInt) = v
    BY Narrowing, WidthAssumption DEF ToDouble
  <2>. HIDE DEF range
  <2>3. QED
    BY <1>3, <2>1, <2>2
    DEF checked, store, set_out_of_range, Contract, ScalarErrors
<1>4. CASE type = "Int64" /\ checked(~(v > IntMax \/ v < IntMin), ToSigned(v, HalfInt))
  <2>1. ~(v > IntMax \/ v < IntMin) <=> v \in range
    BY <1>4, PayloadIsInteger, WidthAssumption DEF Signed, Unsigned, IntMax, IntMin, UintMax, Int64Max
  <2>2. v \in range => ToSigned(v, HalfInt) = v
    BY Narrowing, WidthAssumption DEF ToDouble
  <2>. HIDE DEF range
  <2>3. QED
    BY <1>4, <2>1, <2>2
    DEF checked, store, set_out_of_range, Contract, ScalarErrors
<1>5. CASE type = "Uint64" /\ checked(~(v > IntMax), ToSigned(v, HalfInt))
  <2>1. ~(v > IntMax) <=> v \in range
    BY <1>5, PayloadIsInteger, WidthAssumption DEF Signed, Unsigned, IntMax, IntMin, UintMax, Int64Max
  <2>2. v \in range => ToSigned(v, HalfInt) = v
    BY Narrowing, WidthAssumption DEF ToDouble
  <2>. HIDE DEF range
  <2>3. QED
    BY <1>5, <2>1, <2>2
    DEF checked, store, set_out_of_range, Contract, ScalarErrors
<1>6. CASE type \notin IntegerEvents /\ set_type_mismatch
  BY <1>6, Refused
<1>7. QED
  BY <1>2, <1>3, <1>4, <1>5, <1>6 DEF handler_int

(* The handler of unsigned meets it with the unsigned numbers.             *)
LEMMA UnsignedContract ==
  ASSUME NEW type \in EventTypes, NEW v \in Payload[type], handler_unsigned(type, v)
  PROVE  Contract(type, v, Unsigned(HalfInt))
<1>. DEFINE range == Unsigned(HalfInt)
<1>. SUFFICES Contract(type, v, range)
  OBVIOUS
<1>1. v \in Int
  BY PayloadIsInteger
<1>2. CASE type = "Int" /\ checked(~(v < 0), ToUnsigned(v, HalfInt))
  <2>1. ~(v < 0) <=> v \in range
    BY <1>2, PayloadIsInteger, WidthAssumption DEF Signed, Unsigned, IntMax, IntMin, UintMax, Int64Max
  <2>2. v \in range => ToUnsigned(v, HalfInt) = v
    BY Narrowing, WidthAssumption DEF ToDouble
  <2>. HIDE DEF range
  <2>3. QED
    BY <1>2, <2>1, <2>2
    DEF checked, store, set_out_of_range, Contract, ScalarErrors
<1>3. CASE type = "Uint" /\ store(v)
  <2>1. v \in range
    BY <1>3, PayloadIsInteger, WidthAssumption DEF Signed, Unsigned, IntMax, IntMin, UintMax, Int64Max
  <2>2. QED
    BY <1>3, <2>1, Stored
<1>4. CASE type = "Int64" /\ checked(~(v < 0 \/ v > UintMax), ToUnsigned(v, HalfInt))
  <2>1. ~(v < 0 \/ v > UintMax) <=> v \in range
    BY <1>4, PayloadIsInteger, WidthAssumption DEF Signed, Unsigned, IntMax, IntMin, UintMax, Int64Max
  <2>2. v \in range => ToUnsigned(v, HalfInt) = v
    BY Narrowing, WidthAssumption DEF ToDouble
  <2>. HIDE DEF range
  <2>3. QED
    BY <1>4, <2>1, <2>2
    DEF checked, store, set_out_of_range, Contract, ScalarErrors
<1>5. CASE type = "Uint64" /\ checked(~(v > UintMax), ToUnsigned(v, HalfInt))
  <2>1. ~(v > UintMax) <=> v \in range
    BY <1>5, PayloadIsInteger, WidthAssumption DEF Signed, Unsigned, IntMax, IntMin, UintMax, Int64Max
  <2>2. v \in range => ToUnsigned(v, HalfInt) = v
    BY Narrowing, WidthAssumption DEF ToDouble
  <2>. HIDE DEF range
  <2>3. QED
    BY <1>5, <2>1, <2>2
    DEF checked, store, set_out_of_range, Contract, ScalarErrors
<1>6. CASE type \notin IntegerEvents /\ set_type_mismatch
  BY <1>6, Refused
<1>7. QED
  BY <1>2, <1>3, <1>4, <1>5, <1>6 DEF handler_unsigned

(* The handler of int64_t meets it with the signed 64-bit numbers.         *)
LEMMA Int64Contract ==
  ASSUME NEW type \in EventTypes, NEW v \in Payload[type], handler_int64_t(type, v)
  PROVE  Contract(type, v, Signed(HalfInt64))
<1>. DEFINE range == Signed(HalfInt64)
<1>. SUFFICES Contract(type, v, range)
  OBVIOUS
<1>1. v \in Int
  BY PayloadIsInteger
<1>2. CASE type \in {"Int", "Uint", "Int64"} /\ store(v)
  <2>1. v \in range
    BY <1>2, PayloadIsInteger, WidthAssumption DEF Signed, Unsigned, IntMax, IntMin, UintMax, Int64Max
  <2>2. QED
    BY <1>2, <2>1, Stored
<1>3. CASE type = "Uint64" /\ checked(~(v > Int64Max), ToSigned(v, HalfInt64))
  <2>1. ~(v > Int64Max) <=> v \in range
    BY <1>3, PayloadIsInteger, WidthAssumption DEF Signed, Unsigned, IntMax, IntMin, UintMax, Int64Max
  <2>2. v \in range => ToSigned(v, HalfInt64) = v
    BY Narrowing, WidthAssumption DEF ToDouble
  <2>. HIDE DEF range
  <2>3. QED
    BY <1>3, <2>1, <2>2
    DEF checked, store, set_out_of_range, Contract, ScalarErrors
<1>4. CASE type \notin IntegerEvents /\ set_type_mismatch
  BY <1>4, Refused
<1>5. QED
  BY <1>2, <1>3, <1>4 DEF handler_int64_t

(* The handler of uint64_t meets it with the unsigned 64-bit numbers.      *)
LEMMA Uint64Contract ==
  ASSUME NEW type \in EventTypes, NEW v \in Payload[type], handler_uint64_t(type, v)
  PROVE  Contract(type, v, Unsigned(HalfInt64))
<1>. DEFINE range == Unsigned(HalfInt64)
<1>. SUFFICES Contract(type, v, range)
  OBVIOUS
<1>1. v \in Int
  BY PayloadIsInteger
<1>2. CASE type \in {"Int", "Int64"} /\ checked(~(v < 0), ToUnsigned(v, HalfInt64))
  <2>1. ~(v < 0) <=> v \in range
    BY <1>2, PayloadIsInteger, WidthAssumption DEF Signed, Unsigned, IntMax, IntMin, UintMax, Int64Max
  <2>2. v \in range => ToUnsigned(v, HalfInt64) = v
    BY Narrowing, WidthAssumption DEF ToDouble
  <2>. HIDE DEF range
  <2>3. QED
    BY <1>2, <2>1, <2>2
    DEF checked, store, set_out_of_range, Contract, ScalarErrors
<1>3. CASE type \in {"Uint", "Uint64"} /\ store(v)
  <2>1. v \in range
    BY <1>3, PayloadIsInteger, WidthAssumption DEF Signed, Unsigned, IntMax, IntMin, UintMax, Int64Max
  <2>2. QED
    BY <1>3, <2>1, Stored
<1>4. CASE type \notin IntegerEvents /\ set_type_mismatch
  BY <1>4, Refused
<1>5. QED
  BY <1>2, <1>3, <1>4 DEF handler_uint64_t

(* The handler of double meets it with the integers a double holds exactly.*)
LEMMA DoubleContract ==
  ASSUME NEW type \in EventTypes, NEW v \in Payload[type], handler_double(type, v)
  PROVE  Contract(type, v, (-Threshold .. Threshold))
<1>. DEFINE range == (-Threshold .. Threshold)
<1>. SUFFICES Contract(type, v, range)
  OBVIOUS
<1>1. v \in Int
  BY PayloadIsInteger
<1>2. CASE type \in {"Int", "Uint", "Double"} /\ store(v)
  <2>1. v \in range
    BY <1>2, PayloadIsInteger, WidthAssumption DEF Signed, Unsigned, IntMax, IntMin, UintMax, Int64Max, EventTypes, Payload
  <2>2. QED
    BY <1>2, <2>1, Stored
<1>3. CASE type = "Int64" /\ checked(~(v > Threshold \/ v < -Threshold), ToDouble(v))
  <2>1. ~(v > Threshold \/ v < -Threshold) <=> v \in range
    BY <1>3, PayloadIsInteger, WidthAssumption DEF Signed, Unsigned, IntMax, IntMin, UintMax, Int64Max
  <2>2. v \in range => ToDouble(v) = v
    BY Narrowing, WidthAssumption DEF ToDouble
  <2>. HIDE DEF range
  <2>3. QED
    BY <1>3, <2>1, <2>2
    DEF checked, store, set_out_of_range, Contract, ScalarErrors
<1>4. CASE type = "Uint64" /\ checked(~(v > Threshold), ToDouble(v))
  <2>1. ~(v > Threshold) <=> v \in range
    BY <1>4, PayloadIsInteger, WidthAssumption DEF Signed, Unsigned, IntMax, IntMin, UintMax, Int64Max
  <2>2. v \in range => ToDouble(v) = v
    BY Narrowing, WidthAssumption DEF ToDouble
  <2>. HIDE DEF range
  <2>3. QED
    BY <1>4, <2>1, <2>2
    DEF checked, store, set_out_of_range, Contract, ScalarErrors
<1>5. CASE type \notin IntegerEvents \cup {"Double"} /\ set_type_mismatch
  BY <1>5, Refused
<1>6. QED
  BY <1>2, <1>3, <1>4, <1>5 DEF handler_double

(* The values a target may hold.                                           *)
TargetRange ==
  IF target \in DOMAIN Representable THEN Representable[target] ELSE {0, 1}

(* Every target may hold the 0 it begins with.                             *)
LEMMA ZeroInRange == 0 \in TargetRange
<1>1. 0 \in Signed(HalfInt) /\ 0 \in Unsigned(HalfInt) /\ 0 \in Signed(HalfInt64)
      /\ 0 \in Unsigned(HalfInt64) /\ 0 \in -Threshold .. Threshold
  BY WidthAssumption DEF Signed, Unsigned
<1>2. ASSUME target \in DOMAIN Representable
      PROVE  0 \in Representable[target]
  <2>1. target \in {"int", "unsigned", "int64_t", "uint64_t", "double"}
    BY <1>2 DEF Representable
  <2>2. /\ Representable["int"] = Signed(HalfInt)
        /\ Representable["unsigned"] = Unsigned(HalfInt)
        /\ Representable["int64_t"] = Signed(HalfInt64)
        /\ Representable["uint64_t"] = Unsigned(HalfInt64)
        /\ Representable["double"] = -Threshold .. Threshold
    BY DEF Representable
  <2>3. QED
    BY <1>1, <2>1, <2>2
<1>3. QED
  BY <1>2 DEF TargetRange

(* The handlers of the other types store their own event and no other.     *)
LEMMA PlainContract ==
  ASSUME NEW type \in EventTypes, NEW v \in Payload[type],
         target \in DOMAIN OwnEvent, handler_plain(type, v)
  PROVE  /\ scalar_error' \in ScalarErrors
         /\ scalar_error' = "none" => m_value' = v /\ v \in {0, 1}
         /\ scalar_error' # "none" => m_value' = m_value
<1>1. OwnEvent[target] \in {"Null", "Bool", "String"}
  BY DEF OwnEvent
<1>2. CASE type = OwnEvent[target] /\ store(v)
  BY <1>1, <1>2, PayloadIsInteger DEF store, ScalarErrors
<1>3. CASE type # OwnEvent[target] /\ set_type_mismatch
  BY <1>3 DEF set_type_mismatch, ScalarErrors
<1>4. QED
  BY <1>2, <1>3 DEF handler_plain

(* Every handler keeps its contract.                                       *)
LEMMA HandleContract ==
  ASSUME NEW type \in EventTypes, NEW v \in Payload[type], Handle(type, v)
  PROVE  /\ scalar_error' \in ScalarErrors
         /\ scalar_error' = "none" => m_value' = v /\ v \in TargetRange
         /\ scalar_error' # "none" => m_value' = m_value
         /\ type \in IntegerEvents /\ target \in DOMAIN Representable =>
              (scalar_error' = "NUMBER_OUT_OF_RANGE" <=> v \notin TargetRange)
<1>1. target = "int" /\ handler_int(type, v) =>
        TargetRange = Signed(HalfInt) /\ Contract(type, v, Signed(HalfInt))
  BY IntContract DEF TargetRange, Representable
<1>2. target = "unsigned" /\ handler_unsigned(type, v) =>
        TargetRange = Unsigned(HalfInt) /\ Contract(type, v, Unsigned(HalfInt))
  BY UnsignedContract DEF TargetRange, Representable
<1>3. target = "int64_t" /\ handler_int64_t(type, v) =>
        TargetRange = Signed(HalfInt64) /\ Contract(type, v, Signed(HalfInt64))
  BY Int64Contract DEF TargetRange, Representable
<1>4. target = "uint64_t" /\ handler_uint64_t(type, v) =>
        TargetRange = Unsigned(HalfInt64) /\ Contract(type, v, Unsigned(HalfInt64))
  BY Uint64Contract DEF TargetRange, Representable
<1>5. target = "double" /\ handler_double(type, v) =>
        /\ TargetRange = -Threshold .. Threshold
        /\ Contract(type, v, -Threshold .. Threshold)
  BY DoubleContract DEF TargetRange, Representable
<1>6. CASE target \in DOMAIN OwnEvent /\ handler_plain(type, v)
  <2>1. target \notin DOMAIN Representable /\ TargetRange = {0, 1}
    BY <1>6 DEF OwnEvent, Representable, TargetRange
  <2>2. QED
    BY <1>6, <2>1, PlainContract
<1>7. Contract(type, v, TargetRange) \/ (target \in DOMAIN OwnEvent /\ handler_plain(type, v))
  BY <1>1, <1>2, <1>3, <1>4, <1>5 DEF Handle
<1>8. CASE Contract(type, v, TargetRange)
  BY <1>8 DEF Contract
<1>9. QED
  BY <1>6, <1>7, <1>8
-----------------------------------------------------------------------------

(* The initial states satisfy the invariant.                               *)
LEMMA ScalarInitHolds == ScalarInit => ScalarInv
<1>1. ScalarInit => ScalarTypeOK
  BY ZeroInRange DEF ScalarInit, ScalarTypeOK, TargetRange, NoEvent, ScalarErrors
<1>2. QED
  BY <1>1 DEF ScalarInit, ScalarInv, Exact, RangeErrorIsReal, NoEvent, IntegerEvents

(* Every step keeps the invariant: each handler meets its contract.        *)
LEMMA ScalarStepHolds == ScalarInv /\ [ScalarNext]_scalarVars => ScalarInv'
<1>. SUFFICES ASSUME ScalarInv, [ScalarNext]_scalarVars PROVE ScalarInv'
  OBVIOUS
<1>1. CASE ScalarPrepareForReuse
  <2>1. TargetRange' = TargetRange /\ m_value' \in TargetRange
    BY <1>1, ZeroInRange DEF ScalarPrepareForReuse, TargetRange, Representable
  <2>2. ScalarTypeOK'
    BY <1>1, <2>1 DEF ScalarPrepareForReuse, ScalarInv, ScalarTypeOK, NoEvent, TargetRange
  <2>3. QED
    BY <1>1, <2>2
    DEF ScalarPrepareForReuse, ScalarInv, Exact, RangeErrorIsReal, NoEvent, IntegerEvents
<1>2. ASSUME NEW type \in EventTypes, NEW v \in Payload[type], Handle(type, v)
      PROVE  ScalarInv'
  <2>1. event' = [type |-> type, v |-> v] /\ target' = target /\ TargetRange' = TargetRange
    BY <1>2 DEF Handle, TargetRange, Representable
  <2>2. ScalarTypeOK'
    <3>1. m_value \in TargetRange /\ target \in Targets
      BY DEF ScalarInv, ScalarTypeOK, TargetRange
    <3>2. m_value' \in TargetRange /\ scalar_error' \in ScalarErrors
      BY <1>2, <3>1, HandleContract
    <3>3. QED
      BY <2>1, <3>1, <3>2, PayloadIsInteger DEF ScalarTypeOK, TargetRange
  <2>3. Exact'
    BY <1>2, <2>1, HandleContract DEF Exact
  <2>4. RangeErrorIsReal'
    <3>1. target \in DOMAIN Representable => TargetRange = Representable[target]
      BY DEF TargetRange
    <3>2. QED
      BY <1>2, <2>1, <3>1, HandleContract DEF RangeErrorIsReal, Representable
  <2>5. QED
    BY <2>2, <2>3, <2>4 DEF ScalarInv
<1>3. CASE UNCHANGED scalarVars
  BY <1>3 DEF scalarVars, ScalarInv, ScalarTypeOK, Exact, RangeErrorIsReal
<1>4. QED
  BY <1>1, <1>2, <1>3 DEF ScalarNext

(* The value a handler fills always has its type, for every width.         *)
THEOREM ScalarType == ScalarSpec => []ScalarTypeOK
  BY ScalarInitHolds, ScalarStepHolds, PTL DEF ScalarSpec, ScalarInv

(* An accepted number is stored unchanged (base.hpp's casts lose nothing). *)
THEOREM ScalarExact == ScalarSpec => []Exact
  BY ScalarInitHolds, ScalarStepHolds, PTL DEF ScalarSpec, ScalarInv

(* NumberOutOfRangeError is raised exactly for the integers the type       *)
(* cannot hold (the comparisons of base.hpp are the right ones).           *)
THEOREM ScalarRange == ScalarSpec => []RangeErrorIsReal
  BY ScalarInitHolds, ScalarStepHolds, PTL DEF ScalarSpec, ScalarInv

(* A handler that refuses an event has not touched the user's value.       *)
THEOREM ScalarRefusal == ScalarSpec => RefusalKeepsValue
<1>1. [ScalarNext]_scalarVars => [scalar_error' # "none" => m_value' = m_value]_scalarVars
  <2>1. ScalarPrepareForReuse => scalar_error' = "none"
    BY DEF ScalarPrepareForReuse
  <2>2. \A type \in EventTypes : \A v \in Payload[type] :
          Handle(type, v) => (scalar_error' # "none" => m_value' = m_value)
    BY HandleContract
  <2>3. QED
    BY <2>1, <2>2 DEF ScalarNext
<1>2. QED
  BY <1>1, PTL DEF ScalarSpec, RefusalKeepsValue
==============================================================================

----------------------------- MODULE SourceLemmas -----------------------------
(***************************************************************************)
(* Facts about a sequence used as a stack, with its top at the end: what   *)
(* Append and Front do to its length, its elements, its bottom and the     *)
(* part above the bottom; what follows for the stack of containers a JSON  *)
(* text has open, and for what the source does at one event; how joined    *)
(* sequences grow and shrink at their end; and the least of some numbers.  *)
(***************************************************************************)
EXTENDS JsonSource, SequenceTheorems, FiniteSetTheorems, TLAPS

(* Pushing x keeps everything below it.                                    *)
LEMMA PushFacts ==
  ASSUME NEW S, NEW s \in Seq(S), NEW x \in S
  PROVE  /\ Append(s, x) \in Seq(S)
         /\ Append(s, x) # <<>>
         /\ Len(Append(s, x)) = Len(s) + 1
         /\ Last(Append(s, x)) = x
         /\ \A i \in 1..Len(s) : Append(s, x)[i] = s[i]
         /\ Append(s, x)[Len(s) + 1] = x
  BY AppendProperties DEF Last

(* Popping a nonempty stack removes the top and nothing else.              *)
LEMMA PopFacts ==
  ASSUME NEW S, NEW s \in Seq(S), s # <<>>
  PROVE  /\ Front(s) \in Seq(S)
         /\ Len(s) \in Nat \ {0}
         /\ Len(Front(s)) = Len(s) - 1
         /\ Last(s) \in S
         /\ Last(s) = s[Len(s)]
         /\ \A i \in 1..Len(s) - 1 : Front(s)[i] = s[i]
         /\ Front(s) = <<>> <=> Len(s) = 1
<1>1. Len(s) \in Nat \ {0}
  BY EmptySeq
<1>2. /\ Front(s) \in Seq(S)
      /\ Len(Front(s)) = Len(s) - 1
      /\ \A i \in 1..Len(s) - 1 : Front(s)[i] = s[i]
  <2>. DEFINE n == Len(s) - 1
  <2>1. n \in Int /\ 1 \in Int
    BY <1>1
  <2>2. \A i \in 1..n : s[i] \in S
    BY <1>1, ElementOfSeq
  <2>3. /\ SubSeq(s, 1, n) \in Seq(S)
        /\ Len(SubSeq(s, 1, n)) = IF 1 <= n THEN n - 1 + 1 ELSE 0
        /\ \A i \in 1..n - 1 + 1 : SubSeq(s, 1, n)[i] = s[1 + i - 1]
    <3>. HIDE DEF n
    <3>1. QED
      BY <2>1, <2>2, SubSeqProperties
  <2>4. n \in Nat /\ n = Len(s) - 1
    BY <1>1
  <2>5. Front(s) = SubSeq(s, 1, n)
    BY DEF Front
  <2>. HIDE DEF n
  <2>6. n - 1 + 1 = n /\ (IF 1 <= n THEN n - 1 + 1 ELSE 0) = n
    BY <2>4
  <2>7. \A i \in 1..n : SubSeq(s, 1, n)[i] = s[i]
    BY <2>3, <2>4
  <2>8. QED
    BY <2>3, <2>4, <2>5, <2>6, <2>7
<1>3. Last(s) \in S /\ Last(s) = s[Len(s)]
  BY <1>1, ElementOfSeq DEF Last
<1>4. Front(s) = <<>> <=> Len(s) = 1
  BY <1>1, <1>2, EmptySeq
<1>5. QED
  BY <1>1, <1>2, <1>3, <1>4

(* The part of a stack above its bottom is itself a stack that is pushed   *)
(* when the whole is pushed.                                               *)
LEMMA PushAboveBottom ==
  ASSUME NEW S, NEW s \in Seq(S), s # <<>>, NEW x \in S
  PROVE  Tail(Append(s, x)) = Append(Tail(s), x)
<1>1. /\ Tail(s) \in Seq(S) /\ Len(Tail(s)) = Len(s) - 1
      /\ \A i \in 1..Len(Tail(s)) : Tail(s)[i] = s[i+1]
  BY HeadTailProperties
<1>2. /\ Append(s, x) \in Seq(S) /\ Append(s, x) # <<>>
      /\ Len(Append(s, x)) = Len(s) + 1
      /\ \A i \in 1..Len(s) : Append(s, x)[i] = s[i]
      /\ Append(s, x)[Len(s) + 1] = x
  BY PushFacts
<1>3. /\ Append(Tail(s), x) \in Seq(S)
      /\ Len(Append(Tail(s), x)) = Len(s)
      /\ \A i \in 1..Len(s) - 1 : Append(Tail(s), x)[i] = s[i+1]
      /\ Append(Tail(s), x)[Len(s)] = x
  BY <1>1, PushFacts, LenProperties
<1>4. /\ Tail(Append(s, x)) \in Seq(S)
      /\ Len(Tail(Append(s, x))) = Len(s)
      /\ \A i \in 1..Len(s) : Tail(Append(s, x))[i] = Append(s, x)[i+1]
  BY <1>2, HeadTailProperties, LenProperties
<1>5. ASSUME NEW i \in 1..Len(s)
      PROVE  Tail(Append(s, x))[i] = Append(Tail(s), x)[i]
  <2>1. CASE i = Len(s)
    BY <1>2, <1>3, <1>4, <2>1
  <2>2. CASE i # Len(s)
    <3>1. Len(s) \in Nat /\ i \in 1..Len(s) - 1 /\ i + 1 \in 1..Len(s)
      BY <2>2, LenProperties
    <3>2. QED
      BY <1>2, <1>3, <1>4, <3>1
  <2>3. QED
    BY <2>1, <2>2
<1>6. QED
  BY <1>3, <1>4, <1>5, SeqEqual

(* ... and popped when the whole is popped.                                *)
LEMMA PopAboveBottom ==
  ASSUME NEW S, NEW s \in Seq(S), Len(s) > 1
  PROVE  Tail(Front(s)) = Front(Tail(s))
<1>1. s # <<>> /\ Len(s) \in Nat
  BY EmptySeq, LenProperties
<1>2. /\ Tail(s) \in Seq(S) /\ Len(Tail(s)) = Len(s) - 1
      /\ \A i \in 1..Len(Tail(s)) : Tail(s)[i] = s[i+1]
  BY <1>1, HeadTailProperties
<1>3. Tail(s) # <<>>
  <2>1. Len(Tail(s)) # 0
    BY <1>1, <1>2
  <2>2. Len(<<>>) = 0
    OBVIOUS
  <2>3. QED
    BY <2>1, <2>2
<1>4. /\ Front(s) \in Seq(S) /\ Len(Front(s)) = Len(s) - 1
      /\ Front(s) # <<>>
      /\ \A i \in 1..Len(s) - 1 : Front(s)[i] = s[i]
  BY <1>1, PopFacts
<1>5. /\ Front(Tail(s)) \in Seq(S) /\ Len(Front(Tail(s))) = Len(s) - 2
      /\ \A i \in 1..Len(s) - 2 : Front(Tail(s))[i] = Tail(s)[i]
  <2>1. /\ Front(Tail(s)) \in Seq(S)
        /\ Len(Front(Tail(s))) = Len(Tail(s)) - 1
        /\ \A i \in 1..Len(Tail(s)) - 1 : Front(Tail(s))[i] = Tail(s)[i]
    BY <1>2, <1>3, PopFacts
  <2>2. Len(Tail(s)) - 1 = Len(s) - 2
    BY <1>1, <1>2
  <2>3. QED
    BY <2>1, <2>2
<1>6. /\ Tail(Front(s)) \in Seq(S) /\ Len(Tail(Front(s))) = Len(s) - 2
      /\ \A i \in 1..Len(s) - 2 : Tail(Front(s))[i] = Front(s)[i+1]
  BY <1>1, <1>4, HeadTailProperties
<1>7. \A i \in 1..Len(s) - 2 : Tail(Front(s))[i] = Front(Tail(s))[i]
  BY <1>1, <1>2, <1>4, <1>5, <1>6
<1>8. QED
  BY <1>5, <1>6, <1>7, SeqEqual
-----------------------------------------------------------------------------
(* The stack of open containers after an event.                            *)

(* After() yields a stack, longer or shorter by at most one, with the same *)
(* bottom.                                                                 *)
LEMMA AfterFacts ==
  ASSUME NEW s \in Seq(Kinds), NEW e \in Events, e \in Ends => s # <<>>
  PROVE  /\ After(s, e) \in Seq(Kinds)
         /\ e \in Starts => Len(After(s, e)) = Len(s) + 1
         /\ e \in Ends => Len(After(s, e)) = Len(s) - 1
         /\ e \notin Starts \cup Ends => After(s, e) = s
         /\ s # <<>> /\ Len(After(s, e)) # 0 => After(s, e)[1] = s[1]
<1>1. KindOf(e) \in Kinds
  BY DEF KindOf, Kinds
<1>2. Starts \cap Ends = {}
  BY DEF Starts, Ends
<1>3. Len(s) \in Nat /\ (s # <<>> => Len(s) # 0)
  BY LenProperties, EmptySeq
<1>4. CASE e \in Starts
  <2>1. After(s, e) = Append(s, KindOf(e))
    BY <1>4 DEF After
  <2>2. QED
    BY <1>1, <1>2, <1>3, <1>4, <2>1, PushFacts
<1>5. CASE e \in Ends
  <2>1. After(s, e) = Front(s)
    BY <1>2, <1>5 DEF After
  <2>2. QED
    BY <1>2, <1>3, <1>5, <2>1, PopFacts
<1>6. CASE e \notin Starts \cup Ends
  BY <1>6 DEF After
<1>7. QED
  BY <1>4, <1>5, <1>6

(* What an event does above the outermost container is what it does to the *)
(* stack of the element.                                                   *)
LEMMA AfterAboveBottom ==
  ASSUME NEW s \in Seq(Kinds), NEW e \in Events, s # <<>>,
         e \in Ends => Len(s) > 1
  PROVE  Tail(After(s, e)) = After(Tail(s), e)
<1>1. KindOf(e) \in Kinds /\ Starts \cap Ends = {}
  BY DEF KindOf, Kinds, Starts, Ends
<1>2. CASE e \in Starts
  BY <1>1, <1>2, PushAboveBottom DEF After
<1>3. CASE e \in Ends
  BY <1>1, <1>3, PopAboveBottom DEF After
<1>4. CASE e \notin Starts \cup Ends
  BY <1>4 DEF After
<1>5. QED
  BY <1>2, <1>3, <1>4

(* Nothing is above the bottom of a stack of one.                          *)
LEMMA AboveBottom ==
  ASSUME NEW s \in Seq(Kinds), s # <<>>
  PROVE  Tail(s) \in Seq(Kinds) /\ (Tail(s) = <<>> <=> Len(s) = 1)
<1>1. Tail(s) \in Seq(Kinds) /\ Len(Tail(s)) = Len(s) - 1
  BY HeadTailProperties
<1>2. Len(s) \in Nat /\ Len(<<>>) = 0
  BY LenProperties
<1>3. Tail(s) = <<>> => Len(s) = 1
  <2>1. Tail(s) = <<>> => Len(Tail(s)) = 0
    BY <1>2
  <2>2. QED
    BY <1>1, <1>2, <2>1
<1>4. Len(s) = 1 => Tail(s) = <<>>
  <2>1. Len(s) = 1 => Len(Tail(s)) = 0
    BY <1>1
  <2>2. QED
    BY <1>1, <2>1, EmptySeq
<1>5. QED
  BY <1>1, <1>3, <1>4
-----------------------------------------------------------------------------
(* Counting the containers of one kind among the open ones.                *)

(* Where the open containers of a kind are.                                *)
OpenAs(kind, s) == {i \in 1..Len(s) : s[i] = kind}

(* The objects of a stack are a finite set of positions.                   *)
LEMMA OpenFinite ==
  ASSUME NEW kind \in Kinds, NEW s \in Seq(Kinds)
  PROVE  /\ Len(s) \in Nat
         /\ IsFiniteSet(OpenAs(kind, s)) /\ Cardinality(OpenAs(kind, s)) \in Nat
<1>1. Len(s) \in Nat
  BY LenProperties
<1>2. IsFiniteSet(1..Len(s))
  BY <1>1, FS_Interval
<1>3. OpenAs(kind, s) \in SUBSET (1..Len(s))
  BY DEF OpenAs
<1>4. IsFiniteSet(OpenAs(kind, s))
  BY <1>2, <1>3, FS_Subset
<1>5. QED
  BY <1>1, <1>4, FS_CardinalityType

(* Below an outermost object the count is positive, and it is one for the  *)
(* object on top only if nothing else is open.                             *)
LEMMA OpenBounds ==
  ASSUME NEW kind \in Kinds, NEW s \in Seq(Kinds)
  PROVE  /\ s = <<>> => Cardinality(OpenAs(kind, s)) = 0
         /\ s # <<>> /\ s[1] = kind =>
              /\ Cardinality(OpenAs(kind, s)) \in Nat \ {0}
              /\ Len(s) = 1 => Cardinality(OpenAs(kind, s)) = 1
              /\ Last(s) = kind /\ Cardinality(OpenAs(kind, s)) = 1 => Len(s) = 1
<1>1. /\ Len(s) \in Nat /\ (s # <<>> => Len(s) # 0)
      /\ IsFiniteSet(OpenAs(kind, s)) /\ Cardinality(OpenAs(kind, s)) \in Nat
  BY OpenFinite, EmptySeq
<1>2. ASSUME s = <<>>
      PROVE  Cardinality(OpenAs(kind, s)) = 0
  <2>1. OpenAs(kind, s) = {}
    BY <1>2 DEF OpenAs
  <2>2. QED
    BY <2>1, FS_EmptySet
<1>3. ASSUME s # <<>>, s[1] = kind
      PROVE  /\ Cardinality(OpenAs(kind, s)) \in Nat \ {0}
             /\ Len(s) = 1 => Cardinality(OpenAs(kind, s)) = 1
             /\ Last(s) = kind /\ Cardinality(OpenAs(kind, s)) = 1 => Len(s) = 1
  <2>1. 1 \in OpenAs(kind, s)
    BY <1>1, <1>3 DEF OpenAs
  <2>2. Cardinality(OpenAs(kind, s)) # 0
    BY <1>1, <2>1, FS_EmptySet
  <2>3. ASSUME Len(s) = 1
        PROVE  Cardinality(OpenAs(kind, s)) = 1
    <3>1. OpenAs(kind, s) = {1}
      BY <2>1, <2>3 DEF OpenAs
    <3>2. QED
      BY <3>1, FS_Singleton
  <2>4. ASSUME Last(s) = kind, Cardinality(OpenAs(kind, s)) = 1
        PROVE  Len(s) = 1
    <3>1. Len(s) \in OpenAs(kind, s)
      BY <1>1, <1>3, <2>4 DEF OpenAs, Last
    <3>2. PICK x : OpenAs(kind, s) = {x}
      BY <1>1, <2>4, FS_Singleton
    <3>3. QED
      BY <2>1, <3>1, <3>2
  <2>5. QED
    BY <1>1, <2>2, <2>3, <2>4
<1>4. QED
  BY <1>2, <1>3

(* An event that begins or ends a container of the kind counts or          *)
(* discounts one, and no other event does.                                 *)
LEMMA OpenAfter ==
  ASSUME NEW kind \in Kinds, NEW s \in Seq(Kinds), NEW e \in Events,
         e \in Ends => s # <<>> /\ Last(s) = KindOf(e)
  PROVE  LET n == Cardinality(OpenAs(kind, s))
         IN  Cardinality(OpenAs(kind, After(s, e)))
               = IF e \in Starts /\ KindOf(e) = kind THEN n + 1
                 ELSE IF e \in Ends /\ KindOf(e) = kind THEN n - 1 ELSE n
<1>. DEFINE n == Cardinality(OpenAs(kind, s))
<1>1. /\ Len(s) \in Nat /\ IsFiniteSet(OpenAs(kind, s)) /\ n \in Nat
      /\ Starts \cap Ends = {}
  BY OpenFinite DEF Starts, Ends
<1>2. CASE e \in Starts
  <2>. DEFINE t == Append(s, KindOf(e))
  <2>1. KindOf(e) \in Kinds
    BY DEF KindOf, Kinds
  <2>2. After(s, e) = t
    BY <1>2 DEF After
  <2>3. /\ Len(t) = Len(s) + 1
        /\ \A i \in 1..Len(s) : t[i] = s[i]
        /\ t[Len(s) + 1] = KindOf(e)
    BY <2>1, PushFacts
  <2>. HIDE DEF t
  <2>4. CASE KindOf(e) = kind
    <3>1. OpenAs(kind, t) = OpenAs(kind, s) \cup {Len(s) + 1}
      BY <1>1, <2>3, <2>4 DEF OpenAs
    <3>2. Len(s) + 1 \notin OpenAs(kind, s)
      BY <1>1 DEF OpenAs
    <3>3. Cardinality(OpenAs(kind, t)) = n + 1
      BY <1>1, <3>1, <3>2, FS_AddElement
    <3>4. QED
      BY <1>2, <2>2, <2>4, <3>3
  <2>5. CASE KindOf(e) # kind
    <3>1. OpenAs(kind, t) = OpenAs(kind, s)
      BY <1>1, <2>3, <2>5 DEF OpenAs
    <3>2. QED
      BY <1>1, <1>2, <2>2, <2>5, <3>1
  <2>6. QED
    BY <2>4, <2>5
<1>3. CASE e \in Ends
  <2>1. s # <<>> /\ Last(s) = KindOf(e)
    BY <1>3
  <2>. DEFINE t == Front(s)
  <2>2. After(s, e) = t
    BY <1>3 DEF After, Starts, Ends
  <2>3. /\ Len(s) \in Nat \ {0} /\ Len(t) = Len(s) - 1
        /\ \A i \in 1..Len(s) - 1 : t[i] = s[i]
        /\ s[Len(s)] = KindOf(e)
    BY <2>1, PopFacts
  <2>. HIDE DEF t
  <2>4. CASE KindOf(e) = kind
    <3>1. OpenAs(kind, t) = OpenAs(kind, s) \ {Len(s)}
      BY <2>3, <2>4 DEF OpenAs
    <3>2. Len(s) \in OpenAs(kind, s)
      BY <2>3, <2>4 DEF OpenAs
    <3>3. Cardinality(OpenAs(kind, t)) = n - 1
      <4>. DEFINE O == OpenAs(kind, s)
      <4>. HIDE DEF O
      <4>1. IsFiniteSet(O) /\ n = Cardinality(O) /\ Len(s) \in O
        BY <1>1, <3>2 DEF O
      <4>2. Cardinality(O \ {Len(s)}) = Cardinality(O) - 1
        BY <4>1, FS_RemoveElement
      <4>3. QED
        BY <3>1, <4>1, <4>2 DEF O
    <3>4. QED
      BY <1>1, <1>3, <2>2, <2>4, <3>3
  <2>5. CASE KindOf(e) # kind
    <3>1. OpenAs(kind, t) = OpenAs(kind, s)
      BY <2>3, <2>5 DEF OpenAs
    <3>2. QED
      BY <1>1, <1>3, <2>2, <2>5, <3>1
  <2>6. QED
    BY <2>4, <2>5
<1>4. CASE e \notin Starts \cup Ends
  BY <1>4 DEF After
<1>5. QED
  BY <1>2, <1>3, <1>4

(* A kind that is counted but not at the bottom, or not on top, shares the *)
(* stack with a container of another kind.                                 *)
LEMMA OpenWithOthers ==
  ASSUME NEW kind \in Kinds, NEW s \in Seq(Kinds), s # <<>>,
         Cardinality(OpenAs(kind, s)) # 0
  PROVE  Len(s) = 1 => s[1] = kind /\ Last(s) = kind
<1>1. Len(s) \in Nat /\ IsFiniteSet(OpenAs(kind, s))
  BY OpenFinite
<1>2. PICK i \in 1..Len(s) : s[i] = kind
  BY <1>1, FS_EmptySet DEF OpenAs
<1>3. QED
  BY <1>1, <1>2 DEF Last
-----------------------------------------------------------------------------
(* A set of numbers that is not empty has a least one.  (The order of the  *)
(* sets 1..n by inclusion is well-founded.)                                *)
LEMMA LeastNumber ==
  ASSUME NEW T \in SUBSET Nat, T # {}
  PROVE  \E x \in T : \A y \in T : x <= y
<1>. DEFINE R == StrictSubsetOrdering(Nat)
            I == {1..n : n \in T}
<1>1. IsWellFoundedOn(R, FiniteSubsetsOf(Nat))
  BY FS_StrictSubsetOrderingWellFounded
<1>2. I \subseteq FiniteSubsetsOf(Nat) /\ I # {}
  <2>1. \A n \in T : 1..n \in SUBSET Nat /\ IsFiniteSet(1..n)
    BY FS_Interval
  <2>2. QED
    BY <2>1 DEF FiniteSubsetsOf
<1>3. \E a \in I : \A b \in I : ~ (<<b, a>> \in R)
  <2>. HIDE DEF R, I
  <2>. QED
    BY <1>1, <1>2, WFMin
<1>4. PICK x \in T : \A y \in T : ~(<<1..y, 1..x>> \in R)
  BY <1>3
<1>5. ASSUME NEW y \in T, y < x
      PROVE  FALSE
  <2>1. 1..y \subseteq 1..x /\ x \in 1..x /\ x \notin 1..y
    BY <1>5
  <2>2. <<1..y, 1..x>> \in (SUBSET Nat) \X (SUBSET Nat)
    OBVIOUS
  <2>3. <<1..y, 1..x>> \in R
    BY <2>1, <2>2 DEF StrictSubsetOrdering
  <2>4. QED
    BY <1>4, <2>3
<1>6. QED
  BY <1>5

(* Induction, for a set instead of a predicate.                            *)
LEMMA InductiveSet ==
  ASSUME NEW S, 0 \in S, \A n \in Nat : n \in S => n + 1 \in S
  PROVE  Nat \subseteq S
<1>1. SUFFICES ASSUME {n \in Nat : n \notin S} # {} PROVE FALSE
  OBVIOUS
<1>2. PICK m \in Nat : m \notin S /\ \A y \in Nat : y \notin S => m <= y
  BY <1>1, LeastNumber
<1>3. m - 1 \in Nat /\ m - 1 \notin S
  BY <1>2
<1>4. QED
  BY <1>2, <1>3

(* f joins the first sequences of s, one more at every step.               *)
Joins(f, s) ==
  f = [i \in 1..Len(s) |-> IF i = 1 THEN s[i] ELSE f[i - 1] \o s[i]]

(* There is such a function ...                                            *)
LEMMA JoinsExists ==
  ASSUME NEW S, NEW s \in Seq(Seq(S))
  PROVE  \E f : Joins(f, s)
<1>. DEFINE Joined(f, i) == f[i] = IF i = 1 THEN s[i] ELSE f[i - 1] \o s[i]
            Upto(f, n) == f = [i \in 1..n |-> f[i]] /\ \A i \in 1..n : Joined(f, i)
            G == {n \in Nat : \E f : Upto(f, n)}
<1>1. 0 \in G
  <2>1. Upto([i \in 1..0 |-> <<>>], 0)
    OBVIOUS
  <2>2. QED
    BY <2>1
<1>2. ASSUME NEW n \in Nat, n \in G
      PROVE  n + 1 \in G
  <2>1. PICK f : Upto(f, n)
    BY <1>2
  <2>. DEFINE last == IF n = 0 THEN s[1] ELSE f[n] \o s[n + 1]
              g == [i \in 1..n + 1 |-> IF i = n + 1 THEN last ELSE f[i]]
  <2>2. (\A i \in 1..n : g[i] = f[i]) /\ g[n + 1] = last
    <3>1. \A i \in 1..n : i \in 1..n + 1 /\ i # n + 1
      OBVIOUS
    <3>2. n + 1 \in 1..n + 1
      OBVIOUS
    <3>. HIDE DEF last
    <3>3. QED
      BY <3>1, <3>2
  <2>3. g = [i \in 1..n + 1 |-> g[i]]
    OBVIOUS
  <2>. HIDE DEF g
  <2>4. ASSUME NEW i \in 1..n
        PROVE  Joined(g, i)
    <3>1. i # 1 => i - 1 \in 1..n
      OBVIOUS
    <3>2. g[i] = f[i] /\ (i # 1 => g[i - 1] = f[i - 1])
      BY <2>2, <3>1
    <3>3. Joined(f, i)
      BY <2>1
    <3>4. QED
      BY <3>2, <3>3
  <2>5. Joined(g, n + 1)
    <3>1. n # 0 => g[n] = f[n] /\ n + 1 # 1 /\ (n + 1) - 1 = n
      BY <2>2
    <3>2. QED
      BY <2>2, <3>1
  <2>6. \A i \in 1..n + 1 : i = n + 1 \/ i \in 1..n
    OBVIOUS
  <2>. HIDE DEF Joined
  <2>7. QED
    BY <2>3, <2>4, <2>5, <2>6
<1>3. Nat \subseteq G
  <2>. HIDE DEF G
  <2>. QED
    BY <1>1, <1>2, InductiveSet
<1>4. Len(s) \in Nat
  BY LenProperties
<1>5. PICK f : Upto(f, Len(s))
  BY <1>3, <1>4
<1>6. QED
  BY <1>5 DEF Joins

(* ... and FlattenSeq takes its last value.                                *)
LEMMA FlattenJoins ==
  ASSUME NEW S, NEW s \in Seq(Seq(S))
  PROVE  \E f : Joins(f, s) /\ FlattenSeq(s) = IF Len(s) = 0 THEN s ELSE f[Len(s)]
<1>. DEFINE f == CHOOSE f : Joins(f, s)
<1>1. Joins(f, s)
  BY JoinsExists
<1>2. FlattenSeq(s) = IF Len(s) = 0 THEN s ELSE f[Len(s)]
  BY DEF FlattenSeq, Joins
<1>3. QED
  BY <1>1, <1>2

(* Two such functions of sequences that begin alike begin alike.           *)
LEMMA JoinsAgree ==
  ASSUME NEW S, NEW s \in Seq(Seq(S)), NEW t \in Seq(Seq(S)),
         Len(s) <= Len(t), \A i \in 1..Len(s) : s[i] = t[i],
         NEW f, Joins(f, s), NEW g, Joins(g, t)
  PROVE  \A i \in 1..Len(s) : f[i] = g[i] /\ f[i] \in Seq(S)
<1>. DEFINE G == {n \in Nat : n + 1 \in 1..Len(s) =>
                    f[n + 1] = g[n + 1] /\ f[n + 1] \in Seq(S)}
<1>1. Len(s) \in Nat /\ Len(t) \in Nat
  BY LenProperties
<1>2. \A i \in 1..Len(s) :
        /\ f[i] = IF i = 1 THEN s[i] ELSE f[i - 1] \o s[i]
        /\ g[i] = IF i = 1 THEN s[i] ELSE g[i - 1] \o s[i]
        /\ s[i] \in Seq(S)
  <2>1. \A i \in 1..Len(s) : f[i] = IF i = 1 THEN s[i] ELSE f[i - 1] \o s[i]
    BY Zenon DEF Joins
  <2>2. \A i \in 1..Len(t) : g[i] = IF i = 1 THEN t[i] ELSE g[i - 1] \o t[i]
    BY Zenon DEF Joins
  <2>3. \A i \in 1..Len(s) : i \in 1..Len(t) /\ s[i] \in Seq(S)
    BY <1>1, ElementOfSeq
  <2>4. QED
    BY <2>1, <2>2, <2>3
<1>3. 0 \in G
  BY <1>2
<1>4. ASSUME NEW n \in Nat, n \in G
      PROVE  n + 1 \in G
  <2>1. SUFFICES ASSUME n + 2 \in 1..Len(s)
                 PROVE  f[n + 2] = g[n + 2] /\ f[n + 2] \in Seq(S)
    OBVIOUS
  <2>2. n + 1 \in 1..Len(s) /\ (n + 2) - 1 = n + 1 /\ n + 2 # 1
    BY <1>1, <2>1
  <2>3. f[n + 1] = g[n + 1] /\ f[n + 1] \in Seq(S)
    BY <1>4, <2>2
  <2>4. /\ f[n + 2] = f[n + 1] \o s[n + 2]
        /\ g[n + 2] = g[n + 1] \o s[n + 2]
        /\ s[n + 2] \in Seq(S)
    BY <1>2, <2>1, <2>2
  <2>5. f[n + 1] \o s[n + 2] \in Seq(S)
    BY <2>3, <2>4, ConcatProperties
  <2>6. QED
    BY <2>3, <2>4, <2>5
<1>5. Nat \subseteq G
  <2>. HIDE DEF G
  <2>. QED
    BY <1>3, <1>4, InductiveSet
<1>6. ASSUME NEW i \in 1..Len(s)
      PROVE  f[i] = g[i] /\ f[i] \in Seq(S)
  <2>1. i - 1 \in Nat /\ (i - 1) + 1 = i
    OBVIOUS
  <2>2. i - 1 \in G
    BY <1>5, <2>1, Zenon
  <2>3. QED
    BY <2>1, <2>2
<1>7. QED
  BY <1>6

(* The text of nothing is empty, and what is appended comes last.          *)
LEMMA FlattenFacts ==
  ASSUME NEW S, NEW s \in Seq(Seq(S))
  PROVE  /\ FlattenSeq(<<>>) = <<>>
         /\ FlattenSeq(s) \in Seq(S)
         /\ \A x \in Seq(S) : FlattenSeq(Append(s, x)) = FlattenSeq(s) \o x
<1>1. FlattenSeq(<<>>) = <<>>
  <2>1. Len(<<>>) = 0 /\ <<>> \in Seq(Seq(S))
    BY EmptySeq
  <2>2. QED
    BY <2>1, FlattenJoins
<1>2. PICK f : Joins(f, s) /\ FlattenSeq(s) = IF Len(s) = 0 THEN s ELSE f[Len(s)]
  BY FlattenJoins
<1>3. Len(s) \in Nat /\ (Len(s) = 0 => s = <<>>)
  BY LenProperties, EmptySeq
<1>4. FlattenSeq(s) \in Seq(S)
  <2>1. CASE Len(s) = 0
    BY <1>2, <1>3, <2>1, EmptySeq
  <2>2. CASE Len(s) # 0
    <3>1. Len(s) \in 1..Len(s) /\ Len(s) <= Len(s)
      BY <1>3, <2>2
    <3>2. f[Len(s)] \in Seq(S)
      BY <1>2, <3>1, JoinsAgree
    <3>3. QED
      BY <1>2, <2>2, <3>2
  <2>3. QED
    BY <2>1, <2>2
<1>5. ASSUME NEW x \in Seq(S)
      PROVE  FlattenSeq(Append(s, x)) = FlattenSeq(s) \o x
  <2>. DEFINE t == Append(s, x)
  <2>1. /\ t \in Seq(Seq(S)) /\ Len(t) = Len(s) + 1
        /\ \A i \in 1..Len(s) : s[i] = t[i]
        /\ t[Len(s) + 1] = x
    BY AppendProperties
  <2>. HIDE DEF t
  <2>2. PICK g : Joins(g, t) /\ FlattenSeq(t) = IF Len(t) = 0 THEN t ELSE g[Len(t)]
    BY <2>1, FlattenJoins
  <2>3. FlattenSeq(t) = g[Len(s) + 1]
    BY <1>3, <2>1, <2>2
  <2>4. g[Len(s) + 1] = IF Len(s) + 1 = 1 THEN x ELSE g[(Len(s) + 1) - 1] \o x
    <3>1. \A i \in 1..Len(t) : g[i] = IF i = 1 THEN t[i] ELSE g[i - 1] \o t[i]
      BY <2>2, Zenon DEF Joins
    <3>2. Len(s) + 1 \in 1..Len(t)
      BY <1>3, <2>1
    <3>3. QED
      BY <2>1, <3>1, <3>2
  <2>5. CASE Len(s) = 0
    <3>1. FlattenSeq(t) = x
      BY <2>3, <2>4, <2>5
    <3>2. FlattenSeq(s) = <<>>
      BY <1>2, <1>3, <2>5
    <3>3. QED
      BY <3>1, <3>2, ConcatEmptySeq DEF t
  <2>6. CASE Len(s) # 0
    <3>1. Len(s) + 1 # 1 /\ (Len(s) + 1) - 1 = Len(s) /\ Len(s) \in 1..Len(s)
          /\ Len(s) <= Len(t)
      BY <1>3, <2>1, <2>6
    <3>2. \A i \in 1..Len(s) : f[i] = g[i] /\ f[i] \in Seq(S)
      <4>1. Joins(f, s) /\ Joins(g, t)
        BY <1>2, <2>2
      <4>2. t \in Seq(Seq(S)) /\ \A i \in 1..Len(s) : s[i] = t[i]
        BY <2>1
      <4>3. Len(s) <= Len(t)
        BY <3>1
      <4>4. QED
        BY <4>1, <4>2, <4>3, JoinsAgree
    <3>3. FlattenSeq(s) = f[Len(s)]
      BY <1>2, <2>6
    <3>4. QED
      BY <2>3, <2>4, <3>1, <3>2, <3>3 DEF t
  <2>7. QED
    BY <2>5, <2>6
<1>6. QED
  BY <1>1, <1>4, <1>5
=============================================================================

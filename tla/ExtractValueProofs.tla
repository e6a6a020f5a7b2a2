------------------------- MODULE ExtractValueProofs -------------------------
(***************************************************************************)
(* extractValueFromCommandResponse() returns the value of every index that *)
(* the response has, for every response, buffer and set of characters.     *)
(***************************************************************************)
EXTENDS ExtractValue, FiniteSetTheorems, SequenceTheorems,
        WellFoundedInduction, TLAPS

LEMMA LeastIs ==
  ASSUME NEW S \in SUBSET Nat, S # {}
  PROVE  Least(S) \in S /\ \A j \in S : Least(S) <= j
<1> DEFINE R == OpToRel(<, Nat)
<1>1. IsWellFoundedOn(R, Nat)
  BY NatLessThanWellFounded
<1>2. PICK i \in S : \A j \in S : <<j, i>> \notin R
  BY <1>1, WFMin, Zenon
<1>3. ASSUME NEW j \in S PROVE i <= j
  <2>1. SUFFICES ASSUME ~(i <= j) PROVE FALSE
    OBVIOUS
  <2>2. i \in Nat /\ j \in Nat /\ j < i
    BY <2>1
  <2>3. <<j, i>> \in R
    BY <2>2 DEF OpToRel
  <2>4. QED
    BY <1>2, <2>3
<1>4. QED
  BY <1>3 DEF Least

LEMMA NullIsNoPosition == NULL \notin Nat /\ NULL \notin Character
  BY CharacterAssumption

(* strchr() returns the first place of the character, if there is one.     *)
IsPlace(text, from, c, p) ==
  \/ p = NULL /\ \A i \in from .. Len(text) : text[i] # c
  \/ /\ p \in from .. Len(text) /\ text[p] = c
     /\ \A i \in from .. p - 1 : text[i] # c

LEMMA StrchrIs ==
  ASSUME NEW text \in Seq(Character), NEW from \in Nat, NEW c
  PROVE  IsPlace(text, from, c, Strchr(text, from, c))
<1> DEFINE found == {i \in from .. Len(text) : text[i] = c}
           p == Strchr(text, from, c)
<1>1. Len(text) \in Nat
  BY LenProperties
<1>2. found \in SUBSET Nat
  BY <1>1
<1>3. CASE found = {}
  <2>1. p = NULL
    BY <1>3 DEF Strchr
  <2>2. \A i \in from .. Len(text) : text[i] # c
    BY <1>3
  <2>3. QED
    BY <2>1, <2>2 DEF IsPlace
<1>4. CASE found # {}
  <2>1. p = Least(found)
    BY <1>4 DEF Strchr
  <2> HIDE DEF found, p
  <2>2. p \in found /\ \A j \in found : p <= j
    BY <1>2, <1>4, <2>1, LeastIs
  <2>3. p \in from .. Len(text) /\ text[p] = c
    BY <2>2 DEF found
  <2>4. ASSUME NEW i \in from .. p - 1 PROVE text[i] # c
    <3>1. i \in from .. Len(text) /\ ~(p <= i)
      BY <1>1, <2>3
    <3>2. QED
      BY <2>2, <3>1 DEF found
  <2>5. QED
    BY <2>3, <2>4 DEF IsPlace, p
<1>5. QED
  BY <1>3, <1>4

LEMMA TextIs ==
  ASSUME NEW t \in Text
  PROVE  t \in Seq(Character) /\ Len(t) \in 0 .. MaxResponse
         /\ DOMAIN t = 1 .. Len(t) /\ \A i \in 1 .. Len(t) : t[i] \in Character
<1>1. PICK n \in 0 .. MaxResponse : t \in [1 .. n -> Character]
  BY DEF Text
<1>2. n \in Nat
  BY BoundAssumption
<1>3. t \in Seq(Character)
  BY <1>1, <1>2
<1>4. Len(t) \in Nat /\ DOMAIN t = 1 .. Len(t)
  BY <1>3, LenProperties
<1>5. Len(t) = n
  BY <1>1, <1>2, <1>4
<1>6. QED
  BY <1>1, <1>3, <1>4, <1>5
-----------------------------------------------------------------------------
ArgumentsOK ==
  /\ response \in Text /\ index \in 0 .. MaxIndex
  /\ start_character \in {START_CHARACTER, NULL}
  /\ destination_buffer_size \in 1 .. MaxSize

LEMMA StartIsFound ==
  ASSUME ArgumentsOK, start_character # NULL
  PROVE  HasStart <=> Strchr(response, 1, start_character) # NULL
<1> DEFINE p == Strchr(response, 1, start_character)
<1>1. /\ response \in Seq(Character) /\ DOMAIN response = 1 .. Len(response)
  BY TextIs DEF ArgumentsOK
<1>2. IsPlace(response, 1, start_character, p)
  BY <1>1, StrchrIs
<1> HIDE DEF p
<1>3. CASE p = NULL
  <2>1. \A i \in 1 .. Len(response) : response[i] # start_character
    BY <1>2, <1>3, NullIsNoPosition DEF IsPlace
  <2>2. QED
    BY <1>1, <1>3, <2>1 DEF HasStart, p
<1>4. CASE p # NULL
  <2>1. p \in 1 .. Len(response) /\ response[p] = start_character
    BY <1>2, <1>4 DEF IsPlace
  <2>2. QED
    BY <1>1, <1>4, <2>1 DEF HasStart, p
<1>5. QED
  BY <1>3, <1>4

(* The pointer data of the function is where the data starts.              *)
LEMMA DataIs ==
  ASSUME ArgumentsOK, HasStart
  PROVE  /\ DataStart \in 1 .. Len(response) + 1
         /\ Payload = DataStart .. Len(response)
<1> DEFINE n == Len(response)
           c == start_character
           first == Strchr(response, 1, c)
           skipped == {i \in first .. n + 1 :
                         i = n + 1 \/ response[i] \notin {c, SPACE_CHARACTER}}
<1>1. /\ response \in Seq(Character) /\ DOMAIN response = 1 .. n /\ n \in Nat
  BY TextIs, BoundAssumption DEF ArgumentsOK
<1>2. CASE c = NULL
  <2>1. DataStart = 1
    BY <1>2 DEF DataStart
  <2>2. Payload = 1 .. n
    BY <1>1, <1>2 DEF Payload
  <2>3. QED
    BY <1>1, <2>1, <2>2
<1>3. CASE c # NULL
  <2>1. IsPlace(response, 1, c, first) /\ first # NULL
    BY <1>1, <1>3, StrchrIs, StartIsFound
  <2>2. DataStart = Least(skipped)
    BY <1>3 DEF DataStart
  <2> HIDE DEF first
  <2>3. /\ first \in 1 .. n /\ response[first] = c
        /\ \A i \in 1 .. first - 1 : response[i] # c
    BY <2>1 DEF IsPlace
  <2>4. n + 1 \in skipped /\ skipped \in SUBSET Nat
    BY <1>1, <2>3
  <2> DEFINE d == DataStart
  <2>5. d \in skipped /\ \A i \in skipped : d <= i
    <3> HIDE DEF skipped
    <3>1. QED
      BY <2>2, <2>4, LeastIs
  <2> HIDE DEF d
  <2>6. /\ d \in first .. n + 1
        /\ d = n + 1 \/ response[d] \notin {c, SPACE_CHARACTER}
    BY <2>5
  <2>7. ASSUME NEW i \in d .. n PROVE i \in Payload
    <3>1. /\ i \in 1 .. n /\ d \in 1 .. i /\ d # n + 1
      BY <1>1, <2>3, <2>6
    <3>2. response[d] \notin {c, SPACE_CHARACTER}
      BY <2>6, <3>1
    <3>3. first # d
      BY <2>3, <3>2
    <3>4. first \in 1 .. d - 1
      BY <1>1, <2>3, <2>6, <3>3
    <3>5. \E k \in 1 .. d - 1 : response[k] = c
      BY <2>3, <3>4
    <3>6. QED
      BY <1>1, <3>1, <3>2, <3>5 DEF Payload
  <2>8. ASSUME NEW i \in Payload PROVE i \in d .. n
    <3>1. i \in 1 .. n
      BY <1>1 DEF Payload
    <3>2. PICK j \in 1 .. i :
            /\ response[j] \notin {c, SPACE_CHARACTER}
            /\ \E k \in 1 .. j - 1 : response[k] = c
      BY <1>3 DEF Payload
    <3>3. PICK k \in 1 .. j - 1 : response[k] = c
      BY <3>2
    <3>4. first <= k
      <4>1. CASE k < first
        <5>1. k \in 1 .. first - 1
          BY <1>1, <2>3, <3>1, <4>1
        <5>2. QED
          BY <2>3, <3>3, <5>1
      <4>2. QED
        BY <1>1, <2>3, <3>1, <4>1
    <3>5. j \in first .. n + 1
      BY <1>1, <2>3, <3>1, <3>4
    <3>6. j \in skipped
      BY <3>2, <3>5
    <3>7. d <= j
      BY <2>5, <3>6
    <3>8. QED
      BY <1>1, <2>3, <2>6, <3>1, <3>7
  <2>9. Payload = d .. n
    BY <2>7, <2>8
  <2>10. d \in 1 .. n + 1
    BY <1>1, <2>3, <2>6
  <2>11. QED
    BY <2>9, <2>10 DEF d
<1>4. QED
  BY <1>2, <1>3
-----------------------------------------------------------------------------
(* The number of delimiters before a position.                             *)
Before(p) == {d \in Delimiters : d < p}

LEMMA BeforeIs ==
  ASSUME ArgumentsOK, NEW p
  PROVE  /\ IsFiniteSet(Delimiters) /\ Delimiters \subseteq 1 .. Len(response)
         /\ IsFiniteSet(Before(p)) /\ FieldOf(p) = Cardinality(Before(p))
         /\ FieldOf(p) \in Nat
<1>1. DOMAIN response = 1 .. Len(response) /\ Len(response) \in Int
  BY TextIs, BoundAssumption DEF ArgumentsOK
<1>2. Delimiters \subseteq 1 .. Len(response)
  BY <1>1 DEF Delimiters, Payload
<1>3. IsFiniteSet(1 .. Len(response))
  BY <1>1, FS_Interval
<1>4. IsFiniteSet(Delimiters)
  BY <1>2, <1>3, FS_Subset
<1>5. Before(p) \subseteq Delimiters
  BY DEF Before
<1>6. IsFiniteSet(Before(p))
  BY <1>4, <1>5, FS_Subset
<1>7. FieldOf(p) = Cardinality(Before(p))
  BY DEF FieldOf, Before
<1>8. QED
  BY <1>2, <1>4, <1>6, <1>7, FS_CardinalityType

LEMMA FieldSame ==
  ASSUME ArgumentsOK, NEW p \in Nat, NEW q \in Nat, p <= q,
         \A d \in Delimiters : ~(p <= d /\ d < q)
  PROVE  FieldOf(q) = FieldOf(p)
<1>1. Delimiters \subseteq Nat
  <2>1. Delimiters \subseteq 1 .. Len(response) /\ Len(response) \in Int
    BY BeforeIs, TextIs, BoundAssumption DEF ArgumentsOK
  <2>2. QED
    BY <2>1
<1>2. \A d \in Delimiters : d < q <=> d < p
  BY <1>1
<1>3. Before(q) = Before(p)
  BY <1>2 DEF Before
<1>4. QED
  BY <1>3 DEF FieldOf, Before

LEMMA FieldNext ==
  ASSUME ArgumentsOK, NEW p \in Nat, NEW q \in Delimiters, p <= q,
         \A d \in Delimiters : ~(p <= d /\ d < q)
  PROVE  FieldOf(q + 1) = FieldOf(p) + 1
<1>1. Delimiters \subseteq Nat
  <2>1. Delimiters \subseteq 1 .. Len(response) /\ Len(response) \in Int
    BY BeforeIs, TextIs, BoundAssumption DEF ArgumentsOK
  <2>2. QED
    BY <2>1
<1>2. q \in Nat /\ \A d \in Delimiters : d < q + 1 <=> d < p \/ d = q
  BY <1>1
<1>3. Before(q + 1) = Before(p) \union {q}
  BY <1>2 DEF Before
<1>4. q \notin Before(p)
  BY <1>2 DEF Before
<1>5. IsFiniteSet(Before(p)) /\ FieldOf(p) = Cardinality(Before(p))
      /\ FieldOf(q + 1) = Cardinality(Before(q + 1))
  BY BeforeIs
<1>6. QED
  BY <1>3, <1>4, <1>5, FS_AddElement

LEMMA FieldGrows ==
  ASSUME ArgumentsOK, NEW p \in Nat, NEW q \in Nat,
         NEW d \in Delimiters, p <= d, d < q
  PROVE  FieldOf(p) < FieldOf(q)
<1>1. Delimiters \subseteq Nat
  <2>1. Delimiters \subseteq 1 .. Len(response) /\ Len(response) \in Int
    BY BeforeIs, TextIs, BoundAssumption DEF ArgumentsOK
  <2>2. QED
    BY <2>1
<1>2. Before(p) \union {d} \subseteq Before(q) /\ d \notin Before(p)
  <2>1. d < q /\ ~(d < p) /\ \A e \in Delimiters : e < p => e < q
    BY <1>1
  <2>2. QED
    BY <2>1 DEF Before
<1>3. /\ IsFiniteSet(Before(p)) /\ FieldOf(p) = Cardinality(Before(p))
      /\ IsFiniteSet(Before(q)) /\ FieldOf(q) = Cardinality(Before(q))
      /\ FieldOf(p) \in Nat /\ FieldOf(q) \in Nat
  BY BeforeIs
<1>4. Cardinality(Before(p) \union {d}) = Cardinality(Before(p)) + 1
  BY <1>2, <1>3, FS_AddElement
<1>5. Cardinality(Before(p) \union {d}) <= Cardinality(Before(q))
  BY <1>2, <1>3, FS_Subset
<1>6. QED
  BY <1>3, <1>4, <1>5

LEMMA AllFields ==
  ASSUME ArgumentsOK
  PROVE  FieldOf(Len(response) + 1) = Cardinality(Delimiters)
<1>1. Delimiters \subseteq 1 .. Len(response) /\ Len(response) \in Int
  BY BeforeIs, TextIs, BoundAssumption DEF ArgumentsOK
<1>2. \A d \in Delimiters : d < Len(response) + 1
  BY <1>1
<1>3. Before(Len(response) + 1) = Delimiters
  BY <1>2 DEF Before
<1>4. QED
  BY <1>3 DEF FieldOf, Before
-----------------------------------------------------------------------------
(* s to e, between delimiters, is the field of s: a position belongs to it *)
(* if no more and no fewer delimiters are before it.                       *)
LEMMA FieldIs ==
  ASSUME ArgumentsOK, HasStart,
         NEW s \in DataStart .. Len(response) + 1,
         NEW e \in s - 1 .. Len(response),
         s = DataStart \/ s - 1 \in Delimiters,
         e = Len(response) \/ e + 1 \in Delimiters,
         \A d \in Delimiters : ~(s <= d /\ d <= e)
  PROVE  InField(FieldOf(s)) =
           {i \in s .. e : \A j \in s .. i : response[j] # CARRIAGE_RETURN}
<1> DEFINE n == Len(response)
           inside == {i \in s .. e :
                        \A j \in s .. i : response[j] # CARRIAGE_RETURN}
<1>1. /\ n \in Nat /\ DataStart \in 1 .. n + 1
      /\ Payload = DataStart .. n /\ DOMAIN response = 1 .. n
      /\ Delimiters \subseteq 1 .. n /\ Delimiters \subseteq Payload
  <2>1. n \in Nat /\ DOMAIN response = 1 .. n
    BY TextIs, BoundAssumption DEF ArgumentsOK
  <2>2. Delimiters \subseteq 1 .. n /\ Delimiters \subseteq Payload
    BY BeforeIs DEF Delimiters
  <2>3. QED
    BY <2>1, <2>2, DataIs
<1> HIDE DEF n
<1>2. s \in Nat /\ s >= 1 /\ s <= n + 1 /\ s >= DataStart
      /\ e \in Nat /\ e <= n /\ e >= s - 1
  <2>1. s \in DataStart .. n + 1 /\ e \in s - 1 .. n
    BY DEF n
  <2>2. s \in Nat /\ s >= 1 /\ s <= n + 1 /\ s >= DataStart
    BY <1>1, <2>1
  <2>3. QED
    BY <1>1, <2>1, <2>2
<1>3. ASSUME NEW j \in Payload, j < s PROVE FieldOf(j) # FieldOf(s)
  <2>1. j \in Nat /\ j >= DataStart
    BY <1>1
  <2>2. s - 1 \in Delimiters
    BY <1>1, <1>2, <1>3, <2>1
  <2>3. j <= s - 1 /\ s - 1 < s
    BY <1>2, <1>3, <2>1
  <2>4. FieldOf(j) < FieldOf(s)
    BY <1>2, <2>1, <2>2, <2>3, FieldGrows
  <2>5. FieldOf(j) \in Nat /\ FieldOf(s) \in Nat
    BY BeforeIs
  <2>6. QED
    BY <2>4, <2>5
<1>4. ASSUME NEW j \in s .. e PROVE FieldOf(j) = FieldOf(s)
  <2>1. j \in Nat /\ s <= j
    BY <1>2
  <2>2. \A d \in Delimiters : ~(s <= d /\ d < j)
    <3>1. \A d \in Delimiters : d \in Nat
      BY <1>1
    <3>2. QED
      BY <1>2, <3>1
  <2>3. QED
    BY <1>2, <2>1, <2>2, FieldSame
<1>5. ASSUME NEW j \in Payload \ Delimiters, j > e
      PROVE  FieldOf(j) # FieldOf(s)
  <2>1. j \in Nat /\ j <= n
    BY <1>1
  <2>2. e + 1 \in Delimiters
    BY <1>2, <1>5, <2>1 DEF n
  <2>3. j # e + 1
    BY <2>2
  <2>4. s <= e + 1 /\ e + 1 < j
    BY <1>2, <1>5, <2>1, <2>3
  <2>5. FieldOf(s) < FieldOf(j)
    BY <1>2, <2>1, <2>2, <2>4, FieldGrows
  <2>6. FieldOf(j) \in Nat /\ FieldOf(s) \in Nat
    BY BeforeIs
  <2>7. QED
    BY <2>5, <2>6
<1>6. ASSUME NEW i \in InField(FieldOf(s)) PROVE i \in inside
  <2>1. /\ i \in Payload \ Delimiters /\ FieldOf(i) = FieldOf(s)
        /\ \A j \in 1 .. i : j \in Payload /\ FieldOf(j) = FieldOf(s)
                               => response[j] # CARRIAGE_RETURN
    BY DEF InField
  <2>2. i \in Nat
    BY <1>1, <2>1
  <2>3. i \in s .. e
    BY <1>2, <1>3, <1>5, <2>1, <2>2
  <2>4. ASSUME NEW j \in s .. i PROVE response[j] # CARRIAGE_RETURN
    <3>1. j \in 1 .. i /\ j \in s .. e
      BY <1>2, <2>2, <2>3
    <3>2. j \in Payload
      BY <1>1, <1>2, <3>1
    <3>3. QED
      BY <1>4, <2>1, <3>1, <3>2
  <2>5. QED
    BY <2>3, <2>4
<1>7. ASSUME NEW i \in inside PROVE i \in InField(FieldOf(s))
  <2>1. i \in s .. e /\ \A j \in s .. i : response[j] # CARRIAGE_RETURN
    OBVIOUS
  <2>2. i \in Nat /\ s <= i /\ i <= e
    BY <1>2, <2>1
  <2>3. i \in Payload
    BY <1>1, <1>2, <2>2
  <2>4. i \notin Delimiters
    BY <2>2
  <2>5. FieldOf(i) = FieldOf(s)
    BY <1>4, <2>1
  <2>6. ASSUME NEW j \in 1 .. i, j \in Payload, FieldOf(j) = FieldOf(s)
        PROVE  response[j] # CARRIAGE_RETURN
    <3>1. ~(j < s)
      BY <1>3, <2>6
    <3>2. j \in s .. i
      BY <1>2, <2>2, <3>1
    <3>3. QED
      BY <2>1, <3>2
  <2>7. QED
    BY <2>3, <2>4, <2>5, <2>6 DEF InField
<1>8. QED
  BY <1>6, <1>7

(* Where the search is: behind value_index - 1 delimiters, and no more     *)
(* than index, with the next delimiter in sight.                           *)
Searching ==
  pc = "search" =>
    /\ HasStart
    /\ start_value_ptr \in DataStart .. Len(response) + 1
    /\ end_value_ptr = Strchr(response, start_value_ptr, RESPONSE_DELIMITER)
    /\ value_index = FieldOf(start_value_ptr) + 1
    /\ FieldOf(start_value_ptr) <= index
    /\ start_value_ptr = DataStart \/ start_value_ptr - 1 \in Delimiters
    /\ Delimiters = {} => index = 0

LEMMA EndIs ==
  ASSUME ArgumentsOK, HasStart,
         NEW s \in DataStart .. Len(response) + 1,
         NEW end, end = Strchr(response, s, RESPONSE_DELIMITER)
  PROVE  \/ /\ end = NULL /\ FieldOf(s) = Cardinality(Delimiters)
            /\ \A d \in Delimiters : ~(s <= d)
         \/ /\ end \in s .. Len(response) /\ end \in Delimiters
            /\ end # NULL
            /\ \A d \in Delimiters : ~(s <= d /\ d < end)
<1>1. /\ Len(response) \in Nat /\ response \in Seq(Character)
      /\ DataStart \in 1 .. Len(response) + 1
      /\ Payload = DataStart .. Len(response)
      /\ Delimiters \subseteq 1 .. Len(response)
  BY TextIs, BoundAssumption, DataIs, BeforeIs DEF ArgumentsOK
<1>2. s \in Nat /\ s >= 1 /\ s >= DataStart
  BY <1>1
<1>3. IsPlace(response, s, RESPONSE_DELIMITER, end)
  BY <1>1, <1>2, StrchrIs
<1>4. \A d \in Delimiters : /\ d \in 1 .. Len(response)
                            /\ response[d] = RESPONSE_DELIMITER
  BY <1>1 DEF Delimiters
<1>5. CASE end = NULL
  <2>1. \A i \in s .. Len(response) : response[i] # RESPONSE_DELIMITER
    BY <1>1, <1>2, <1>3, <1>5, NullIsNoPosition DEF IsPlace
  <2>2. \A d \in Delimiters : ~(s <= d)
    <3>1. ASSUME NEW d \in Delimiters, s <= d PROVE FALSE
      <4>1. d \in s .. Len(response)
        BY <1>1, <1>2, <1>4, <3>1
      <4>2. QED
        BY <1>4, <2>1, <4>1
    <3>2. QED
      BY <3>1
  <2>3. FieldOf(Len(response) + 1) = FieldOf(s)
    <3>1. s <= Len(response) + 1 /\ Len(response) + 1 \in Nat
      BY <1>1, <1>2
    <3>2. QED
      BY <1>2, <2>2, <3>1, FieldSame
  <2>4. QED
    BY <1>5, <2>2, <2>3, AllFields
<1>6. CASE end # NULL
  <2>1. /\ end \in s .. Len(response) /\ response[end] = RESPONSE_DELIMITER
        /\ \A i \in s .. end - 1 : response[i] # RESPONSE_DELIMITER
    BY <1>3, <1>6 DEF IsPlace
  <2>2. end \in Payload
    BY <1>1, <1>2, <2>1
  <2>3. end \in Delimiters
    BY <2>1, <2>2 DEF Delimiters
  <2>4. ASSUME NEW d \in Delimiters, s <= d, d < end PROVE FALSE
    <3>1. d \in s .. end - 1
      BY <1>1, <1>2, <1>4, <2>1, <2>4
    <3>2. QED
      BY <1>4, <2>1, <3>1
  <2>5. QED
    BY <1>6, <2>1, <2>3, <2>4
<1>7. QED
  BY <1>5, <1>6
-----------------------------------------------------------------------------
LEMMA SequenceIsText ==
  ASSUME NEW t \in Seq(Character), Len(t) <= MaxResponse
  PROVE  t \in Text
<1>1. Len(t) \in 0 .. MaxResponse /\ t \in [1 .. Len(t) -> Character]
  BY LenProperties, BoundAssumption
<1>2. QED
  BY <1>1 DEF Text

(* The field the search ends at: that of the index or, beyond the last     *)
(* one, the last.                                                          *)
Reached == IF index <= Cardinality(Delimiters) THEN index
           ELSE Cardinality(Delimiters)

LEMMA ReachedIs ==
  ASSUME ArgumentsOK, Searching, pc = "search", ~More
  PROVE  Reached = FieldOf(start_value_ptr)
<1> DEFINE s == start_value_ptr
           end == end_value_ptr
<1>1. /\ HasStart /\ s \in DataStart .. Len(response) + 1
      /\ end = Strchr(response, s, RESPONSE_DELIMITER)
      /\ value_index = FieldOf(s) + 1 /\ FieldOf(s) <= index
  BY DEF Searching
<1>2. index \in Nat /\ Len(response) \in Nat
      /\ DataStart \in 1 .. Len(response) + 1
  BY <1>1, TextIs, DataIs, BoundAssumption DEF ArgumentsOK
<1>3. FieldOf(s) \in Nat /\ s \in Nat
  BY <1>1, <1>2, BeforeIs
<1>4. end = NULL \/ ~(value_index <= index)
  BY DEF More
<1> HIDE DEF s, end
<1>5. \/ end = NULL /\ FieldOf(s) = Cardinality(Delimiters)
      \/ /\ end \in s .. Len(response) /\ end \in Delimiters
         /\ end # NULL
  BY <1>1, EndIs
<1>6. CASE end = NULL /\ FieldOf(s) = Cardinality(Delimiters)
  BY <1>1, <1>2, <1>3, <1>6 DEF Reached, s
<1>7. CASE end \in s .. Len(response) /\ end \in Delimiters /\ end # NULL
  <2>1. FieldOf(s) = index
    BY <1>1, <1>2, <1>3, <1>4, <1>7
  <2>2. FieldOf(s) < FieldOf(Len(response) + 1)
    <3>1. s <= end /\ end < Len(response) + 1 /\ Len(response) + 1 \in Nat
      BY <1>2, <1>3, <1>7
    <3>2. QED
      BY <1>3, <1>7, <3>1, FieldGrows
  <2>3. index < Cardinality(Delimiters)
    BY <2>1, <2>2, AllFields
  <2>4. Cardinality(Delimiters) \in Nat
    BY BeforeIs, FS_CardinalityType
  <2>5. QED
    BY <1>2, <2>1, <2>3, <2>4 DEF Reached, s
<1>8. QED
  BY <1>5, <1>6, <1>7

(* What is copied is the value of that field.                              *)
IsField(v, s) ==
  /\ s \in Nat /\ s >= 1
  /\ InField(Reached) = s .. s + Len(v) - 1
  /\ \A k \in 1 .. Len(v) : v[k] = response[s + k - 1]

LEMMA ValueIs ==
  ASSUME ArgumentsOK, Searching, pc = "search", ~More
  PROVE  Value \in Text /\ IsField(Value, start_value_ptr)
<1> DEFINE s == start_value_ptr
           n == Len(response)
           e == IF end_value_ptr = NULL THEN n ELSE end_value_ptr - 1
           line == SubSeq(response, s, e)
           cr == Strchr(line, 1, CARRIAGE_RETURN)
           v == IF cr = NULL THEN line ELSE SubSeq(line, 1, cr - 1)
<1>1. /\ HasStart /\ s \in DataStart .. n + 1
      /\ end_value_ptr = Strchr(response, s, RESPONSE_DELIMITER)
      /\ s = DataStart \/ s - 1 \in Delimiters
  BY DEF Searching
<1>2. /\ n \in Nat /\ n <= MaxResponse /\ MaxResponse \in Nat
      /\ response \in Seq(Character)
      /\ \A k \in 1 .. n : response[k] \in Character
      /\ DataStart \in 1 .. n + 1
      /\ Delimiters \subseteq 1 .. n
  BY <1>1, TextIs, DataIs, BeforeIs, BoundAssumption DEF ArgumentsOK
<1>3. Reached = FieldOf(s)
  BY ReachedIs
<1>4. Value = v
  BY DEF Value
<1>5. /\ e \in s - 1 .. n
      /\ e = n \/ e + 1 \in Delimiters
      /\ \A d \in Delimiters : ~(s <= d /\ d <= e)
  <2>1. \/ /\ end_value_ptr = NULL
           /\ \A d \in Delimiters : ~(s <= d)
        \/ /\ end_value_ptr \in s .. n /\ end_value_ptr \in Delimiters
           /\ end_value_ptr # NULL
           /\ \A d \in Delimiters : ~(s <= d /\ d < end_value_ptr)
    BY <1>1, EndIs
  <2> HIDE DEF n, s
  <2>2. CASE /\ end_value_ptr = NULL
             /\ \A d \in Delimiters : ~(s <= d)
    BY <1>1, <1>2, <2>2
  <2>3. CASE /\ end_value_ptr \in s .. n /\ end_value_ptr \in Delimiters
             /\ end_value_ptr # NULL
             /\ \A d \in Delimiters : ~(s <= d /\ d < end_value_ptr)
    <3>1. e = end_value_ptr - 1
      BY <2>3
    <3>2. e \in s - 1 .. n /\ e + 1 = end_value_ptr
      BY <1>1, <1>2, <2>3, <3>1
    <3>3. ASSUME NEW d \in Delimiters, s <= d, d <= e PROVE FALSE
      <4>1. d < end_value_ptr
        BY <1>2, <2>3, <3>1, <3>3
      <4>2. QED
        BY <2>3, <3>3, <4>1
    <3>4. QED
      BY <2>3, <3>2, <3>3
  <2>4. QED
    BY <2>1, <2>2, <2>3
<1> HIDE DEF s, e
<1>6. InField(Reached) =
        {i \in s .. e : \A j \in s .. i : response[j] # CARRIAGE_RETURN}
  BY <1>1, <1>3, <1>5, FieldIs
<1> HIDE DEF n
<1>7. s \in Nat /\ s >= 1 /\ e \in Nat /\ e >= s - 1 /\ e <= n
  <2>1. s \in Nat /\ s >= 1
    BY <1>1, <1>2
  <2>2. QED
    BY <1>2, <1>5, <2>1
<1>8. /\ line \in Seq(Character) /\ Len(line) = e - s + 1
      /\ \A k \in 1 .. e - s + 1 : line[k] = response[s + k - 1]
  <2>1. \A k \in s .. e : k \in 1 .. n
    BY <1>2, <1>7
  <2>2. \A k \in s .. e : response[k] \in Character
    BY <1>2, <2>1
  <2>3. s \in Int /\ e \in Int
    BY <1>7
  <2>4. /\ line \in Seq(Character)
        /\ Len(line) = IF s <= e THEN e - s + 1 ELSE 0
        /\ \A k \in 1 .. e - s + 1 : line[k] = response[s + k - 1]
    BY <2>2, <2>3, SubSeqProperties
  <2>5. QED
    BY <1>7, <2>4
<1>9. IsPlace(line, 1, CARRIAGE_RETURN, cr)
  BY <1>8, StrchrIs
<1> HIDE DEF line, cr
<1>10. CASE cr = NULL
  <2>1. v = line
    BY <1>10
  <2>2. \A k \in 1 .. e - s + 1 : line[k] # CARRIAGE_RETURN
    BY <1>8, <1>9, <1>10, NullIsNoPosition DEF IsPlace
  <2>3. ASSUME NEW j \in s .. e PROVE response[j] # CARRIAGE_RETURN
    <3>1. j - s + 1 \in 1 .. e - s + 1 /\ s + (j - s + 1) - 1 = j
      BY <1>7
    <3>2. line[j - s + 1] = response[j]
      BY <1>8, <3>1
    <3>3. QED
      BY <2>2, <3>1, <3>2
  <2>4. InField(Reached) = s .. e
    <3>1. \A i \in s .. e : \A j \in s .. i : j \in s .. e
      BY <1>7
    <3>2. QED
      BY <1>6, <2>3, <3>1
  <2>5. e = s + Len(line) - 1 /\ Len(line) <= MaxResponse
    BY <1>2, <1>7, <1>8
  <2>6. IsField(line, s)
    BY <1>7, <1>8, <2>4, <2>5 DEF IsField
  <2>7. QED
    BY <1>4, <1>8, <2>1, <2>5, <2>6, SequenceIsText DEF s
<1>11. CASE cr # NULL
  <2> DEFINE w == SubSeq(line, 1, cr - 1)
  <2>1. v = w
    BY <1>11
  <2>2. /\ cr \in 1 .. e - s + 1 /\ line[cr] = CARRIAGE_RETURN
        /\ \A k \in 1 .. cr - 1 : line[k] # CARRIAGE_RETURN
    BY <1>8, <1>9, <1>11 DEF IsPlace
  <2>3. /\ w \in Seq(Character) /\ Len(w) = cr - 1
        /\ \A k \in 1 .. cr - 1 : w[k] = line[k]
    <3>1. \A k \in 1 .. Len(line) : line[k] \in Character
      BY <1>8, LenProperties
    <3>2. \A k \in 1 .. cr - 1 : k \in 1 .. Len(line)
      BY <1>7, <1>8, <2>2
    <3>3. cr \in Int /\ cr - 1 \in Int /\ 1 \in Int /\ cr >= 1
      BY <1>7, <2>2
    <3>4. \A k \in 1 .. cr - 1 : line[k] \in Character
      BY <3>1, <3>2
    <3>5. /\ w \in Seq(Character)
          /\ Len(w) = IF 1 <= cr - 1 THEN (cr - 1) - 1 + 1 ELSE 0
          /\ \A k \in 1 .. (cr - 1) - 1 + 1 : w[k] = line[1 + k - 1]
      BY <3>3, <3>4, SubSeqProperties
    <3>6. (cr - 1) - 1 + 1 = cr - 1 /\ \A k \in 1 .. cr - 1 : 1 + k - 1 = k
      BY <3>3
    <3>7. Len(w) = cr - 1
      BY <3>3, <3>5
    <3>8. QED
      BY <3>5, <3>6, <3>7
  <2> HIDE DEF w
  <2>4. ASSUME NEW j \in s .. e
        PROVE  /\ j - s + 1 \in 1 .. e - s + 1
               /\ response[j] = line[j - s + 1]
    <3>1. j - s + 1 \in 1 .. e - s + 1 /\ s + (j - s + 1) - 1 = j
      BY <1>7
    <3>2. QED
      BY <1>8, <3>1
  <2>5. s + cr - 1 \in s .. e /\ response[s + cr - 1] = CARRIAGE_RETURN
    <3>1. s + cr - 1 \in s .. e /\ (s + cr - 1) - s + 1 = cr
      BY <1>7, <2>2
    <3>2. QED
      BY <2>2, <2>4, <3>1
  <2>6. \A j \in s .. s + cr - 2 : response[j] # CARRIAGE_RETURN
    <3>1. ASSUME NEW j \in s .. s + cr - 2
          PROVE  response[j] # CARRIAGE_RETURN
      <4>1. j \in s .. e /\ j - s + 1 \in 1 .. cr - 1
        BY <1>7, <2>2
      <4>2. QED
        BY <2>2, <2>4, <4>1
    <3>2. QED
      BY <3>1
  <2>7. InField(Reached) = s .. s + cr - 2
    <3>1. ASSUME NEW i \in InField(Reached) PROVE i \in s .. s + cr - 2
      <4>1. i \in s .. e /\ \A j \in s .. i : response[j] # CARRIAGE_RETURN
        BY <1>6
      <4>2. s + cr - 1 \notin s .. i
        BY <2>5, <4>1
      <4>3. QED
        BY <1>7, <2>2, <4>1, <4>2
    <3>2. ASSUME NEW i \in s .. s + cr - 2 PROVE i \in InField(Reached)
      <4>1. i \in s .. e /\ \A j \in s .. i : j \in s .. s + cr - 2
        BY <1>7, <2>2
      <4>2. QED
        BY <1>6, <2>6, <4>1
    <3>3. QED
      BY <3>1, <3>2
  <2>8. s + Len(w) - 1 = s + cr - 2 /\ Len(w) <= MaxResponse
    BY <1>2, <1>7, <2>2, <2>3
  <2>9. ASSUME NEW k \in 1 .. Len(w) PROVE w[k] = response[s + k - 1]
    <3>1. k \in 1 .. cr - 1 /\ k \in 1 .. e - s + 1
      BY <1>7, <2>2, <2>3
    <3>2. QED
      BY <1>8, <2>3, <3>1
  <2>10. IsField(w, s)
    BY <1>7, <2>7, <2>8, <2>9 DEF IsField
  <2>11. QED
    BY <1>4, <2>1, <2>3, <2>8, <2>10, SequenceIsText DEF s
<1>12. QED
  BY <1>10, <1>11

(* The field has as many characters as the value, in the same order.       *)
LEMMA FieldCounts ==
  ASSUME NEW v \in Seq(Character), NEW s, IsField(v, s)
  PROVE  /\ Len(v) = Cardinality(InField(Reached))
         /\ \A i \in InField(Reached) :
              v[Cardinality({j \in InField(Reached) : j <= i})] = response[i]
<1>1. /\ s \in Nat /\ s >= 1
      /\ InField(Reached) = s .. s + Len(v) - 1
      /\ \A k \in 1 .. Len(v) : v[k] = response[s + k - 1]
  BY DEF IsField
<1>2. Len(v) \in Nat
  BY LenProperties
<1>3. Cardinality(s .. s + Len(v) - 1) = Len(v)
  <2>1. s + Len(v) - 1 \in Int /\ s \in Int
    BY <1>1, <1>2
  <2>2. Cardinality(s .. s + Len(v) - 1) =
          IF s > s + Len(v) - 1 THEN 0 ELSE (s + Len(v) - 1) - s + 1
    BY <2>1, FS_Interval
  <2>3. QED
    BY <1>1, <1>2, <2>2
<1>4. ASSUME NEW i \in s .. s + Len(v) - 1
      PROVE  v[Cardinality({j \in s .. s + Len(v) - 1 : j <= i})] = response[i]
  <2>1. {j \in s .. s + Len(v) - 1 : j <= i} = s .. i
    BY <1>1, <1>2
  <2>2. Cardinality(s .. i) = i - s + 1
    <3>1. s \in Int /\ i \in Int /\ s <= i
      BY <1>1, <1>2
    <3>2. Cardinality(s .. i) = IF s > i THEN 0 ELSE i - s + 1
      BY <3>1, FS_Interval
    <3>3. QED
      BY <3>1, <3>2
  <2>3. i - s + 1 \in 1 .. Len(v) /\ s + (i - s + 1) - 1 = i
    BY <1>1, <1>2
  <2>4. v[i - s + 1] = response[i]
    BY <1>1, <2>3
  <2>5. QED
    BY <2>1, <2>2, <2>4
<1>5. QED
  BY <1>1, <1>3, <1>4
-----------------------------------------------------------------------------
(* The inductive invariant: the types, where the search is, and what is    *)
(* returned, which no step disturbs once the function has: the value of    *)
(* the field reached, or nothing when there is no data, when there is one  *)
(* value and another is asked for, or when it does not fit.                *)
FoundIsReached == pc = "found" => Returned(Reached)

NotFoundBeyond ==
  pc = "not_found" =>
    \/ ~HasStart
    \/ Delimiters = {} /\ index > 0
    \/ Cardinality(InField(Reached)) >= destination_buffer_size

Starting == pc = "start" => value_index = 1

ExtractInvariant ==
  TypeOK /\ Starting /\ Searching /\ FoundIsReached /\ NotFoundBeyond

LEMMA Arguments == TypeOK => ArgumentsOK
  BY DEF TypeOK, ArgumentsOK

(* Nothing the properties are about depends on more than the arguments.    *)
LEMMA SameArguments ==
  ASSUME UNCHANGED arguments
  PROVE  /\ response' = response /\ index' = index
         /\ start_character' = start_character
         /\ destination_buffer_size' = destination_buffer_size
         /\ HasStart' = HasStart /\ DataStart' = DataStart
         /\ Delimiters' = Delimiters /\ Reached' = Reached
<1>1. /\ response' = response /\ index' = index
      /\ start_character' = start_character
      /\ destination_buffer_size' = destination_buffer_size
  BY DEF arguments
<1>2. HasStart' = HasStart
  BY <1>1 DEF HasStart
<1>3. DataStart' = DataStart
  BY <1>1 DEF DataStart, Strchr
<1>4. Payload' = Payload
  BY <1>1 DEF Payload
<1>5. Delimiters' = Delimiters
  BY <1>1, <1>4 DEF Delimiters
<1>6. Reached' = Reached
  BY <1>1, <1>5 DEF Reached
<1>7. QED
  BY <1>1, <1>2, <1>3, <1>5, <1>6

LEMMA InitExtract == Init => ExtractInvariant
<1> SUFFICES ASSUME Init PROVE ExtractInvariant
  OBVIOUS
<1>1. TypeOK
  BY BoundAssumption DEF Init, TypeOK, Position
<1>2. pc = "start"
  BY DEF Init
<1>3. QED
  BY <1>1, <1>2 DEF ExtractInvariant, Starting, Searching, FoundIsReached,
                    NotFoundBeyond, Init

LEMMA SplitStep ==
  ASSUME ExtractInvariant, Split PROVE ExtractInvariant'
<1> DEFINE at == IF start_character = NULL THEN 1
                 ELSE Strchr(response, 1, start_character)
           end == Strchr(response, DataStart, RESPONSE_DELIMITER)
<1>1. TypeOK /\ ArgumentsOK
  BY Arguments DEF ExtractInvariant
<1>2. /\ UNCHANGED arguments /\ value_index' = value_index
      /\ destination_buffer' = destination_buffer
      /\ value_index = 1
  BY DEF Split, ExtractInvariant, Starting
<1>3. /\ response' = response /\ index' = index
      /\ start_character' = start_character
      /\ destination_buffer_size' = destination_buffer_size
      /\ HasStart' = HasStart /\ DataStart' = DataStart
      /\ Delimiters' = Delimiters /\ Reached' = Reached
  BY <1>2, SameArguments
<1>4. HasStart <=> at # NULL
  BY <1>1, StartIsFound, NullIsNoPosition DEF HasStart
<1>5. CASE at = NULL \/ Absent(end)
  <2>1. /\ pc' = "not_found"
        /\ start_value_ptr' = start_value_ptr /\ end_value_ptr' = end_value_ptr
    BY <1>5 DEF Split
  <2>2. ~HasStart \/ (Delimiters = {} /\ index > 0)
    <3>1. CASE at = NULL
      BY <1>4, <3>1
    <3>2. CASE at # NULL
      <4>1. HasStart /\ end = NULL /\ index > 0
        BY <1>4, <1>5, <3>2 DEF Absent
      <4>2. /\ DataStart \in 1 .. Len(response) + 1
            /\ Len(response) \in Nat
            /\ Payload = DataStart .. Len(response)
        BY <1>1, <4>1, TextIs, DataIs, BoundAssumption DEF ArgumentsOK
      <4>3. DataStart \in DataStart .. Len(response) + 1
        BY <4>2
      <4> HIDE DEF end
      <4>4. NULL \notin DataStart .. Len(response)
        BY <4>2, NullIsNoPosition
      <4>5. \A d \in Delimiters : ~(DataStart <= d)
        BY <1>1, <4>1, <4>3, <4>4, EndIs DEF end
      <4>6. \A d \in Delimiters : DataStart <= d
        BY <4>2 DEF Delimiters
      <4>7. QED
        BY <4>1, <4>5, <4>6
    <3>3. QED
      BY <3>1, <3>2
  <2>3. NotFoundBeyond'
    BY <1>3, <2>2 DEF NotFoundBeyond
  <2>4. TypeOK'
    BY <1>1, <1>2, <1>3, <2>1 DEF TypeOK
  <2>5. QED
    BY <2>1, <2>3, <2>4
       DEF ExtractInvariant, Starting, Searching, FoundIsReached
<1>6. CASE ~(at = NULL \/ Absent(end))
  <2>1. /\ pc' = "search"
        /\ start_value_ptr' = DataStart /\ end_value_ptr' = end
    BY <1>6 DEF Split
  <2>2. HasStart
    BY <1>4, <1>6
  <2>3. /\ DataStart \in 1 .. Len(response) + 1
        /\ Len(response) \in Nat /\ Len(response) <= MaxResponse
        /\ MaxResponse \in Nat /\ index \in Nat
        /\ Payload = DataStart .. Len(response)
    BY <1>1, <2>2, TextIs, DataIs, BoundAssumption DEF ArgumentsOK
  <2>4. FieldOf(DataStart) = 0
    <3>1. \A d \in Delimiters : ~(d < DataStart)
      BY <2>3 DEF Delimiters
    <3>2. Before(DataStart) = {}
      BY <3>1 DEF Before
    <3>3. QED
      BY <1>1, <3>2, BeforeIs, FS_EmptySet
  <2>5. DataStart \in DataStart .. Len(response) + 1
    BY <2>3
  <2> HIDE DEF end
  <2>6. \/ /\ end = NULL
           /\ \A d \in Delimiters : ~(DataStart <= d)
        \/ /\ end \in DataStart .. Len(response) /\ end \in Delimiters
           /\ end # NULL
    BY <1>1, <2>2, <2>5, EndIs DEF end
  <2>7. end \in Position \union {NULL}
    BY <2>3, <2>6 DEF Position
  <2>8. TypeOK'
    BY <1>1, <1>2, <1>3, <2>1, <2>3, <2>7 DEF TypeOK, Position
  <2>9. Delimiters = {} => index = 0
    BY <1>6, <2>3, <2>6 DEF Absent
  <2>10. FieldOf(start_value_ptr)' = 0
    BY <1>3, <2>1, <2>4 DEF FieldOf
  <2>11. value_index' = 1
    BY <1>2
  <2>12. /\ start_value_ptr' \in DataStart' .. Len(response') + 1
         /\ end_value_ptr'
              = Strchr(response', start_value_ptr', RESPONSE_DELIMITER)
         /\ value_index' = FieldOf(start_value_ptr)' + 1
         /\ FieldOf(start_value_ptr)' <= index'
         /\ start_value_ptr' = DataStart'
         /\ Delimiters' = {} => index' = 0
    BY <1>3, <2>1, <2>3, <2>5, <2>9, <2>10, <2>11 DEF end
  <2>13. Searching'
    BY <1>3, <2>2, <2>12 DEF Searching, Strchr
  <2>14. QED
    BY <2>1, <2>8, <2>13 DEF ExtractInvariant, Starting, FoundIsReached,
                             NotFoundBeyond
<1>7. QED
  BY <1>5, <1>6

LEMMA NextValueStep ==
  ASSUME ExtractInvariant, NextValue PROVE ExtractInvariant'
<1> DEFINE s == start_value_ptr
           end == end_value_ptr
<1>1. TypeOK /\ ArgumentsOK /\ Searching
  BY Arguments DEF ExtractInvariant
<1>2. /\ UNCHANGED arguments /\ pc = "search" /\ pc' = "search"
      /\ destination_buffer' = destination_buffer
      /\ end # NULL /\ value_index <= index
      /\ start_value_ptr' = end + 1
      /\ end_value_ptr'
           = Strchr(response, start_value_ptr', RESPONSE_DELIMITER)
      /\ value_index' = value_index + 1
  BY DEF NextValue, More
<1>3. /\ response' = response /\ index' = index
      /\ start_character' = start_character
      /\ destination_buffer_size' = destination_buffer_size
      /\ HasStart' = HasStart /\ DataStart' = DataStart
      /\ Delimiters' = Delimiters /\ Reached' = Reached
  BY <1>2, SameArguments
<1>4. /\ HasStart /\ s \in DataStart .. Len(response) + 1
      /\ end = Strchr(response, s, RESPONSE_DELIMITER)
      /\ value_index = FieldOf(s) + 1
      /\ Delimiters = {} => index = 0
  BY <1>1, <1>2 DEF Searching
<1>5. /\ DataStart \in 1 .. Len(response) + 1
      /\ Len(response) \in Nat /\ Len(response) <= MaxResponse
      /\ MaxResponse \in Nat /\ index \in Nat /\ index <= MaxIndex
      /\ MaxIndex \in Nat /\ value_index \in Nat /\ value_index >= 1
  BY <1>1, <1>4, TextIs, DataIs, BoundAssumption DEF ArgumentsOK, TypeOK
<1>6. s \in Nat /\ s >= 1 /\ s >= DataStart
  BY <1>4, <1>5
<1> HIDE DEF s, end
<1>7. /\ end \in s .. Len(response) /\ end \in Delimiters
      /\ \A d \in Delimiters : ~(s <= d /\ d < end)
  BY <1>1, <1>2, <1>4, EndIs
<1>8. end \in Nat /\ s <= end /\ end <= Len(response)
  BY <1>5, <1>6, <1>7
<1>9. FieldOf(end + 1) = FieldOf(s) + 1
  BY <1>1, <1>6, <1>7, <1>8, FieldNext
<1>10. FieldOf(start_value_ptr)' = value_index
  <2>1. FieldOf(start_value_ptr)' = FieldOf(end + 1)
    BY <1>2, <1>3 DEF FieldOf
  <2>2. QED
    BY <1>4, <1>9, <2>1
<1>11. end + 1 \in DataStart .. Len(response) + 1
       /\ (end + 1) - 1 = end /\ end + 1 \in Position
  BY <1>5, <1>6, <1>8 DEF Position
<1>12. end_value_ptr' \in Position \union {NULL}
  <2> DEFINE next == Strchr(response, end + 1, RESPONSE_DELIMITER)
  <2> HIDE DEF next
  <2>1. next = NULL \/ next \in end + 1 .. Len(response)
    BY <1>1, <1>4, <1>11, EndIs DEF next
  <2>2. next \in Position \union {NULL}
    BY <1>5, <1>8, <2>1 DEF Position
  <2>3. QED
    BY <1>2, <2>2 DEF next
<1>13. value_index' \in 1 .. MaxIndex + 1
  BY <1>2, <1>5
<1>14. TypeOK'
  BY <1>1, <1>2, <1>3, <1>11, <1>12, <1>13 DEF TypeOK
<1>15. /\ start_value_ptr' \in DataStart' .. Len(response') + 1
       /\ end_value_ptr'
            = Strchr(response', start_value_ptr', RESPONSE_DELIMITER)
       /\ value_index' = FieldOf(start_value_ptr)' + 1
       /\ FieldOf(start_value_ptr)' <= index'
       /\ start_value_ptr' - 1 \in Delimiters'
       /\ Delimiters' = {} => index' = 0
  BY <1>2, <1>3, <1>4, <1>7, <1>10, <1>11
<1>16. Searching'
  BY <1>3, <1>4, <1>15 DEF Searching, Strchr
<1>17. QED
  BY <1>2, <1>14, <1>16 DEF ExtractInvariant, Starting, FoundIsReached,
                            NotFoundBeyond

LEMMA CopyValueStep ==
  ASSUME ExtractInvariant, CopyValue PROVE ExtractInvariant'
<1>1. TypeOK /\ ArgumentsOK /\ Searching
  BY Arguments DEF ExtractInvariant
<1>2. /\ UNCHANGED arguments /\ pc = "search" /\ ~More
      /\ start_value_ptr' = start_value_ptr /\ end_value_ptr' = end_value_ptr
      /\ value_index' = value_index
  BY DEF CopyValue
<1>3. /\ response' = response /\ index' = index
      /\ start_character' = start_character
      /\ destination_buffer_size' = destination_buffer_size
      /\ HasStart' = HasStart /\ DataStart' = DataStart
      /\ Delimiters' = Delimiters /\ Reached' = Reached
  BY <1>2, SameArguments
<1>4. InField(Reached)' = InField(Reached)
  BY <1>2, <1>3 DEF InField, FieldOf, Payload
<1>5. Value \in Text /\ IsField(Value, start_value_ptr)
  BY <1>1, <1>2, ValueIs
<1> DEFINE v == Value
<1> HIDE DEF v
<1>6. v \in Seq(Character) /\ Len(v) \in Nat
  BY <1>5, TextIs, BoundAssumption DEF v
<1>7. /\ Len(v) = Cardinality(InField(Reached))
      /\ \A i \in InField(Reached) :
           v[Cardinality({j \in InField(Reached) : j <= i})] = response[i]
  BY <1>5, <1>6, FieldCounts DEF v
<1>8. destination_buffer_size \in Nat
  BY <1>1, BoundAssumption DEF TypeOK
<1>9. CASE Fits(v)
  <2>1. pc' = "found" /\ destination_buffer' = v
    BY <1>9 DEF CopyValue, v
  <2>2. FoundIsReached'
    BY <1>3, <1>4, <1>7, <1>9, <2>1 DEF FoundIsReached, Returned, Fits
  <2>3. TypeOK'
    BY <1>1, <1>2, <1>3, <1>5, <2>1 DEF TypeOK, v
  <2>4. QED
    BY <2>1, <2>2, <2>3 DEF ExtractInvariant, Starting, Searching,
                            NotFoundBeyond
<1>10. CASE ~Fits(v)
  <2>1. pc' = "not_found" /\ destination_buffer' = destination_buffer
    BY <1>10 DEF CopyValue, v
  <2>2. Cardinality(InField(Reached)) >= destination_buffer_size
    BY <1>6, <1>7, <1>8, <1>10 DEF Fits
  <2>3. NotFoundBeyond'
    BY <1>3, <1>4, <2>2 DEF NotFoundBeyond
  <2>4. TypeOK'
    BY <1>1, <1>2, <1>3, <2>1 DEF TypeOK
  <2>5. QED
    BY <2>1, <2>3, <2>4 DEF ExtractInvariant, Starting, Searching,
                            FoundIsReached
<1>11. QED
  BY <1>9, <1>10

LEMMA ExtractStep == ExtractInvariant /\ [Next]_vars => ExtractInvariant'
<1> SUFFICES ASSUME ExtractInvariant, [Next]_vars PROVE ExtractInvariant'
  OBVIOUS
<1>1. CASE Split
  BY <1>1, SplitStep
<1>2. CASE NextValue
  BY <1>2, NextValueStep
<1>3. CASE CopyValue
  BY <1>3, CopyValueStep
<1>4. CASE UNCHANGED vars
  <2>1. /\ UNCHANGED arguments /\ pc' = pc
        /\ start_value_ptr' = start_value_ptr
        /\ end_value_ptr' = end_value_ptr /\ value_index' = value_index
        /\ destination_buffer' = destination_buffer
    BY <1>4 DEF vars
  <2>2. /\ response' = response /\ index' = index
        /\ start_character' = start_character
        /\ destination_buffer_size' = destination_buffer_size
        /\ HasStart' = HasStart /\ DataStart' = DataStart
        /\ Delimiters' = Delimiters /\ Reached' = Reached
    BY <2>1, SameArguments
  <2>3. /\ FieldOf(start_value_ptr)' = FieldOf(start_value_ptr)
        /\ InField(Reached)' = InField(Reached)
    BY <2>1, <2>2 DEF InField, FieldOf, Payload
  <2>4. TypeOK' /\ Starting'
    BY <2>1, <2>2 DEF ExtractInvariant, TypeOK, Starting
  <2>5. Searching'
    BY <2>1, <2>2, <2>3 DEF ExtractInvariant, Searching, Strchr
  <2>6. FoundIsReached' /\ NotFoundBeyond'
    BY <2>1, <2>2, <2>3
       DEF ExtractInvariant, FoundIsReached, Returned, NotFoundBeyond
  <2>7. QED
    BY <2>4, <2>5, <2>6 DEF ExtractInvariant
<1>5. QED
  BY <1>1, <1>2, <1>3, <1>4 DEF Next

LEMMA ExtractAlways == Spec => []ExtractInvariant
  BY InitExtract, ExtractStep, PTL DEF Spec

(* The pointers of the search stay within the copy of the response.        *)
THEOREM ExtractTypeCorrect == Spec => []TypeOK
<1>1. ExtractInvariant => TypeOK
  BY DEF ExtractInvariant
<1>2. QED
  BY <1>1, ExtractAlways, PTL

(* When the function returns true and the response has a value of that     *)
(* index, it has copied that value, all of it and nothing else.  (For an   *)
(* index beyond the last value it copies the last one: FoundIsReached.)    *)
THEOREM InRangeIsValueTheorem == Spec => []InRangeIsValue
<1>1. ExtractInvariant => InRangeIsValue
  BY DEF ExtractInvariant, FoundIsReached, InRangeIsValue, Reached
<1>2. QED
  BY <1>1, ExtractAlways, PTL

(* When it returns false, there was no such value or no room for it.       *)
THEOREM NotFoundOnlyIfAbsentTheorem == Spec => []NotFoundOnlyIfAbsent
<1>1. ASSUME ExtractInvariant PROVE NotFoundOnlyIfAbsent
  <2>1. index \in Nat
    BY <1>1, BoundAssumption DEF ExtractInvariant, TypeOK
  <2>2. Delimiters = {} => Cardinality(Delimiters) = 0
    BY FS_EmptySet
  <2>3. TypeOK /\ NotFoundBeyond
    BY <1>1 DEF ExtractInvariant
  <2>4. CASE index <= Cardinality(Delimiters)
    <3>1. Reached = index
      BY <2>4 DEF Reached
    <3>2. ~(Delimiters = {} /\ index > 0)
      BY <2>1, <2>2, <2>4
    <3>3. QED
      BY <2>3, <3>1, <3>2 DEF NotFoundBeyond, NotFoundOnlyIfAbsent
  <2>5. CASE ~(index <= Cardinality(Delimiters))
    <3>1. Cardinality(Delimiters) \in Nat
      BY <2>3, Arguments, BeforeIs, FS_CardinalityType
    <3>2. index > Cardinality(Delimiters)
      BY <2>1, <2>5, <3>1
    <3>3. QED
      BY <3>2 DEF NotFoundOnlyIfAbsent
  <2>6. QED
    BY <2>4, <2>5
<1>2. QED
  BY <1>1, ExtractAlways, PTL
=============================================================================

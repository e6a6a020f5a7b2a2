--------------------------- MODULE UrcStreamProofs ---------------------------
(***************************************************************************)
(* What the URC parser promises the callbacks, for every table of          *)
(* identifiers, every size of the buffers and every stream of bytes.       *)
(***************************************************************************)
EXTENDS UrcStream, SequenceTheorems, WellFoundedInduction, TLAPS

LEMMA Slots == MAX_CALLBACKS \in Nat /\ 0 \in Slot /\ Slot \subseteq Nat
  BY TableAssumption DEF Slot

LEMMA LeastExists ==
  ASSUME NEW S \in SUBSET Nat, S # {}
  PROVE  \E i \in S : \A j \in S : i <= j
<1> DEFINE R == OpToRel(<, Nat)
<1>1. IsWellFoundedOn(R, Nat)
  BY NatLessThanWellFounded
<1>2. PICK i \in S : \A j \in S : <<j, i>> \notin R
  BY <1>1, WFMin, Zenon
<1>3. ASSUME NEW j \in S PROVE i <= j
  <2>1. SUFFICES ASSUME ~(i <= j) PROVE FALSE
    OBVIOUS
  <2>2. i \in Nat /\ j \in Nat /\ j < i
    BY <2>1
  <2>3. <<j, i>> \in R
    BY <2>2 DEF OpToRel
  <2>4. QED
    BY <1>2, <2>3
<1>4. QED
  BY <1>3

LEMMA MatchIsMatching ==
  ASSUME Matching # {}
  PROVE  MatchIndex \in Slot
         /\ urcs[MatchIndex].identifier = urc_identifier_buffer
<1>1. Matching \in SUBSET Nat
  BY Slots DEF Matching
<1>2. \E i \in Matching : \A j \in Matching : i <= j
  BY <1>1, LeastExists
<1>3. MatchIndex \in Matching
  BY <1>2 DEF MatchIndex
<1>4. QED
  BY <1>3 DEF Matching
(* Every case of the parser keeps its buffers within their sizes, and      *)
(* looks up no empty identifier.                                           *)
LEMMA ParseTypes ==
  ASSUME ParserTypeOK, MatchedSlotInUse, NEW b \in Byte, Parse(b)
  PROVE  ParserTypeOK' /\ MatchedSlotInUse'
<1> USE TableAssumption DEF ParserTypeOK, MatchedSlotInUse, UrcParseState
<1>1. CASE LookForStart(b)
  <2>1. CASE b = "+"
    BY <1>1, <2>1 DEF LookForStart
  <2>2. CASE b # "+"
    BY <1>1, <2>2 DEF LookForStart
  <2>3. QED
    BY <2>1, <2>2
<1>2. CASE EvaluateIdentifier(b)
  <2>1. CASE b \in Digit
    BY <1>2, <2>1 DEF EvaluateIdentifier
  <2>2. CASE b \notin Digit
    <3>1. urc_identifier_buffer' = <<b>>
      BY <1>2, <2>2 DEF EvaluateIdentifier
    <3>2. QED
      BY <1>2, <2>2, <3>1 DEF EvaluateIdentifier
  <2>3. QED
    BY <2>1, <2>2
<1>3. CASE LookUpIdentifier(b)
  <2>1. CASE Matches(b)
    <3>1. /\ MatchIndex \in Slot
          /\ urcs[MatchIndex].identifier = urc_identifier_buffer
          /\ urcs[MatchIndex].callback \in Callback
      BY <2>1, MatchIsMatching DEF Matches, Callback
    <3>2. QED
      BY <1>3, <2>1, <3>1 DEF LookUpIdentifier
  <2>2. CASE ~Matches(b)
    BY <1>3, <2>2 DEF LookUpIdentifier
  <2>3. QED
    BY <2>1, <2>2
<1>4. CASE ExtendIdentifier(b)
  <2>1. CASE Len(urc_identifier_buffer) = IDENTIFIER_SIZE
    BY <1>4, <2>1 DEF ExtendIdentifier
  <2>2. CASE Len(urc_identifier_buffer) # IDENTIFIER_SIZE
    <3>1. /\ Append(urc_identifier_buffer, b) \in Seq(Byte)
          /\ Append(urc_identifier_buffer, b) # <<>>
          /\ Len(Append(urc_identifier_buffer, b))
               = Len(urc_identifier_buffer) + 1
      BY AppendProperties
    <3>2. /\ urc_identifier_buffer' = Append(urc_identifier_buffer, b)
          /\ urc_parse_state' = "PARSING_IDENTIFIER"
          /\ UNCHANGED <<urc_data_buffer, urc_index, urc_current_callback>>
      BY <1>4, <2>2 DEF ExtendIdentifier
    <3>3. Len(urc_identifier_buffer) + 1 <= IDENTIFIER_SIZE
      BY <2>2, LenProperties
    <3>4. QED
      BY <3>1, <3>2, <3>3
  <2>3. QED
    BY <2>1, <2>2
<1>5. CASE CompleteData(b)
  BY <1>5 DEF CompleteData, Completes, Callback
<1>6. CASE ExtendData(b)
  <2>1. CASE Len(urc_data_buffer) = DATA_SIZE
    BY <1>6, <2>1 DEF ExtendData
  <2>2. CASE Len(urc_data_buffer) # DATA_SIZE
    <3>1. /\ Append(urc_data_buffer, b) \in Seq(Byte)
          /\ Len(Append(urc_data_buffer, b)) = Len(urc_data_buffer) + 1
      BY AppendProperties
    <3>2. /\ urc_data_buffer' = Append(urc_data_buffer, b)
          /\ urc_parse_state' = "PARSING_DATA"
          /\ UNCHANGED <<urc_identifier_buffer, urc_index,
                         urc_current_callback>>
      BY <1>6, <2>2 DEF ExtendData
    <3>3. Len(urc_data_buffer) + 1 <= DATA_SIZE
      BY <2>2, LenProperties
    <3>4. QED
      BY <1>6, <3>1, <3>2, <3>3 DEF ExtendData
  <2>3. QED
    BY <2>1, <2>2
<1>7. QED
  BY <1>1, <1>2, <1>3, <1>4, <1>5, <1>6 DEF Parse
-----------------------------------------------------------------------------
LEMMA Suffix ==
  ASSUME NEW s \in Seq(Byte), NEW m \in 1 .. Len(s) + 1
  PROVE  /\ From(s, m) \in Seq(Byte)
         /\ Len(From(s, m)) = Len(s) - m + 1
         /\ \A k \in 1 .. Len(s) - m + 1 : From(s, m)[k] = s[m + k - 1]
<1>1. Len(s) \in Nat
  BY LenProperties
<1>2. From(s, m) = SubSeq(s, m, Len(s))
  BY DEF From
<1>3. /\ SubSeq(s, m, Len(s)) \in Seq(Byte)
      /\ Len(SubSeq(s, m, Len(s))) =
           (IF m <= Len(s) THEN Len(s) - m + 1 ELSE 0)
      /\ \A k \in 1 .. Len(s) - m + 1 :
           SubSeq(s, m, Len(s))[k] = s[m + k - 1]
  BY <1>1, SubSeqProperties
<1>4. QED
  BY <1>1, <1>2, <1>3

(* In s, the bytes from position m on begin a URC of slot i.               *)
Name(i) == urcs[i].identifier

Begins(s, m, i) ==
  LET l == Len(Name(i))
      n == Len(s) - m + 1
  IN  /\ n >= 1 => s[m] = "+"
      /\ \A k \in 1 .. l : k + 1 <= n => s[m + k] = Name(i)[k]
      /\ l + 2 <= n => EndsIdentifier(s[m + l + 1])
      /\ \A k \in l + 3 .. n - 1 : ~EndsData(s[m + k - 1])
      /\ n <= DATA_SIZE + l + 3

LEMMA Names ==
  ASSUME NEW i \in Slot
  PROVE  Name(i) \in Seq(Byte) /\ Len(Name(i)) \in Nat
<1>1. Name(i) \in Seq(Byte)
  BY TableAssumption DEF Name
<1>2. QED
  BY <1>1, LenProperties

LEMMA BeginsAt ==
  ASSUME NEW s \in Seq(Byte), NEW m \in 1 .. Len(s) + 1, NEW i \in Slot
  PROVE  BeginsUrc(From(s, m), i) <=> Begins(s, m, i)
<1> DEFINE f == From(s, m)
           l == Len(Name(i))
           n == Len(s) - m + 1
<1>1. /\ f \in Seq(Byte) /\ Len(f) = n
      /\ \A k \in 1 .. n : f[k] = s[m + k - 1]
  BY Suffix
<1>2. l \in Nat /\ n \in Nat /\ m \in Nat /\ Len(s) \in Nat
      /\ DATA_SIZE \in Nat
  BY Names, LenProperties, TableAssumption
<1> HIDE DEF f, l, n
<1>3. DOMAIN f = 1 .. n
  BY <1>1, LenProperties
<1>4. 1 \in DOMAIN f => f[1] = s[m]
  BY <1>1, <1>2, <1>3
<1>5. \A k \in 1 .. l : k + 1 \in DOMAIN f => f[k + 1] = s[m + k]
  BY <1>1, <1>2, <1>3
<1>6. l + 2 \in DOMAIN f => f[l + 2] = s[m + l + 1]
  BY <1>1, <1>2, <1>3
<1>7. \A k \in l + 3 .. n - 1 : f[k] = s[m + k - 1]
  BY <1>1, <1>2
<1>8. Len(DataFrom(f, i)) <= DATA_SIZE <=> n <= DATA_SIZE + l + 3
  <2>1. DataFrom(f, i) = SubSeq(f, l + 3, n - 1)
    BY <1>1 DEF DataFrom, Name, l
  <2>2. Len(SubSeq(f, l + 3, n - 1)) =
          IF l + 3 <= n - 1 THEN (n - 1) - (l + 3) + 1 ELSE 0
    BY <1>1, <1>2, SubSeqProperties
  <2>3. QED
    BY <1>2, <2>1, <2>2
<1>9. BeginsUrc(f, i) <=>
        /\ 1 \in DOMAIN f => f[1] = "+"
        /\ \A k \in 1 .. l : k + 1 \in DOMAIN f => f[k + 1] = Name(i)[k]
        /\ l + 2 \in DOMAIN f => EndsIdentifier(f[l + 2])
        /\ \A k \in l + 3 .. n - 1 : ~EndsData(f[k])
        /\ Len(DataFrom(f, i)) <= DATA_SIZE
  BY <1>1 DEF BeginsUrc, Name, l
<1>10. Begins(s, m, i) <=>
        /\ n >= 1 => s[m] = "+"
        /\ \A k \in 1 .. l : k + 1 <= n => s[m + k] = Name(i)[k]
        /\ l + 2 <= n => EndsIdentifier(s[m + l + 1])
        /\ \A k \in l + 3 .. n - 1 : ~EndsData(s[m + k - 1])
        /\ n <= DATA_SIZE + l + 3
  BY DEF Begins, l, n
<1>11. /\ 1 \in DOMAIN f <=> n >= 1
       /\ \A k \in 1 .. l : k + 1 \in DOMAIN f <=> k + 1 <= n
       /\ l + 2 \in DOMAIN f <=> l + 2 <= n
  BY <1>2, <1>3
<1>12. QED
  BY <1>4, <1>5, <1>6, <1>7, <1>8, <1>9, <1>10, <1>11 DEF f
-----------------------------------------------------------------------------
(* What is kept of a text: its end, and more than three bytes before every *)
(* position where a URC may begin, unless it is all kept.                  *)
LEMMA RecentIs ==
  ASSUME NEW s \in Seq(Byte), Len(s) >= 3
  PROVE  \E d \in 0 .. Len(s) - 2 :
           /\ Recent(s) \in Seq(Byte)
           /\ Len(Recent(s)) = Len(s) - d
           /\ \A k \in 1 .. Len(s) - d : Recent(s)[k] = s[d + k]
           /\ \A m \in 1 .. Len(s) + 1, i \in Slot :
                Begins(s, m, i) => m > d /\ (d = 0 \/ m >= d + 4)
<1> DEFINE starts == {m \in 1 .. Len(s) + 1 :
                        \E i \in Slot : BeginsUrc(From(s, m), i)}
           first == CHOOSE m \in starts : \A n \in starts : m <= n
           d == IF first > 3 THEN first - 4 ELSE 0
<1>1. Len(s) \in Nat
  BY LenProperties
<1>2. \A m \in 1 .. Len(s) + 1, i \in Slot :
        Begins(s, m, i) => m \in starts
  BY BeginsAt
<1>3. Len(s) + 1 \in starts
  <2>1. Begins(s, Len(s) + 1, 0)
    <3>1. Len(s) - (Len(s) + 1) + 1 = 0
      BY <1>1
    <3>2. Len(Name(0)) \in Nat /\ DATA_SIZE \in Nat
      BY Slots, Names, TableAssumption
    <3>3. QED
      BY <3>1, <3>2 DEF Begins
  <2>2. QED
    BY <1>1, <1>2, <2>1, Slots
<1>4. starts \in SUBSET Nat
  BY <1>1
<1>5. Recent(s) = From(s, IF first > 3 THEN first - 3 ELSE 1)
  BY DEF Recent
<1> HIDE DEF starts
<1>6. first \in starts /\ \A n \in starts : first <= n
  BY <1>3, <1>4, LeastExists
<1> HIDE DEF first
<1>7. first \in Nat /\ first <= Len(s) + 1
  BY <1>3, <1>4, <1>6
<1>8. /\ d \in 0 .. Len(s) - 2 /\ d + 1 \in 1 .. Len(s) + 1
      /\ Recent(s) = From(s, d + 1)
      /\ d = 0 \/ first = d + 4
      /\ first > d \/ first = 0
  BY <1>1, <1>5, <1>7
<1>9. first >= 1
  BY <1>6 DEF starts
<1> HIDE DEF d
<1>10. /\ Recent(s) \in Seq(Byte)
       /\ Len(Recent(s)) = Len(s) - d
       /\ \A k \in 1 .. Len(s) - d : Recent(s)[k] = s[d + k]
  <2>1. /\ From(s, d + 1) \in Seq(Byte)
        /\ Len(From(s, d + 1)) = Len(s) - (d + 1) + 1
        /\ \A k \in 1 .. Len(s) - (d + 1) + 1 :
             From(s, d + 1)[k] = s[(d + 1) + k - 1]
    BY <1>8, Suffix
  <2>2. Len(s) - (d + 1) + 1 = Len(s) - d
        /\ \A k \in 1 .. Len(s) - d : (d + 1) + k - 1 = d + k
    BY <1>1, <1>8
  <2>3. QED
    BY <1>8, <2>1, <2>2
<1>11. ASSUME NEW m \in 1 .. Len(s) + 1, NEW i \in Slot, Begins(s, m, i)
       PROVE  m > d /\ (d = 0 \/ m >= d + 4)
  <2>1. first <= m
    BY <1>2, <1>6, <1>11
  <2>2. QED
    BY <1>1, <1>7, <1>8, <1>9, <2>1
<1>12. QED
  BY <1>8, <1>10, <1>11
-----------------------------------------------------------------------------
(* A URC begins in the end that is kept as it does in the whole.           *)
LEMMA Shift ==
  ASSUME NEW s \in Seq(Byte), NEW r \in Seq(Byte), NEW d \in Nat,
         Len(r) = Len(s) - d, \A k \in 1 .. Len(r) : r[k] = s[d + k],
         NEW m \in 1 .. Len(r) + 1, NEW i \in Slot
  PROVE  Begins(r, m, i) <=> Begins(s, m + d, i)
<1> DEFINE l == Len(Name(i))
           n == Len(r) - m + 1
<1>1. /\ l \in Nat /\ Len(r) \in Nat /\ Len(s) \in Nat /\ n \in Nat
      /\ n = Len(s) - (m + d) + 1
  BY Names, LenProperties
<1>2. n >= 1 => r[m] = s[m + d]
  <2>1. n >= 1 => m \in 1 .. Len(r)
    BY <1>1
  <2>2. m + d = d + m
    OBVIOUS
  <2>3. QED
    BY <2>1, <2>2
<1>3. \A k \in 1 .. l : k + 1 <= n => r[m + k] = s[(m + d) + k]
  BY <1>1
<1>4. l + 2 <= n => r[m + l + 1] = s[(m + d) + l + 1]
  BY <1>1
<1>5. \A k \in l + 3 .. n - 1 : r[m + k - 1] = s[(m + d) + k - 1]
  BY <1>1
<1> HIDE DEF l, n
<1>6. Begins(r, m, i) <=>
        /\ n >= 1 => r[m] = "+"
        /\ \A k \in 1 .. l : k + 1 <= n => r[m + k] = Name(i)[k]
        /\ l + 2 <= n => EndsIdentifier(r[m + l + 1])
        /\ \A k \in l + 3 .. n - 1 : ~EndsData(r[m + k - 1])
        /\ n <= DATA_SIZE + l + 3
  BY DEF Begins, l, n
<1>7. Begins(s, m + d, i) <=>
        /\ n >= 1 => s[m + d] = "+"
        /\ \A k \in 1 .. l : k + 1 <= n => s[(m + d) + k] = Name(i)[k]
        /\ l + 2 <= n => EndsIdentifier(s[(m + d) + l + 1])
        /\ \A k \in l + 3 .. n - 1 : ~EndsData(s[(m + d) + k - 1])
        /\ n <= DATA_SIZE + l + 3
  BY <1>1 DEF Begins, l
<1>8. QED
  BY <1>2, <1>3, <1>4, <1>5, <1>6, <1>7

(* s is the stream with byte b, of which the first d bytes are forgotten.  *)
Received(b, d, s) ==
  /\ Len(stream) >= 2 /\ Len(s) = Len(stream) + 1
  /\ \A k \in 1 .. Len(stream) : s[k] = stream[k]
  /\ s[Len(stream) + 1] = b
  /\ stream' \in Seq(Byte) /\ Len(stream') = Len(s) - d
  /\ \A k \in 1 .. Len(stream') : stream'[k] = s[d + k]
  /\ \A m \in 1 .. Len(s) + 1, i \in Slot :
       Begins(s, m, i) => m > d /\ (d = 0 \/ m >= d + 4)

LEMMA ByteIsReceived ==
  ASSUME stream \in Seq(Byte), Len(stream) >= 2, NEW b \in Byte,
         ReceiveByte(b)
  PROVE  \E d \in 0 .. Len(stream) - 1, s \in Seq(Byte) : Received(b, d, s)
<1> DEFINE s == Append(stream, b)
<1>1. /\ s \in Seq(Byte) /\ Len(s) = Len(stream) + 1 /\ Len(stream) \in Nat
      /\ \A k \in 1 .. Len(stream) : s[k] = stream[k]
      /\ s[Len(stream) + 1] = b
  BY AppendProperties, LenProperties
<1>2. stream' = Recent(s)
  BY DEF ReceiveByte
<1> HIDE DEF s
<1>3. PICK d \in 0 .. Len(s) - 2 :
        /\ Recent(s) \in Seq(Byte)
        /\ Len(Recent(s)) = Len(s) - d
        /\ \A k \in 1 .. Len(s) - d : Recent(s)[k] = s[d + k]
        /\ \A m \in 1 .. Len(s) + 1, i \in Slot :
             Begins(s, m, i) => m > d /\ (d = 0 \/ m >= d + 4)
  <2>1. Len(s) >= 3
    BY <1>1
  <2>2. QED
    BY <1>1, <2>1, RecentIs
<1>4. d \in 0 .. Len(stream) - 1
  BY <1>1
<1>5. Received(b, d, s)
  BY <1>1, <1>2, <1>3 DEF Received
<1>6. QED
  BY <1>1, <1>4, <1>5
-----------------------------------------------------------------------------
(* What the parser has taken in is at the end of the stream, ...           *)
Prefixes(u, t) == Len(u) <= Len(t) /\ \A k \in 1 .. Len(u) : u[k] = t[k]

EndsWith(s, u) ==
  /\ Len(s) > Len(u) /\ s[Len(s) - Len(u)] = "+"
  /\ \A k \in 1 .. Len(u) : s[Len(s) - Len(u) + k] = u[k]

PlusThere ==
  urc_parse_state = "EVALUATING_IDENTIFIER" => stream[Len(stream)] = "+"

IdentifierThere ==
  urc_parse_state = "PARSING_IDENTIFIER" =>
    \A i \in Slot : Prefixes(urc_identifier_buffer, Name(i)) =>
                      EndsWith(stream, urc_identifier_buffer)

DataAt == Len(stream) - Len(urc_data_buffer) - Len(Name(urc_index)) - 1

DataThere ==
  urc_parse_state = "PARSING_DATA" =>
    /\ DataAt >= 1 /\ Begins(stream, DataAt, urc_index)
    /\ \A k \in 1 .. Len(urc_data_buffer) :
         /\ stream[DataAt + Len(Name(urc_index)) + 1 + k] = urc_data_buffer[k]
         /\ ~EndsData(urc_data_buffer[k])

Types ==
  /\ ParserTypeOK /\ MatchedSlotInUse
  /\ stream \in Seq(Byte) /\ Len(stream) >= 2

LEMMA TypesStep ==
  ASSUME Types, NEW b \in Byte, Parse(b),
         NEW d \in 0 .. Len(stream) - 1, NEW s \in Seq(Byte), Received(b, d, s)
  PROVE  Types'
<1>1. ParserTypeOK' /\ MatchedSlotInUse'
  BY ParseTypes DEF Types
<1>2. stream' \in Seq(Byte) /\ Len(stream') >= 2
  BY LenProperties DEF Received, Types
<1>3. QED
  BY <1>1, <1>2 DEF Types

(* The cases of the switch are one for each state.                         *)
LEMMA CaseOf ==
  ASSUME NEW b, Parse(b)
  PROVE  /\ urc_parse_state = "NOT_PARSING" => LookForStart(b)
         /\ urc_parse_state = "EVALUATING_IDENTIFIER" => EvaluateIdentifier(b)
         /\ urc_parse_state = "PARSING_IDENTIFIER" =>
              IF EndsIdentifier(b) THEN LookUpIdentifier(b)
              ELSE ExtendIdentifier(b)
         /\ urc_parse_state = "PARSING_DATA" =>
              IF EndsData(b) THEN CompleteData(b) ELSE ExtendData(b)
  BY DEF Parse, LookForStart, EvaluateIdentifier, LookUpIdentifier,
         ExtendIdentifier, CompleteData, ExtendData, Completes

LEMMA PlusStep ==
  ASSUME Types, NEW b \in Byte, Parse(b),
         NEW d \in 0 .. Len(stream) - 1, NEW s \in Seq(Byte), Received(b, d, s)
  PROVE  PlusThere'
<1> SUFFICES ASSUME urc_parse_state' = "EVALUATING_IDENTIFIER"
             PROVE  stream'[Len(stream')] = "+"
  BY DEF PlusThere
<1>1. b = "+"
  <2>1. CASE LookForStart(b)
    BY <2>1 DEF LookForStart
  <2>2. CASE ~LookForStart(b)
    BY <2>2 DEF Parse, EvaluateIdentifier, LookUpIdentifier,
                ExtendIdentifier, CompleteData, ExtendData
  <2>3. QED
    BY <2>1, <2>2
<1>2. Len(stream) \in Nat /\ Len(stream) >= 2
  BY LenProperties DEF Types
<1>3. Len(stream') \in 1 .. Len(stream') /\ d + Len(stream') = Len(stream) + 1
  BY <1>2 DEF Received
<1>4. stream'[Len(stream')] = s[d + Len(stream')]
  BY <1>3 DEF Received
<1>5. QED
  BY <1>1, <1>3, <1>4 DEF Received

LEMMA IdentifierBegins ==
  ASSUME NEW s \in Seq(Byte), NEW u \in Seq(Byte), NEW i \in Slot,
         EndsWith(s, u), Prefixes(u, Name(i))
  PROVE  Begins(s, Len(s) - Len(u), i)
<1> DEFINE l == Len(Name(i))
           m == Len(s) - Len(u)
<1>1. l \in Nat /\ Len(u) \in Nat /\ Len(s) \in Nat /\ DATA_SIZE \in Nat
  BY Names, LenProperties, TableAssumption
<1>2. /\ Len(s) > Len(u) /\ s[m] = "+"
      /\ \A k \in 1 .. Len(u) : s[m + k] = u[k]
      /\ Len(u) <= l /\ \A k \in 1 .. Len(u) : u[k] = Name(i)[k]
  BY DEF EndsWith, Prefixes
<1>3. Len(s) - m + 1 = Len(u) + 1
  BY <1>1
<1> HIDE DEF l, m
<1>4. \A k \in 1 .. l : k + 1 <= Len(u) + 1 => s[m + k] = Name(i)[k]
  BY <1>1, <1>2
<1>5. /\ ~(l + 2 <= Len(u) + 1)
      /\ \A k \in l + 3 .. (Len(u) + 1) - 1 : FALSE
      /\ Len(u) + 1 <= DATA_SIZE + l + 3
  BY <1>1, <1>2
<1>6. Begins(s, m, i)
  BY <1>2, <1>3, <1>4, <1>5 DEF Begins, l
<1>7. QED
  BY <1>6 DEF m

(* ... where it is kept as long as it may become a URC.                    *)
LEMMA IdentifierKept ==
  ASSUME Types, NEW b, NEW d \in 0 .. Len(stream) - 1,
         NEW s \in Seq(Byte), Received(b, d, s),
         NEW u \in Seq(Byte), NEW i \in Slot, EndsWith(s, u),
         Prefixes(u, Name(i))
  PROVE  EndsWith(stream', u)
<1>1. Len(u) \in Nat /\ Len(s) \in Nat /\ Len(stream) \in Nat
  BY LenProperties DEF Types
<1>2. Begins(s, Len(s) - Len(u), i)
  BY IdentifierBegins
<1>3. /\ Len(s) > Len(u) /\ s[Len(s) - Len(u)] = "+"
      /\ \A k \in 1 .. Len(u) : s[Len(s) - Len(u) + k] = u[k]
  BY DEF EndsWith
<1>4. Len(s) - Len(u) > d
  <2>1. Len(s) - Len(u) \in 1 .. Len(s) + 1
    BY <1>1, <1>3
  <2>2. QED
    BY <1>2, <2>1 DEF Received
<1>5. /\ Len(stream') = Len(s) - d
      /\ \A k \in 1 .. Len(stream') : stream'[k] = s[d + k]
  BY DEF Received
<1>6. stream'[Len(stream') - Len(u)] = "+"
  <2>1. Len(stream') - Len(u) \in 1 .. Len(stream')
        /\ d + (Len(stream') - Len(u)) = Len(s) - Len(u)
    BY <1>1, <1>4, <1>5
  <2>2. QED
    BY <1>3, <1>5, <2>1
<1>7. ASSUME NEW k \in 1 .. Len(u)
      PROVE  stream'[Len(stream') - Len(u) + k] = u[k]
  <2>1. Len(stream') - Len(u) + k \in 1 .. Len(stream')
        /\ d + (Len(stream') - Len(u) + k) = Len(s) - Len(u) + k
    BY <1>1, <1>4, <1>5
  <2>2. QED
    BY <1>3, <1>5, <2>1
<1>8. Len(stream') > Len(u)
  BY <1>1, <1>4, <1>5
<1>9. QED
  BY <1>6, <1>7, <1>8 DEF EndsWith

LEMMA IdentifierStep ==
  ASSUME Types, PlusThere, IdentifierThere, NEW b \in Byte, Parse(b),
         NEW d \in 0 .. Len(stream) - 1, NEW s \in Seq(Byte), Received(b, d, s)
  PROVE  IdentifierThere'
<1> DEFINE u == urc_identifier_buffer
<1> SUFFICES ASSUME urc_parse_state' = "PARSING_IDENTIFIER",
                    NEW i \in Slot, Prefixes(u', Name(i))
             PROVE  EndsWith(stream', u')
  BY DEF IdentifierThere, Name
<1>1. /\ Len(stream) \in Nat /\ Len(s) = Len(stream) + 1 /\ Len(stream) >= 2
      /\ \A k \in 1 .. Len(stream) : s[k] = stream[k]
      /\ s[Len(stream) + 1] = b
      /\ u \in Seq(Byte) /\ u' \in Seq(Byte)
  BY LenProperties, ParseTypes DEF Types, Received, ParserTypeOK
<1>2. u' = Append(u, b)
      /\ \/ urc_parse_state = "EVALUATING_IDENTIFIER"
         \/ urc_parse_state = "PARSING_IDENTIFIER"
  <2>1. CASE EvaluateIdentifier(b)
    BY <2>1 DEF EvaluateIdentifier
  <2>2. CASE ExtendIdentifier(b)
    BY <2>2 DEF ExtendIdentifier
  <2>3. CASE LookForStart(b) \/ LookUpIdentifier(b)
    BY <2>3 DEF LookForStart, LookUpIdentifier
  <2>4. CASE CompleteData(b) \/ ExtendData(b)
    BY <2>4 DEF CompleteData, ExtendData
  <2>5. QED
    BY <2>1, <2>2, <2>3, <2>4 DEF Parse
<1>3. /\ Len(u') = Len(u) + 1 /\ Len(u) \in Nat
      /\ \A k \in 1 .. Len(u) : u'[k] = u[k]
      /\ u'[Len(u) + 1] = b
  BY <1>1, <1>2, AppendProperties, LenProperties
<1>4. EndsWith(stream, u)
  <2>1. CASE urc_parse_state = "EVALUATING_IDENTIFIER"
    <3>1. u = <<>> /\ stream[Len(stream)] = "+"
      BY <2>1 DEF Types, MatchedSlotInUse, PlusThere
    <3>2. Len(u) = 0
      BY <3>1
    <3>3. QED
      BY <1>1, <3>1, <3>2 DEF EndsWith
  <2>2. CASE urc_parse_state = "PARSING_IDENTIFIER"
    <3>1. Prefixes(u, Name(i))
      <4>1. Len(Name(i)) \in Nat
        BY Names
      <4>2. QED
        BY <1>3, <4>1 DEF Prefixes
    <3>2. QED
      BY <2>2, <3>1 DEF IdentifierThere
  <2>3. QED
    BY <1>2, <2>1, <2>2
<1>5. /\ Len(stream) > Len(u) /\ stream[Len(stream) - Len(u)] = "+"
      /\ \A k \in 1 .. Len(u) : stream[Len(stream) - Len(u) + k] = u[k]
  BY <1>4 DEF EndsWith
<1> HIDE DEF u
<1>6. Len(s) - Len(u') = Len(stream) - Len(u)
      /\ Len(stream) - Len(u) \in 1 .. Len(stream)
  BY <1>1, <1>3, <1>5
<1>7. s[Len(s) - Len(u')] = "+"
  BY <1>1, <1>5, <1>6
<1>8. ASSUME NEW k \in 1 .. Len(u')
      PROVE  s[Len(s) - Len(u') + k] = u'[k]
  <2>1. CASE k <= Len(u)
    <3>1. k \in 1 .. Len(u) /\ Len(stream) - Len(u) + k \in 1 .. Len(stream)
      BY <1>3, <1>6, <2>1
    <3>2. QED
      BY <1>1, <1>3, <1>5, <1>6, <3>1
  <2>2. CASE k = Len(u) + 1
    <3>1. Len(s) - Len(u') + k = Len(stream) + 1
      BY <1>1, <1>3, <2>2
    <3>2. QED
      BY <1>1, <1>3, <2>2, <3>1
  <2>3. QED
    BY <1>3, <2>1, <2>2
<1>9. Len(s) > Len(u')
  BY <1>1, <1>3, <1>5
<1>10. EndsWith(s, u')
  BY <1>7, <1>8, <1>9 DEF EndsWith
<1>11. QED
  BY <1>1, <1>10, IdentifierKept
-----------------------------------------------------------------------------
(* With one more byte, the URC whose data is parsed still begins where it  *)
(* has begun.                                                              *)
LEMMA DataBegins ==
  ASSUME Types, DataThere, urc_parse_state = "PARSING_DATA",
         NEW b, NEW d \in 0 .. Len(stream) - 1,
         NEW s \in Seq(Byte), Received(b, d, s)
  PROVE  /\ Begins(s, DataAt, urc_index)
         /\ DataAt > d /\ DataAt <= Len(stream) /\ DataAt \in Nat
         /\ urc_index \in Slot
         /\ \A k \in 1 .. Len(urc_data_buffer) :
              s[DataAt + Len(Name(urc_index)) + 1 + k] = urc_data_buffer[k]
<1> DEFINE i == urc_index
           l == Len(Name(i))
           m == DataAt
           data == urc_data_buffer
           n == Len(stream) - m + 1
<1>1. /\ i \in Slot /\ l \in Nat /\ Len(data) \in Nat
      /\ Len(data) <= DATA_SIZE /\ DATA_SIZE \in Nat
      /\ Len(stream) \in Nat /\ Len(s) = Len(stream) + 1
  BY Names, LenProperties, TableAssumption DEF Types, ParserTypeOK, Received
<1>2. /\ m >= 1 /\ Begins(stream, m, i)
      /\ \A k \in 1 .. Len(data) : /\ stream[m + l + 1 + k] = data[k]
                                   /\ ~EndsData(data[k])
  BY DEF DataThere
<1>3. m = Len(stream) - Len(data) - l - 1
  BY DEF DataAt
<1>4. \A k \in 1 .. Len(stream) : s[k] = stream[k]
  BY DEF Received
<1> HIDE DEF i, l, m, data
<1>5. /\ stream[m] = "+"
      /\ \A k \in 1 .. l : k + 1 <= n => stream[m + k] = Name(i)[k]
      /\ EndsIdentifier(stream[m + l + 1])
  <2>1. n >= 1 /\ l + 2 <= n
    BY <1>1, <1>3
  <2>2. QED
    BY <1>2, <2>1 DEF Begins, l
<1>6. m \in 1 .. Len(stream) /\ m + l + 1 + Len(data) = Len(stream)
      /\ n = Len(data) + l + 2
  BY <1>1, <1>2, <1>3
<1>7. s[m] = "+" /\ EndsIdentifier(s[m + l + 1])
  BY <1>1, <1>4, <1>5, <1>6
<1>8. ASSUME NEW k \in 1 .. l PROVE s[m + k] = Name(i)[k]
  <2>1. m + k \in 1 .. Len(stream) /\ k + 1 <= n
    BY <1>1, <1>6
  <2>2. stream[m + k] = Name(i)[k]
    BY <1>5, <2>1
  <2>3. QED
    BY <1>4, <2>1, <2>2
<1>9. ASSUME NEW k \in 1 .. Len(data)
      PROVE  s[m + l + 1 + k] = data[k]
  <2>1. m + l + 1 + k \in 1 .. Len(stream)
    BY <1>1, <1>6
  <2>2. QED
    BY <1>2, <1>4, <2>1
<1>10. \A k \in l + 3 .. n : ~EndsData(s[m + k - 1])
  <2>1. ASSUME NEW k \in l + 3 .. n
        PROVE  ~EndsData(s[m + k - 1])
    <3>1. k - l - 2 \in 1 .. Len(data) /\ m + l + 1 + (k - l - 2) = m + k - 1
      BY <1>1, <1>6
    <3>2. QED
      BY <1>2, <1>9, <3>1
  <2>2. QED
    BY <2>1
<1>11. Len(s) - m + 1 = n + 1 /\ n + 1 <= DATA_SIZE + l + 3
  BY <1>1, <1>6
<1>12. Begins(s, m, i)
  <2>1. (n + 1) - 1 = n
    BY <1>1, <1>6
  <2>2. \A k \in l + 3 .. (n + 1) - 1 : ~EndsData(s[m + k - 1])
    BY <1>10, <2>1
  <2>3. QED
    BY <1>7, <1>8, <1>11, <2>2 DEF Begins, l
<1>13. m > d
  <2>1. m \in 1 .. Len(s) + 1
    BY <1>1, <1>6
  <2>2. QED
    BY <1>1, <1>12, <2>1 DEF Received
<1>14. \A k \in 1 .. Len(data) : s[m + l + 1 + k] = data[k]
  BY <1>9
<1>15. m > d /\ m <= Len(stream) /\ m \in Nat
  BY <1>6, <1>13
<1>16. QED
  BY <1>1, <1>12, <1>14, <1>15, Zenon DEF m, i, l, data

LEMMA DataStep ==
  ASSUME Types, IdentifierThere, DataThere, NEW b \in Byte, Parse(b),
         NEW d \in 0 .. Len(stream) - 1, NEW s \in Seq(Byte), Received(b, d, s)
  PROVE  DataThere'
<1> SUFFICES ASSUME urc_parse_state' = "PARSING_DATA"
             PROVE  DataThere'
  BY DEF DataThere
<1>1. /\ Len(stream) \in Nat /\ Len(stream) >= 2 /\ Len(s) = Len(stream) + 1
      /\ stream' \in Seq(Byte) /\ Len(stream') = Len(s) - d
      /\ \A k \in 1 .. Len(stream) : s[k] = stream[k]
      /\ s[Len(stream) + 1] = b /\ d \in Nat
      /\ \A k \in 1 .. Len(stream') : stream'[k] = s[d + k]
      /\ Len(stream') \in Nat
  BY LenProperties DEF Types, Received
<1>2. ASSUME NEW i \in Slot, urc_index' = i, NEW m \in Nat,
             m > d, m <= Len(stream), Begins(s, m, i),
             NEW data \in Seq(Byte), urc_data_buffer' = data,
             m = Len(s) - Len(data) - Len(Name(i)) - 1,
             \A k \in 1 .. Len(data) :
               s[m + Len(Name(i)) + 1 + k] = data[k] /\ ~EndsData(data[k])
      PROVE  DataThere'
  <2> DEFINE l == Len(Name(i))
  <2>1. l \in Nat /\ Len(data) \in Nat
    BY Names, LenProperties
  <2>2. Name(urc_index)' = Name(i)
    BY <1>2 DEF Name
  <2>3. DataAt' = m - d
    <3>1. DataAt' = Len(stream') - Len(data) - l - 1
      BY <1>2, <2>2 DEF DataAt
    <3>2. QED
      BY <1>1, <1>2, <2>1, <3>1
  <2>4. m - d \in 1 .. Len(stream') + 1 /\ (m - d) + d = m
    BY <1>1, <1>2
  <2>5. Begins(stream', m - d, i)
    BY <1>1, <1>2, <2>4, Shift
  <2>6. \A k \in 1 .. Len(data) : stream'[(m - d) + l + 1 + k] = data[k]
    <3>1. ASSUME NEW k \in 1 .. Len(data)
          PROVE  stream'[(m - d) + l + 1 + k] = data[k]
      <4> DEFINE x == (m - d) + l + 1 + k
      <4>1. x \in 1 .. Len(stream') /\ d + x = m + l + 1 + k
        BY <1>1, <1>2, <2>1
      <4> HIDE DEF x
      <4>2. stream'[x] = s[m + l + 1 + k]
        BY <1>1, <4>1
      <4>3. QED
        BY <1>2, <4>2 DEF x
    <3>2. QED
      BY <3>1
  <2>7. (m - d) >= 1
    BY <2>4
  <2>8. Begins(stream, DataAt, urc_index)' <=> Begins(stream', m - d, i)
    BY <1>2, <2>3 DEF Begins, Name
  <2>9. /\ DataAt' >= 1
        /\ Begins(stream, DataAt, urc_index)'
        /\ \A k \in 1 .. Len(urc_data_buffer') :
             /\ stream'[DataAt' + Len(Name(urc_index)') + 1 + k]
                  = urc_data_buffer'[k]
             /\ ~EndsData(urc_data_buffer'[k])
    BY <1>2, <2>2, <2>3, <2>5, <2>6, <2>7, <2>8
  <2>10. QED
    BY <2>9 DEF DataThere
<1>3. CASE LookUpIdentifier(b)
  <2>1. Matches(b) /\ urc_parse_state = "PARSING_IDENTIFIER"
        /\ EndsIdentifier(b)
    BY <1>3 DEF LookUpIdentifier
  <2> DEFINE i == MatchIndex
             u == urc_identifier_buffer
             m == Len(stream) - Len(u)
  <2>2. i \in Slot /\ Name(i) = u
    BY <2>1, MatchIsMatching DEF Matches, Name
  <2>3. urc_index' = i /\ urc_data_buffer' = <<>>
    BY <1>3, <2>1 DEF LookUpIdentifier
  <2>4. u \in Seq(Byte) /\ Len(u) \in Nat
    BY LenProperties DEF Types, ParserTypeOK
  <2> HIDE DEF i, u
  <2>5. EndsWith(stream, u)
    <3>1. Prefixes(u, Name(i))
      BY <2>2, <2>4 DEF Prefixes
    <3>2. QED
      BY <2>1, <2>2, <3>1 DEF IdentifierThere, u
  <2>6. /\ Len(stream) > Len(u) /\ stream[m] = "+"
        /\ \A k \in 1 .. Len(u) : stream[m + k] = u[k]
    BY <2>5 DEF EndsWith
  <2>7. m \in 1 .. Len(stream) /\ Len(s) - m + 1 = Len(u) + 2
        /\ m + Len(u) + 1 = Len(stream) + 1 /\ m + Len(u) = Len(stream)
    BY <1>1, <2>4, <2>6
  <2> HIDE DEF m
  <2>8. s[m] = "+" /\ EndsIdentifier(s[m + Len(u) + 1])
    BY <1>1, <2>1, <2>6, <2>7
  <2>9. \A k \in 1 .. Len(u) : s[m + k] = u[k]
    <3>1. ASSUME NEW k \in 1 .. Len(u) PROVE s[m + k] = u[k]
      <4>1. m + k \in 1 .. Len(stream)
        BY <1>1, <2>4, <2>7
      <4>2. QED
        BY <1>1, <2>6, <4>1
    <3>2. QED
      BY <3>1
  <2>10. Begins(s, m, i)
    <3>1. DATA_SIZE \in Nat
      BY TableAssumption
    <3>2. /\ \A k \in Len(u) + 3 .. (Len(u) + 2) - 1 : FALSE
          /\ Len(u) + 2 <= DATA_SIZE + Len(u) + 3
      BY <2>4, <3>1
    <3>3. QED
      BY <2>2, <2>7, <2>8, <2>9, <3>2 DEF Begins
  <2>11. m > d
    <3>1. m \in 1 .. Len(s) + 1
      BY <1>1, <2>7
    <3>2. QED
      BY <2>2, <2>10, <3>1 DEF Received
  <2>12. m \in Nat /\ m <= Len(stream)
         /\ m = Len(s) - 0 - Len(Name(i)) - 1
    BY <1>1, <2>2, <2>4, <2>7
  <2> DEFINE e == <<>>
  <2>13. /\ e \in Seq(Byte) /\ Len(e) = 0
         /\ \A k \in 1 .. Len(e) : FALSE
    OBVIOUS
  <2>14. urc_data_buffer' = e
    BY <2>3
  <2> HIDE DEF e
  <2>15. m = Len(s) - Len(e) - Len(Name(i)) - 1
    BY <2>12, <2>13
  <2>16. QED
    BY <1>2, <2>2, <2>3, <2>10, <2>11, <2>12, <2>13, <2>14, <2>15
<1>4. CASE ExtendData(b)
  <2> DEFINE data == urc_data_buffer
             m == DataAt
             i == urc_index
  <2>1. /\ urc_parse_state = "PARSING_DATA" /\ ~EndsData(b)
        /\ urc_data_buffer' = Append(data, b)
        /\ urc_index' = i
    BY <1>4 DEF ExtendData
  <2>2. /\ Begins(s, m, i)
        /\ m > d /\ m <= Len(stream) /\ m \in Nat /\ i \in Slot
        /\ \A k \in 1 .. Len(data) : s[m + Len(Name(i)) + 1 + k] = data[k]
    BY <2>1, DataBegins
  <2>3. \A k \in 1 .. Len(data) : ~EndsData(data[k])
    BY <2>1 DEF DataThere
  <2>4. m = Len(stream) - Len(data) - Len(Name(i)) - 1
    BY DEF DataAt
  <2>5. data \in Seq(Byte) /\ Len(data) \in Nat
    BY LenProperties DEF Types, ParserTypeOK
  <2> HIDE DEF data, m, i
  <2> DEFINE e == Append(data, b)
  <2>6. /\ e \in Seq(Byte) /\ Len(e) = Len(data) + 1
        /\ \A k \in 1 .. Len(data) : e[k] = data[k]
        /\ e[Len(data) + 1] = b
    BY <2>5, AppendProperties
  <2> HIDE DEF e
  <2>7. Len(Name(i)) \in Nat
    BY <2>2, Names
  <2>8. m = Len(s) - Len(e) - Len(Name(i)) - 1
    BY <1>1, <2>4, <2>5, <2>6, <2>7
  <2>9. ASSUME NEW k \in 1 .. Len(e)
        PROVE  s[m + Len(Name(i)) + 1 + k] = e[k] /\ ~EndsData(e[k])
    <3>1. CASE k <= Len(data)
      BY <2>2, <2>3, <2>5, <2>6, <3>1
    <3>2. CASE k = Len(data) + 1
      <4>1. m + Len(Name(i)) + 1 + k = Len(stream) + 1
        BY <1>1, <2>4, <2>5, <2>7, <3>2
      <4>2. QED
        BY <1>1, <2>1, <2>6, <3>2, <4>1
    <3>3. QED
      BY <2>5, <2>6, <3>1, <3>2
  <2>10. urc_data_buffer' = e
    BY <2>1 DEF e
  <2>11. QED
    BY <1>2, <2>1, <2>2, <2>6, <2>8, <2>9, <2>10
<1>5. CASE LookForStart(b) \/ EvaluateIdentifier(b) \/ ExtendIdentifier(b)
           \/ CompleteData(b)
  BY <1>5 DEF LookForStart, EvaluateIdentifier, ExtendIdentifier,
              CompleteData
<1>6. QED
  BY <1>3, <1>4, <1>5 DEF Parse

(* When the data ends, all of the URC is in the stream.                    *)
LEMMA DataIsFrom ==
  ASSUME Types, DataThere, urc_parse_state = "PARSING_DATA",
         NEW b \in Byte, EndsData(b),
         NEW d \in 0 .. Len(stream) - 1, NEW s \in Seq(Byte), Received(b, d, s)
  PROVE  /\ DataAt - d \in DOMAIN stream' /\ urc_index \in Slot
         /\ IsUrc(From(stream', DataAt - d), urc_index)
         /\ DataFrom(From(stream', DataAt - d), urc_index) = urc_data_buffer
<1> DEFINE data == urc_data_buffer
           m == DataAt
           i == urc_index
<1>3. /\ Begins(s, m, i)
      /\ m > d /\ m <= Len(stream) /\ m \in Nat /\ i \in Slot
      /\ \A k \in 1 .. Len(data) : s[m + Len(Name(i)) + 1 + k] = data[k]
  BY DataBegins
<1>4. m = Len(stream) - Len(data) - Len(Name(i)) - 1
  BY DEF DataAt
<1>5. data \in Seq(Byte) /\ Len(data) \in Nat
  BY LenProperties DEF Types, ParserTypeOK
<1> HIDE DEF data, m, i
<1>6. /\ Len(stream) \in Nat /\ Len(s) = Len(stream) + 1
      /\ stream' \in Seq(Byte) /\ Len(stream') = Len(s) - d
      /\ s[Len(stream) + 1] = b /\ d \in Nat
      /\ \A k \in 1 .. Len(stream') : stream'[k] = s[d + k]
      /\ Len(stream') \in Nat
  BY LenProperties DEF Types, Received
<1> DEFINE o == m - d
           f == From(stream', o)
           l == Len(Name(i))
<1>7. o \in 1 .. Len(stream') /\ o \in 1 .. Len(stream') + 1 /\ o + d = m
  BY <1>3, <1>6
<1> HIDE DEF o
<1>8. Begins(stream', o, i)
  BY <1>3, <1>6, <1>7, Shift
<1>9. BeginsUrc(f, i)
  BY <1>3, <1>6, <1>7, <1>8, BeginsAt
<1>10. l \in Nat
  BY <1>3, Names
<1>11. /\ f \in Seq(Byte) /\ Len(f) = Len(stream') - o + 1
       /\ \A k \in 1 .. Len(stream') - o + 1 : f[k] = stream'[o + k - 1]
  BY <1>6, <1>7, Suffix
<1>12. Len(f) = Len(data) + l + 3
  <2>1. Len(stream') = Len(stream) + 1 - d
    BY <1>6
  <2>2. Len(stream) = m + Len(data) + l + 1
    BY <1>3, <1>4, <1>5, <1>6, <1>10
  <2>3. Len(f) = Len(stream') - o + 1
    BY <1>11
  <2>4. o \in Int /\ d \in Int /\ Len(data) \in Int /\ m = o + d
    BY <1>5, <1>6, <1>7
  <2> HIDE DEF f, l
  <2>5. QED
    BY <1>10, <2>1, <2>2, <2>3, <2>4
<1> HIDE DEF f, l
<1>13. EndsData(f[Len(f)])
  <2>1. /\ Len(f) \in 1 .. Len(stream') - o + 1
        /\ o + Len(f) - 1 = Len(stream') /\ Len(stream') \in 1 .. Len(stream')
        /\ d + Len(stream') = Len(stream) + 1
    <3>1. Len(f) = Len(stream') - o + 1 /\ o \in Nat /\ o >= 1
          /\ Len(stream') \in Nat /\ Len(stream') >= o
      BY <1>6, <1>7, <1>11
    <3>2. Len(stream') = Len(stream) + 1 - d
      BY <1>6
    <3>3. QED
      BY <1>6, <3>1, <3>2
  <2>2. f[Len(f)] = b
    BY <1>6, <1>11, <2>1
  <2>3. QED
    BY <2>2
<1>14. IsUrc(f, i)
  <2>1. Len(f) >= Len(urcs[i].identifier) + 3
    BY <1>5, <1>10, <1>12 DEF l, Name
  <2>2. QED
    BY <1>9, <1>13, <2>1 DEF IsUrc
<1>15. DataFrom(f, i) = data
  <2>1. DataFrom(f, i) = SubSeq(f, l + 3, Len(f) - 1)
    BY DEF DataFrom, l, Name
  <2>2. /\ SubSeq(f, l + 3, Len(f) - 1) \in Seq(Byte)
        /\ Len(SubSeq(f, l + 3, Len(f) - 1)) =
             (IF l + 3 <= Len(f) - 1 THEN (Len(f) - 1) - (l + 3) + 1 ELSE 0)
        /\ \A k \in 1 .. (Len(f) - 1) - (l + 3) + 1 :
             SubSeq(f, l + 3, Len(f) - 1)[k] = f[(l + 3) + k - 1]
    <3> DEFINE p == l + 3
               q == Len(f) - 1
    <3>1. p \in Int /\ q \in Int /\ p >= 1 /\ q <= Len(f)
      BY <1>5, <1>10, <1>12
    <3>2. \A k \in 1 .. Len(f) : f[k] \in Byte
      BY <1>11, LenProperties
    <3>3. \A k \in p .. q : f[k] \in Byte
      <4>1. Len(f) \in Nat
        BY <1>11, LenProperties
      <4> HIDE DEF p, q
      <4>2. \A k \in p .. q : k \in 1 .. Len(f)
        BY <3>1, <4>1
      <4>3. QED
        BY <3>2, <4>2
    <3> HIDE DEF p, q
    <3>4. /\ SubSeq(f, p, q) \in Seq(Byte)
          /\ Len(SubSeq(f, p, q)) = (IF p <= q THEN q - p + 1 ELSE 0)
          /\ \A k \in 1 .. q - p + 1 : SubSeq(f, p, q)[k] = f[p + k - 1]
      BY <3>1, <3>3, SubSeqProperties
    <3>5. QED
      BY <3>4 DEF p, q
  <2>3. Len(SubSeq(f, l + 3, Len(f) - 1)) = Len(data)
        /\ (Len(f) - 1) - (l + 3) + 1 = Len(data)
    BY <1>5, <1>10, <1>12, <2>2
  <2>4. ASSUME NEW k \in 1 .. Len(data)
        PROVE  f[(l + 3) + k - 1] = data[k]
    <3> DEFINE x == (l + 3) + k - 1
               y == o + x - 1
    <3>1. Len(stream') = o + Len(data) + l + 2
      <4>1. Len(stream') - o + 1 = Len(data) + l + 3
        BY <1>11, <1>12
      <4>2. o \in Int /\ Len(data) \in Int /\ Len(stream') \in Int
        BY <1>5, <1>6, <1>7
      <4>3. QED
        BY <1>10, <4>1, <4>2
    <3>2. x \in 1 .. Len(stream') - o + 1
      BY <1>5, <1>6, <1>7, <1>10, <3>1
    <3>3. y \in 1 .. Len(stream')
      BY <1>5, <1>6, <1>7, <1>10, <3>1
    <3>4. d + y = m + l + 1 + k
      BY <1>6, <1>7, <1>10
    <3> HIDE DEF x
    <3>5. f[x] = stream'[y]
      BY <1>11, <3>2
    <3> HIDE DEF y
    <3>6. stream'[y] = s[m + l + 1 + k]
      BY <1>6, <3>3, <3>4
    <3>7. f[(l + 3) + k - 1] = s[m + l + 1 + k]
      BY <3>5, <3>6 DEF x
    <3>8. QED
      BY <1>3, <3>7 DEF l
  <2>5. QED
    BY <1>5, <2>1, <2>2, <2>3, <2>4, SeqEqual
<1>16. o \in DOMAIN stream'
  BY <1>6, <1>7, LenProperties
<1>17. QED
  BY <1>3, <1>14, <1>15, <1>16 DEF f, o, m, i, data

LEMMA CallsStep ==
  ASSUME Types, DataThere, NEW b \in Byte, ReceiveByte(b),
         NEW d \in 0 .. Len(stream) - 1, NEW s \in Seq(Byte), Received(b, d, s)
  PROVE  CallsAreUrcs'
<1> SUFFICES ASSUME call' # NoCall
             PROVE  \E j \in Slot, o \in DOMAIN stream' :
                      /\ IsUrc(From(stream', o), j)
                      /\ call' = [callback |-> urcs[j].callback,
                                  data |-> DataFrom(From(stream', o), j)]
  BY DEF CallsAreUrcs
<1>1. Called(b) # NULL
      /\ call' = [callback |-> Called(b), data |-> urc_data_buffer]
  BY DEF ReceiveByte
<1>2. /\ urc_parse_state = "PARSING_DATA" /\ EndsData(b)
      /\ call' = [callback |-> urcs[urc_index].callback,
                  data |-> urc_data_buffer]
  BY <1>1 DEF Called, Completes, Types, MatchedSlotInUse
<1>3. /\ DataAt - d \in DOMAIN stream' /\ urc_index \in Slot
      /\ IsUrc(From(stream', DataAt - d), urc_index)
      /\ DataFrom(From(stream', DataAt - d), urc_index) = urc_data_buffer
  BY <1>2, DataIsFrom
<1>4. QED
  BY <1>2, <1>3
-----------------------------------------------------------------------------
(* What the parser has taken in is the end of the stream: the invariant of *)
(* which CallsAreUrcs is a consequence.                                    *)
StreamInvariant == Types /\ PlusThere /\ IdentifierThere /\ DataThere

LEMMA InitStream == Init => StreamInvariant /\ CallsAreUrcs
<1> SUFFICES ASSUME Init PROVE StreamInvariant /\ CallsAreUrcs
  OBVIOUS
<1>1. /\ stream = <<"CR", "LF">> /\ call = NoCall
      /\ urc_parse_state = "NOT_PARSING"
      /\ urc_identifier_buffer = <<>> /\ urc_data_buffer = <<>>
      /\ urc_index = 0 /\ urc_current_callback = NULL
  BY DEF Init, ParserInit
<1>2. stream \in Seq(Byte) /\ Len(stream) >= 2
  BY <1>1, ByteAssumption, LineAssumption
<1>3. ParserTypeOK
  BY <1>1, Slots, TableAssumption DEF ParserTypeOK, UrcParseState, Callback
<1>4. MatchedSlotInUse
  BY <1>1 DEF MatchedSlotInUse
<1>5. PlusThere /\ IdentifierThere /\ DataThere
  BY <1>1 DEF PlusThere, IdentifierThere, DataThere
<1>6. CallsAreUrcs
  BY <1>1 DEF CallsAreUrcs
<1>7. QED
  BY <1>2, <1>3, <1>4, <1>5, <1>6 DEF StreamInvariant, Types

LEMMA StreamStep ==
  StreamInvariant /\ CallsAreUrcs /\ [Next]_vars
    => StreamInvariant' /\ CallsAreUrcs'
<1> SUFFICES ASSUME StreamInvariant, CallsAreUrcs, [Next]_vars
             PROVE  StreamInvariant' /\ CallsAreUrcs'
  OBVIOUS
<1>1. CASE Next
  <2>1. PICK b \in Byte : ReceiveByte(b)
    BY <1>1 DEF Next
  <2>2. Types /\ PlusThere /\ IdentifierThere /\ DataThere /\ Parse(b)
    BY <2>1 DEF StreamInvariant, ReceiveByte
  <2>3. PICK d \in 0 .. Len(stream) - 1, s \in Seq(Byte) : Received(b, d, s)
    BY <2>1, <2>2, ByteIsReceived DEF Types
  <2>4. Types'
    BY <2>2, <2>3, TypesStep
  <2>5. PlusThere'
    BY <2>2, <2>3, PlusStep
  <2>6. IdentifierThere'
    BY <2>2, <2>3, IdentifierStep
  <2>7. DataThere'
    BY <2>2, <2>3, DataStep
  <2>8. CallsAreUrcs'
    BY <2>1, <2>2, <2>3, CallsStep
  <2>9. QED
    BY <2>4, <2>5, <2>6, <2>7, <2>8 DEF StreamInvariant
<1>2. CASE UNCHANGED vars
  <2>1. /\ stream' = stream /\ call' = call
        /\ urc_parse_state' = urc_parse_state
        /\ urc_identifier_buffer' = urc_identifier_buffer
        /\ urc_data_buffer' = urc_data_buffer
        /\ urc_index' = urc_index
        /\ urc_current_callback' = urc_current_callback
    BY <1>2 DEF vars, parser
  <2>2. Types'
    BY <2>1 DEF StreamInvariant, Types, ParserTypeOK, MatchedSlotInUse
  <2>3. PlusThere' /\ IdentifierThere'
    BY <2>1 DEF StreamInvariant, PlusThere, IdentifierThere, Prefixes, EndsWith
  <2>4. DataThere'
    BY <2>1 DEF StreamInvariant, DataThere, DataAt, Begins, Name
  <2>5. CallsAreUrcs'
    <3>1. CallsAreUrcs
      BY DEF StreamInvariant
    <3>2. ASSUME NEW i, NEW m
          PROVE  /\ IsUrc(From(stream, m), i)' = IsUrc(From(stream, m), i)
                 /\ DataFrom(From(stream, m), i)' = DataFrom(From(stream, m), i)
      BY <2>1, Zenon DEF IsUrc, BeginsUrc, DataFrom, From
    <3>3. QED
      BY <2>1, <3>1, <3>2 DEF CallsAreUrcs
  <2>6. QED
    BY <2>2, <2>3, <2>4, <2>5 DEF StreamInvariant
<1>3. QED
  BY <1>1, <1>2

LEMMA StreamAlways == Spec => [](StreamInvariant /\ CallsAreUrcs)
  BY InitStream, StreamStep, PTL DEF Spec

(* No stream of bytes makes the parser look up an empty identifier, which  *)
(* an empty slot of the table would match.                                 *)
THEOREM StreamTypeCorrect == Spec => [](ParserTypeOK /\ MatchedSlotInUse)
<1>1. StreamInvariant => ParserTypeOK /\ MatchedSlotInUse
  BY DEF StreamInvariant, Types
<1>2. QED
  BY <1>1, StreamAlways, PTL

(* A callback is called only at the end of a URC of its identifier, with   *)
(* all of that URC's data and nothing else.                                *)
THEOREM CallsAreUrcsTheorem == Spec => []CallsAreUrcs
  BY StreamAlways, PTL
-----------------------------------------------------------------------------
(* The parser has just seen a CR that does not end a + alone: it looks for *)
(* a start, or for data of an identifier this CR has ended.                *)
AfterCr ==
  LET n == Len(stream)
  IN  stream[n] = "CR" /\ stream[n - 1] # "+" =>
        urc_parse_state \in {"NOT_PARSING", "PARSING_DATA"}

(* A URC of slot i that is not over yet is on the line from position m on. *)
Underway(m, i) ==
  LET k == Len(stream) - m + 1
      l == Len(Name(i))
  IN  /\ StartsLine(m) /\ Begins(stream, m, i)
      /\ k <= l + 2 + DATA_SIZE
      /\ k > l + 2 => ~EndsData(stream[Len(stream)])

(* The parser is where the k bytes of it that have come take it.           *)
Follows(k, i) ==
  LET l == Len(Name(i))
  IN  /\ k = 0 => urc_parse_state = "NOT_PARSING"
      /\ k = 1 => urc_parse_state = "EVALUATING_IDENTIFIER"
      /\ k \in 2 .. l + 1 => /\ urc_parse_state = "PARSING_IDENTIFIER"
                             /\ Len(urc_identifier_buffer) = k - 1
                             /\ Prefixes(urc_identifier_buffer, Name(i))
      /\ k >= l + 2 => /\ urc_parse_state = "PARSING_DATA"
                       /\ urc_index = i
                       /\ Len(urc_data_buffer) = k - l - 2

Followed ==
  \A i \in Slot, m \in 3 .. Len(stream) + 1, k \in Nat :
    (/\ urcs[i].callback # NULL
     /\ Underway(m, i)
     /\ k = Len(stream) - m + 1) => Follows(k, i)

LEMMA AfterCrStep ==
  ASSUME Types, PlusThere, NEW b \in Byte, Parse(b),
         NEW d \in 0 .. Len(stream) - 1, NEW s \in Seq(Byte), Received(b, d, s)
  PROVE  AfterCr'
<1> DEFINE n == Len(stream')
<1> SUFFICES ASSUME stream'[n] = "CR", stream'[n - 1] # "+"
             PROVE  urc_parse_state' \in {"NOT_PARSING", "PARSING_DATA"}
  BY DEF AfterCr
<1>1. /\ Len(stream) \in Nat /\ Len(stream) >= 2
      /\ \A k \in 1 .. Len(stream) : s[k] = stream[k]
      /\ s[Len(stream) + 1] = b
      /\ n = Len(stream) + 1 - d
      /\ \A k \in 1 .. n : stream'[k] = s[d + k]
  BY LenProperties DEF Types, Received
<1> HIDE DEF n
<1>2. /\ n \in 1 .. n /\ d + n = Len(stream) + 1
      /\ n - 1 \in 1 .. n /\ d + (n - 1) = Len(stream)
      /\ Len(stream) \in 1 .. Len(stream)
  BY <1>1
<1>3. b = "CR" /\ stream[Len(stream)] # "+"
  BY <1>1, <1>2
<1>4. urc_parse_state # "EVALUATING_IDENTIFIER"
  BY <1>3 DEF PlusThere
<1>5. EndsIdentifier(b) /\ EndsData(b)
  BY <1>3 DEF EndsIdentifier, EndsData
<1>6. CASE LookForStart(b)
  BY <1>3, <1>6 DEF LookForStart
<1>7. CASE LookUpIdentifier(b)
  BY <1>7 DEF LookUpIdentifier
<1>8. CASE CompleteData(b)
  BY <1>8 DEF CompleteData
<1>9. QED
  BY <1>4, <1>5, <1>6, <1>7, <1>8
     DEF Parse, EvaluateIdentifier, ExtendIdentifier, ExtendData

LEMMA BeginsBefore ==
  ASSUME NEW r \in Seq(Byte), NEW s \in Seq(Byte), Len(s) = Len(r) + 1,
         \A k \in 1 .. Len(r) : s[k] = r[k],
         NEW m \in 1 .. Len(r) + 1, NEW i \in Slot, Begins(s, m, i)
  PROVE  Begins(r, m, i)
<1> DEFINE l == Len(Name(i))
           n == Len(r) - m + 1
<1>1. l \in Nat /\ Len(r) \in Nat /\ n \in Nat /\ m \in Nat /\ m >= 1
      /\ DATA_SIZE \in Nat /\ Len(s) - m + 1 = n + 1 /\ m + n = Len(r) + 1
  BY Names, LenProperties, TableAssumption
<1>2. /\ n + 1 >= 1 => s[m] = "+"
      /\ \A k \in 1 .. l : k + 1 <= n + 1 => s[m + k] = Name(i)[k]
      /\ l + 2 <= n + 1 => EndsIdentifier(s[m + l + 1])
      /\ \A k \in l + 3 .. (n + 1) - 1 : ~EndsData(s[m + k - 1])
      /\ n + 1 <= DATA_SIZE + l + 3
  BY <1>1 DEF Begins
<1> HIDE DEF l, n
<1>3. n >= 1 => r[m] = "+"
  BY <1>1, <1>2
<1>4. ASSUME NEW k \in 1 .. l, k + 1 <= n PROVE r[m + k] = Name(i)[k]
  <2>1. m + k \in 1 .. Len(r) /\ k + 1 <= n + 1
    BY <1>1, <1>4
  <2>2. s[m + k] = r[m + k]
    BY <2>1
  <2>3. QED
    BY <1>2, <2>1, <2>2
<1>5. l + 2 <= n => EndsIdentifier(r[m + l + 1])
  <2>1. SUFFICES ASSUME l + 2 <= n PROVE EndsIdentifier(r[m + l + 1])
    OBVIOUS
  <2>2. m + l + 1 \in 1 .. Len(r) /\ l + 2 <= n + 1
    BY <1>1, <2>1
  <2>3. s[m + l + 1] = r[m + l + 1]
    BY <2>2
  <2>4. QED
    BY <1>2, <2>2, <2>3
<1>6. ASSUME NEW k \in l + 3 .. n - 1 PROVE ~EndsData(r[m + k - 1])
  <2>1. m + k - 1 \in 1 .. Len(r) /\ k \in l + 3 .. (n + 1) - 1
    BY <1>1
  <2>2. s[m + k - 1] = r[m + k - 1]
    BY <2>1
  <2>3. QED
    BY <1>2, <2>1, <2>2
<1>7. n <= DATA_SIZE + l + 3
  BY <1>1, <1>2
<1>8. QED
  BY <1>3, <1>4, <1>5, <1>6, <1>7 DEF Begins, l, n

(* A URC on a line in the stream was on that line before its newest byte.  *)
LEMMA LineBefore ==
  ASSUME Types, NEW b, NEW d \in 0 .. Len(stream) - 1,
         NEW s \in Seq(Byte), Received(b, d, s), NEW i \in Slot,
         NEW m \in 3 .. Len(stream') + 1, StartsLine(m)', Begins(stream', m, i)
  PROVE  /\ m + d \in 3 .. Len(stream) + 2
         /\ Begins(s, m + d, i)
         /\ Len(stream') - m = Len(stream) + 1 - (m + d)
         /\ s[m + d - 2] = "CR" /\ s[m + d - 1] = "LF"
         /\ m + d > 3 => s[m + d - 3] # "+"
<1>1. /\ Len(stream) \in Nat /\ Len(s) = Len(stream) + 1 /\ d \in Nat
      /\ stream' \in Seq(Byte) /\ Len(stream') = Len(s) - d
      /\ \A k \in 1 .. Len(stream') : stream'[k] = s[d + k]
      /\ \A p \in 1 .. Len(s) + 1, j \in Slot :
           Begins(s, p, j) => p > d /\ (d = 0 \/ p >= d + 4)
      /\ Len(stream') \in Nat
  BY LenProperties DEF Types, Received
<1>2. m \in 1 .. Len(stream') + 1 /\ m + d \in 3 .. Len(stream) + 2
      /\ m + d \in 1 .. Len(s) + 1
      /\ Len(stream') - m = Len(stream) + 1 - (m + d)
  BY <1>1
<1>3. Begins(s, m + d, i)
  BY <1>1, <1>2, Shift
<1>4. d = 0 \/ m > 3
  BY <1>1, <1>2, <1>3
<1>5. stream'[m - 2] = "CR" /\ stream'[m - 1] = "LF"
      /\ (m > 3 => stream'[m - 3] # "+")
  BY DEF StartsLine
<1>6. /\ m - 2 \in 1 .. Len(stream') /\ d + (m - 2) = m + d - 2
      /\ m - 1 \in 1 .. Len(stream') /\ d + (m - 1) = m + d - 1
      /\ m > 3 => m - 3 \in 1 .. Len(stream')
      /\ d + (m - 3) = m + d - 3
  BY <1>1, <1>2
<1>7. s[m + d - 2] = "CR" /\ s[m + d - 1] = "LF"
  BY <1>1, <1>5, <1>6
<1>8. m + d > 3 => m > 3
  BY <1>1, <1>4
<1>9. m + d > 3 => s[m + d - 3] # "+"
  BY <1>1, <1>5, <1>6, <1>8
<1>10. QED
  BY <1>2, <1>3, <1>7, <1>9

LEMMA UnderwayBefore ==
  ASSUME Types, NEW b, NEW d \in 0 .. Len(stream) - 1,
         NEW s \in Seq(Byte), Received(b, d, s), NEW i \in Slot,
         NEW m \in 3 .. Len(stream'), StartsLine(m)', Begins(stream', m, i)
  PROVE  /\ m + d \in 3 .. Len(stream) + 1
         /\ Underway(m + d, i)
         /\ Begins(s, m + d, i)
         /\ Len(stream') - m + 1 = (Len(stream) - (m + d) + 1) + 1
<1> DEFINE o == m + d
           l == Len(Name(i))
           n == Len(stream)
           k == n - o + 1
<1>1. /\ n \in Nat /\ Len(s) = n + 1 /\ Len(stream') = Len(s) - d
      /\ \A x \in 1 .. n : s[x] = stream[x]
      /\ Len(stream') \in Nat /\ l \in Nat /\ DATA_SIZE \in Nat
      /\ stream \in Seq(Byte) /\ n >= 2
  BY LenProperties, Names, TableAssumption DEF Types, Received
<1>2. m \in 3 .. Len(stream') + 1
  BY <1>1
<1>3. /\ o \in 3 .. n + 2 /\ Begins(s, o, i)
      /\ Len(stream') - m = n + 1 - o
      /\ s[o - 2] = "CR" /\ s[o - 1] = "LF"
      /\ o > 3 => s[o - 3] # "+"
  <2>1. /\ m + d \in 3 .. Len(stream) + 2
        /\ Begins(s, m + d, i)
        /\ Len(stream') - m = Len(stream) + 1 - (m + d)
        /\ s[m + d - 2] = "CR" /\ s[m + d - 1] = "LF"
        /\ m + d > 3 => s[m + d - 3] # "+"
    BY <1>2, LineBefore, Zenon
  <2>2. QED
    BY <2>1
<1>4. o \in 3 .. n + 1 /\ o \in 1 .. n + 1
  BY <1>1, <1>3
<1> HIDE DEF o, l, n
<1>5. Begins(stream, o, i)
  BY <1>1, <1>3, <1>4, BeginsBefore DEF n
<1>6. StartsLine(o)
  <2>1. /\ o - 2 \in 1 .. n /\ o - 1 \in 1 .. n
        /\ o > 3 => o - 3 \in 1 .. n
        /\ o > 2
    BY <1>1, <1>4
  <2>2. /\ stream[o - 2] = "CR" /\ stream[o - 1] = "LF"
        /\ o > 3 => stream[o - 3] # "+"
    BY <1>1, <1>3, <2>1
  <2>3. QED
    BY <2>1, <2>2 DEF StartsLine
<1>7. k \in Nat /\ Len(s) - o + 1 = k + 1 /\ o + k - 1 = n
  BY <1>1, <1>4
<1>8. k + 1 <= DATA_SIZE + l + 3
      /\ \A x \in l + 3 .. (k + 1) - 1 : ~EndsData(s[o + x - 1])
  BY <1>3, <1>7 DEF Begins, l
<1> HIDE DEF k
<1>9. k > l + 2 => ~EndsData(stream[n])
  <2>1. SUFFICES ASSUME k > l + 2 PROVE ~EndsData(stream[n])
    OBVIOUS
  <2>2. k \in l + 3 .. (k + 1) - 1 /\ n \in 1 .. n
    BY <1>1, <1>7, <2>1
  <2>3. ~EndsData(s[o + k - 1])
    BY <1>8, <2>2
  <2>4. QED
    BY <1>1, <1>7, <2>2, <2>3
<1>10. k <= l + 2 + DATA_SIZE
  BY <1>1, <1>7, <1>8
<1>11. Underway(o, i)
  BY <1>5, <1>6, <1>9, <1>10 DEF Underway, k, l, n
<1>12. Len(stream') - m + 1 = (n - o + 1) + 1
  BY <1>1, <1>3, <1>4
<1>13. QED
  BY <1>3, <1>4, <1>11, <1>12 DEF o, n

LEMMA ReceivableName ==
  ASSUME Receivable, NEW i \in Slot, urcs[i].callback # NULL
  PROVE  /\ Len(Name(i)) \in 1 .. IDENTIFIER_SIZE
         /\ Name(i)[1] \notin Digit
         /\ \A k \in 1 .. Len(Name(i)) : ~EndsIdentifier(Name(i)[k])
         /\ \A j \in Slot : Name(j) = Name(i) => j = i
  BY DEF Receivable, Name

(* The bytes of a URC take the parser from state to state.                 *)
LEMMA ByteFollows ==
  ASSUME Types, Receivable, NEW b \in Byte, Parse(b),
         NEW s \in Seq(Byte), Len(s) = Len(stream) + 1,
         s[Len(stream) + 1] = b,
         NEW i \in Slot, urcs[i].callback # NULL,
         NEW m \in 3 .. Len(stream) + 1, Begins(s, m, i),
         NEW k \in Nat, k = Len(stream) - m + 1, Follows(k, i),
         k + 1 <= Len(Name(i)) + 2 + DATA_SIZE,
         k + 1 > Len(Name(i)) + 2 => ~EndsData(b)
  PROVE  Follows(k + 1, i)'
<1> DEFINE l == Len(Name(i))
           u == urc_identifier_buffer
<1>1. /\ Len(stream) \in Nat /\ DATA_SIZE \in Nat
      /\ l \in Nat /\ l >= 1 /\ l <= IDENTIFIER_SIZE
      /\ IDENTIFIER_SIZE \in Nat
      /\ Len(s) - m + 1 = k + 1 /\ m + k = Len(stream) + 1
  BY LenProperties, TableAssumption, Names, ReceivableName DEF Types
<1>2. /\ Name(i)[1] \notin Digit
      /\ \A x \in 1 .. l : ~EndsIdentifier(Name(i)[x])
      /\ \A j \in Slot : Name(j) = Name(i) => j = i
  BY ReceivableName
<1>3. Name(i)' = Name(i)
  BY DEF Name
<1>4. /\ u \in Seq(Byte) /\ Len(u) \in Nat
      /\ urc_data_buffer \in Seq(Byte) /\ Len(urc_data_buffer) \in Nat
      /\ Name(i) \in Seq(Byte)
  BY LenProperties, Names DEF Types, ParserTypeOK
<1>5. /\ s[m] = "+"
      /\ \A x \in 1 .. l : x + 1 <= k + 1 => s[m + x] = Name(i)[x]
      /\ l + 2 <= k + 1 => EndsIdentifier(s[m + l + 1])
  BY <1>1 DEF Begins
<1> HIDE DEF l, u
<1>6. CASE k = 0
  <2>1. b = "+" /\ urc_parse_state = "NOT_PARSING"
    BY <1>1, <1>5, <1>6 DEF Follows
  <2>2. LookForStart(b)
    BY <2>1, CaseOf
  <2>3. urc_parse_state' = "EVALUATING_IDENTIFIER"
    BY <2>1, <2>2 DEF LookForStart
  <2>4. /\ k + 1 # 0 /\ k + 1 \notin 2 .. l + 1
        /\ ~(k + 1 >= l + 2)
    BY <1>1, <1>6
  <2>5. QED
    BY <1>3, <2>3, <2>4 DEF Follows, l
<1>7. CASE k = 1
  <2>1. b = Name(i)[1] /\ urc_parse_state = "EVALUATING_IDENTIFIER"
    <3>1. 1 \in 1 .. l /\ 1 + 1 <= k + 1 /\ m + 1 = Len(stream) + 1
      BY <1>1, <1>7
    <3>2. s[m + 1] = Name(i)[1]
      BY <1>5, <3>1
    <3>3. urc_parse_state = "EVALUATING_IDENTIFIER"
      BY <1>7 DEF Follows
    <3>4. QED
      BY <3>1, <3>2, <3>3
  <2>2. EvaluateIdentifier(b) /\ u = <<>>
    BY <2>1, CaseOf DEF Types, MatchedSlotInUse, u
  <2>3. urc_parse_state' = "PARSING_IDENTIFIER" /\ u' = Append(u, b)
    BY <1>2, <2>1, <2>2 DEF EvaluateIdentifier, u
  <2>4. Len(u') = 1 /\ u'[1] = b
    BY <2>2, <2>3
  <2>5. Prefixes(u', Name(i))
    BY <1>1, <2>1, <2>4 DEF Prefixes, l
  <2>6. /\ k + 1 # 0 /\ k + 1 # 1 /\ (k + 1) - 1 = 1
        /\ ~(k + 1 >= l + 2)
    BY <1>1, <1>7
  <2>7. QED
    BY <1>3, <2>3, <2>4, <2>5, <2>6 DEF Follows, Prefixes, l, u
<1>8. CASE k \in 2 .. l
  <2>1. /\ urc_parse_state = "PARSING_IDENTIFIER"
        /\ Len(u) = k - 1 /\ Prefixes(u, Name(i))
    <3>1. k \in 2 .. l + 1
      BY <1>1, <1>8
    <3>2. QED
      BY <3>1 DEF Follows, l, u
  <2>2. b = Name(i)[k] /\ ~EndsIdentifier(b)
    <3>1. k \in 1 .. l /\ k + 1 <= k + 1
      BY <1>8
    <3>2. s[m + k] = Name(i)[k]
      BY <1>5, <3>1
    <3>3. QED
      BY <1>1, <1>2, <3>1, <3>2
  <2>3. ExtendIdentifier(b)
    BY <2>1, <2>2, CaseOf
  <2>4. Len(u) # IDENTIFIER_SIZE
    BY <1>1, <1>8, <2>1
  <2>5. u' = Append(u, b) /\ urc_parse_state' = "PARSING_IDENTIFIER"
    BY <2>1, <2>3, <2>4 DEF ExtendIdentifier, u
  <2>6. /\ Len(u') = k /\ u'[k] = b
        /\ \A x \in 1 .. Len(u) : u'[x] = u[x]
    <3>1. /\ Len(Append(u, b)) = Len(u) + 1
          /\ Append(u, b)[Len(u) + 1] = b
          /\ \A x \in 1 .. Len(u) : Append(u, b)[x] = u[x]
      BY <1>4, AppendProperties
    <3>2. Len(u) + 1 = k
      BY <2>1
    <3>3. QED
      BY <2>5, <3>1, <3>2
  <2>7. ASSUME NEW x \in 1 .. Len(u') PROVE u'[x] = Name(i)[x]
    <3>1. x \in 1 .. Len(u) \/ x = k
      BY <2>1, <2>6
    <3>2. QED
      BY <2>1, <2>2, <2>6, <3>1 DEF Prefixes
  <2>8. Prefixes(u', Name(i))
    BY <1>8, <2>6, <2>7 DEF Prefixes, l
  <2>9. /\ k + 1 # 0 /\ k + 1 # 1 /\ (k + 1) - 1 = k
        /\ ~(k + 1 >= l + 2)
    BY <1>1, <1>8
  <2>10. QED
    BY <1>3, <2>5, <2>6, <2>8, <2>9 DEF Follows, Prefixes, l, u
<1>9. CASE k = l + 1
  <2>1. /\ urc_parse_state = "PARSING_IDENTIFIER"
        /\ Len(u) = k - 1 /\ Prefixes(u, Name(i))
    <3>1. k \in 2 .. l + 1
      BY <1>1, <1>9
    <3>2. QED
      BY <3>1 DEF Follows, l, u
  <2>2. u = Name(i)
    <3>1. Len(u) = Len(Name(i))
      BY <1>1, <1>9, <2>1 DEF l
    <3>2. \A x \in 1 .. Len(u) : u[x] = Name(i)[x]
      BY <2>1 DEF Prefixes
    <3>3. QED
      BY <1>4, <3>1, <3>2, SeqEqual
  <2>3. EndsIdentifier(b)
    <3>1. l + 2 <= k + 1 /\ m + l + 1 = Len(stream) + 1
      BY <1>1, <1>9
    <3>2. QED
      BY <1>5, <3>1
  <2>4. LookUpIdentifier(b)
    BY <2>1, <2>3, CaseOf
  <2>5. i \in Matching
    BY <2>2 DEF Matching, Name, u
  <2>6. Matches(b)
    BY <2>1, <2>3, <2>5 DEF Matches
  <2>7. MatchIndex = i
    <3>1. MatchIndex \in Slot /\ Name(MatchIndex) = u
      BY <2>5, MatchIsMatching DEF Name, u
    <3>2. QED
      BY <1>2, <2>2, <3>1
  <2>8. /\ urc_index' = i /\ urc_parse_state' = "PARSING_DATA"
        /\ urc_data_buffer' = <<>>
    BY <2>4, <2>6, <2>7 DEF LookUpIdentifier
  <2>9. Len(urc_data_buffer') = 0
    BY <2>8
  <2>10. /\ k + 1 # 0 /\ k + 1 # 1 /\ k + 1 \notin 2 .. l + 1
         /\ k + 1 - l - 2 = 0
    BY <1>1, <1>9
  <2>11. QED
    BY <1>3, <2>8, <2>9, <2>10 DEF Follows, l
<1>10. CASE k >= l + 2
  <2>1. /\ urc_parse_state = "PARSING_DATA" /\ urc_index = i
        /\ Len(urc_data_buffer) = k - l - 2
    BY <1>10 DEF Follows, l
  <2>2. ~EndsData(b)
    <3>1. k + 1 > l + 2
      BY <1>1, <1>10
    <3>2. QED
      BY <3>1 DEF l
  <2>3. ExtendData(b)
    BY <2>1, <2>2, CaseOf
  <2>4. Len(urc_data_buffer) # DATA_SIZE
    <3>1. k + 1 <= l + 2 + DATA_SIZE
      BY DEF l
    <3>2. QED
      BY <1>1, <1>10, <2>1, <3>1
  <2>5. /\ urc_data_buffer' = Append(urc_data_buffer, b)
        /\ urc_parse_state' = "PARSING_DATA" /\ urc_index' = i
    BY <2>1, <2>3, <2>4 DEF ExtendData
  <2>6. Len(urc_data_buffer') = Len(urc_data_buffer) + 1
    BY <1>4, <2>5, AppendProperties
  <2>7. /\ k + 1 # 0 /\ k + 1 # 1 /\ k + 1 \notin 2 .. l + 1
        /\ Len(urc_data_buffer') = k + 1 - l - 2
    BY <1>1, <1>10, <2>1, <2>6
  <2>8. QED
    BY <1>3, <2>5, <2>7 DEF Follows, l
<1>11. k = 0 \/ k = 1 \/ k \in 2 .. l \/ k = l + 1 \/ k >= l + 2
  BY <1>1
<1>12. QED
  BY <1>6, <1>7, <1>8, <1>9, <1>10, <1>11

LEMMA FollowedStep ==
  ASSUME Types, AfterCr, Followed, Receivable, NEW b \in Byte, Parse(b),
         NEW d \in 0 .. Len(stream) - 1, NEW s \in Seq(Byte), Received(b, d, s)
  PROVE  Followed'
<1> SUFFICES ASSUME NEW i \in Slot, NEW m \in 3 .. Len(stream') + 1,
                    NEW k \in Nat, k = Len(stream') - m + 1,
                    urcs[i].callback # NULL, Underway(m, i)'
             PROVE  Follows(k, i)'
  BY DEF Followed
<1> DEFINE n == Len(stream)
           l == Len(Name(i))
           o == m + d
<1>0. /\ n \in Nat /\ n >= 2 /\ Len(s) = n + 1 /\ d \in Nat
      /\ Len(stream') \in Nat /\ Len(stream') = n + 1 - d
  <2>1. n \in Nat /\ n >= 2 /\ Len(stream') \in Nat /\ d \in Nat
    BY LenProperties DEF Types, Received
  <2>2. Len(s) = n + 1 /\ Len(stream') = Len(s) - d
    BY DEF Received
  <2>3. QED
    BY <2>1, <2>2
<1>1. /\ \A x \in 1 .. n : s[x] = stream[x]
      /\ s[n + 1] = b
      /\ \A x \in 1 .. Len(stream') : stream'[x] = s[d + x]
  BY DEF Received
<1>2. /\ StartsLine(m)' /\ Begins(stream', m, i)
      /\ k <= l + 2 + DATA_SIZE
      /\ k > l + 2 => ~EndsData(stream'[Len(stream')])
  BY DEF Underway, Begins, Name
<1>3. l \in Nat
  BY Names
<1>4. stream'[Len(stream')] = b
  <2>1. Len(stream') \in 1 .. Len(stream') /\ d + Len(stream') = n + 1
    BY <1>0
  <2>2. QED
    BY <1>1, <2>1
<1> HIDE DEF n
<1>5. CASE m = Len(stream') + 1
  <2>1. k = 0
    BY <1>0, <1>5
  <2>2. /\ o \in 3 .. n + 2
        /\ Len(stream') - m = n + 1 - o
        /\ s[o - 2] = "CR" /\ s[o - 1] = "LF"
        /\ o > 3 => s[o - 3] # "+"
    <3>1. /\ m + d \in 3 .. Len(stream) + 2
          /\ Len(stream') - m = Len(stream) + 1 - (m + d)
          /\ s[m + d - 2] = "CR" /\ s[m + d - 1] = "LF"
          /\ m + d > 3 => s[m + d - 3] # "+"
      BY <1>2, LineBefore, Zenon
    <3>2. QED
      BY <3>1 DEF n
  <2> HIDE DEF o
  <2>3. o = n + 2
    BY <1>0, <1>5, <2>2
  <2>4. o - 2 = n /\ o - 1 = n + 1 /\ o > 3 /\ o - 3 = n - 1
        /\ n \in 1 .. n /\ n - 1 \in 1 .. n
    BY <1>0, <2>3
  <2>5. stream[n] = "CR" /\ b = "LF" /\ stream[n - 1] # "+"
    BY <1>1, <2>2, <2>4
  <2>6. urc_parse_state \in {"NOT_PARSING", "PARSING_DATA"}
    BY <2>5 DEF AfterCr, n
  <2>7. urc_parse_state' = "NOT_PARSING"
    <3>1. CASE urc_parse_state = "NOT_PARSING"
      BY <2>5, <3>1, CaseOf DEF LookForStart
    <3>2. CASE urc_parse_state = "PARSING_DATA"
      <4>1. EndsData(b)
        BY <2>5 DEF EndsData
      <4>2. CompleteData(b)
        BY <3>2, <4>1, CaseOf
      <4>3. QED
        BY <4>2 DEF CompleteData
    <3>3. QED
      BY <2>6, <3>1, <3>2
  <2>8. 0 # 1 /\ 0 \notin 2 .. l + 1 /\ ~(0 >= l + 2)
    BY <1>3
  <2>9. Follows(0, i)'
    BY <2>7, <2>8 DEF Follows, l, Name
  <2>10. QED
    BY <2>1, <2>9
<1>6. CASE m \in 3 .. Len(stream')
  <2> DEFINE h == k - 1
  <2>1. /\ o \in 3 .. n + 1 /\ Underway(o, i) /\ Begins(s, o, i)
        /\ k = (n - o + 1) + 1
    BY <1>2, <1>6, UnderwayBefore, Zenon DEF n
  <2> HIDE DEF o, l
  <2>2. h \in Nat /\ h = n - o + 1 /\ h + 1 = k
    <3>1. o \in 3 .. n + 1
      BY <2>1
    <3>2. QED
      BY <1>0, <2>1, <3>1
  <2>3. Follows(h, i)
    BY <2>1, <2>2 DEF Followed, n
  <2>4. /\ h + 1 <= l + 2 + DATA_SIZE
        /\ h + 1 > l + 2 => ~EndsData(b)
    BY <1>2, <1>4, <2>2
  <2>5. h = Len(stream) - o + 1
    BY <2>2 DEF n
  <2>6. /\ Len(s) = Len(stream) + 1 /\ s[Len(stream) + 1] = b
        /\ o \in 3 .. Len(stream) + 1 /\ Begins(s, o, i)
        /\ h + 1 <= Len(Name(i)) + 2 + DATA_SIZE
        /\ h + 1 > Len(Name(i)) + 2 => ~EndsData(b)
    BY <1>0, <1>1, <2>1, <2>4 DEF l, n
  <2>7. h \in Nat
    BY <2>2
  <2> HIDE DEF h
  <2>8. Follows(h + 1, i)'
    BY <2>3, <2>5, <2>6, <2>7, ByteFollows
  <2>9. QED
    BY <2>2, <2>8
<1>7. QED
  BY <1>0, <1>5, <1>6

LEMMA DeliveredStep ==
  ASSUME Types, DataThere, Followed, NEW b \in Byte, ReceiveByte(b),
         NEW d \in 0 .. Len(stream) - 1, NEW s \in Seq(Byte), Received(b, d, s)
  PROVE  LinesAreDelivered'
<1> SUFFICES ASSUME NEW i \in Slot, NEW m \in DOMAIN stream',
                    urcs[i].callback # NULL, StartsLine(m)',
                    IsUrc(From(stream', m), i)
             PROVE  call' = [callback |-> urcs[i].callback,
                             data |-> DataFrom(From(stream', m), i)]
  BY DEF LinesAreDelivered, IsUrc, BeginsUrc, DataFrom, From
<1> DEFINE n == Len(stream)
           k == Len(stream') - m + 1
           l == Len(Name(i))
           o == m + d
           h == n - o + 1
           f == From(stream', m)
<1>1. /\ n \in Nat /\ n >= 2 /\ Len(stream') = n + 1 - d
      /\ s[n + 1] = b /\ d \in Nat /\ Len(stream') \in Nat
      /\ \A x \in 1 .. Len(stream') : stream'[x] = s[d + x]
      /\ stream' \in Seq(Byte)
      /\ Len(s) = n + 1
  BY LenProperties DEF Types, Received
<1>2. l \in Nat /\ DATA_SIZE \in Nat
  BY Names, TableAssumption
<1>3. m \in 1 .. Len(stream') /\ m \in 1 .. Len(stream') + 1
  BY <1>1, LenProperties
<1>4. m \in 3 .. Len(stream')
  BY <1>1, <1>3 DEF StartsLine
<1>5. /\ f \in Seq(Byte) /\ Len(f) = k
      /\ \A x \in 1 .. k : f[x] = stream'[m + x - 1]
  BY <1>1, <1>3, Suffix
<1>6. Begins(stream', m, i)
  BY <1>1, <1>3, BeginsAt DEF IsUrc
<1>7. Len(f) >= l + 3 /\ EndsData(f[Len(f)])
  BY DEF IsUrc, Name
<1>8. EndsData(b)
  <2>1. k \in 1 .. k /\ m + k - 1 = Len(stream')
        /\ Len(stream') \in 1 .. Len(stream') /\ d + Len(stream') = n + 1
    BY <1>1, <1>3
  <2> HIDE DEF k, f
  <2>2. f[k] = stream'[Len(stream')]
    BY <1>5, <2>1
  <2>3. stream'[Len(stream')] = b
    BY <1>1, <2>1
  <2>4. QED
    BY <1>5, <1>7, <2>2, <2>3
<1>9. /\ o \in 3 .. n + 1 /\ Underway(o, i)
      /\ k = (n - o + 1) + 1
  BY <1>4, <1>6, UnderwayBefore, Zenon
<1>10. Follows(h, i)
  <2>1. h \in Nat
    <3>1. n \in Nat /\ o \in 3 .. n + 1
      BY <1>1, <1>9
    <3> HIDE DEF n, o
    <3>2. QED
      BY <3>1
  <2>2. QED
    BY <1>9, <2>1 DEF Followed
<1> HIDE DEF n, k, f, o, l
<1>11. h >= l + 2
  BY <1>1, <1>2, <1>5, <1>7, <1>9
<1> HIDE DEF h
<1>12. /\ urc_parse_state = "PARSING_DATA" /\ urc_index = i
       /\ Len(urc_data_buffer) = h - l - 2
  BY <1>10, <1>11 DEF Follows, l
<1>13. DataAt - d = m
  <2>1. DataAt = n - Len(urc_data_buffer) - l - 1
    BY <1>12 DEF DataAt, n, l
  <2>2. DataAt = o
    <3>1. h = n - o + 1
      BY DEF h
    <3>2. n \in Nat /\ o \in 3 .. n + 1
      BY <1>1, <1>9
    <3>3. Len(urc_data_buffer) = h - l - 2
      BY <1>12
    <3>4. QED
      BY <1>2, <2>1, <3>1, <3>2, <3>3
  <2>3. o - d = m
    BY <1>1, <1>3 DEF o
  <2>4. QED
    BY <2>2, <2>3
<1>14. DataFrom(f, i) = urc_data_buffer
  <2>1. DataFrom(From(stream', DataAt - d), urc_index) = urc_data_buffer
    BY <1>8, <1>12, DataIsFrom
  <2>2. QED
    BY <1>12, <1>13, <2>1 DEF f
<1>15. Called(b) = urcs[i].callback
  BY <1>8, <1>12 DEF Called, Completes, Types, MatchedSlotInUse
<1>16. call' = [callback |-> urcs[i].callback, data |-> urc_data_buffer]
  BY <1>15 DEF ReceiveByte
<1>17. QED
  BY <1>14, <1>16 DEF f
-----------------------------------------------------------------------------
(* The parser follows every URC on a line of its own, from the line's end  *)
(* before it on: the invariant of which LinesAreDelivered is a consequence.*)
LineInvariant == StreamInvariant /\ AfterCr /\ Followed

LEMMA InitLines == Init => LineInvariant /\ LinesAreDelivered
<1> SUFFICES ASSUME Init PROVE LineInvariant /\ LinesAreDelivered
  OBVIOUS
<1>1. /\ stream = <<"CR", "LF">> /\ urc_parse_state = "NOT_PARSING"
  BY DEF Init, ParserInit
<1>2. Len(stream) = 2 /\ DOMAIN stream = 1 .. 2
  BY <1>1
<1>3. StreamInvariant
  BY InitStream
<1>4. AfterCr
  BY <1>1 DEF AfterCr
<1>5. Followed
  <2>1. SUFFICES ASSUME NEW i \in Slot, NEW m \in 3 .. Len(stream) + 1
                 PROVE  Follows(0, i)
    <3>1. \A m \in 3 .. Len(stream) + 1, k \in Nat :
            k = Len(stream) - m + 1 => k = 0
      BY <1>2
    <3>2. QED
      BY <3>1 DEF Followed
  <2>3. Len(Name(i)) \in Nat
    BY Names
  <2>4. 0 # 1 /\ 0 \notin 2 .. Len(Name(i)) + 1 /\ ~(0 >= Len(Name(i)) + 2)
    BY <2>3
  <2>5. QED
    BY <1>1, <2>4 DEF Follows
<1>6. LinesAreDelivered
  BY <1>2 DEF LinesAreDelivered, StartsLine
<1>7. QED
  BY <1>3, <1>4, <1>5, <1>6 DEF LineInvariant

LEMMA LineStep ==
  Receivable /\ LineInvariant /\ LinesAreDelivered /\ [Next]_vars
    => LineInvariant' /\ LinesAreDelivered'
<1> SUFFICES ASSUME Receivable, LineInvariant, LinesAreDelivered, [Next]_vars
             PROVE  LineInvariant' /\ LinesAreDelivered'
  OBVIOUS
<1>1. CASE Next
  <2>1. PICK b \in Byte : ReceiveByte(b)
    BY <1>1 DEF Next
  <2>2. /\ Types /\ PlusThere /\ IdentifierThere /\ DataThere /\ Parse(b)
        /\ AfterCr /\ Followed
    BY <2>1 DEF LineInvariant, StreamInvariant, ReceiveByte
  <2>3. PICK d \in 0 .. Len(stream) - 1, s \in Seq(Byte) : Received(b, d, s)
    BY <2>1, <2>2, ByteIsReceived DEF Types
  <2>4. Types'
    BY <2>2, <2>3, TypesStep
  <2>5. PlusThere'
    BY <2>2, <2>3, PlusStep
  <2>6. IdentifierThere'
    BY <2>2, <2>3, IdentifierStep
  <2>7. DataThere'
    BY <2>2, <2>3, DataStep
  <2>8. AfterCr'
    BY <2>2, <2>3, AfterCrStep
  <2>9. Followed'
    BY <2>2, <2>3, FollowedStep
  <2>10. LinesAreDelivered'
    BY <2>1, <2>2, <2>3, DeliveredStep
  <2>11. QED
    BY <2>4, <2>5, <2>6, <2>7, <2>8, <2>9, <2>10
       DEF LineInvariant, StreamInvariant
<1>2. CASE UNCHANGED vars
  <2>1. /\ stream' = stream /\ call' = call
        /\ urc_parse_state' = urc_parse_state
        /\ urc_identifier_buffer' = urc_identifier_buffer
        /\ urc_data_buffer' = urc_data_buffer
        /\ urc_index' = urc_index
        /\ urc_current_callback' = urc_current_callback
    BY <1>2 DEF vars, parser
  <2>2. Types'
    BY <2>1 DEF LineInvariant, StreamInvariant, Types, ParserTypeOK,
                MatchedSlotInUse
  <2>3. PlusThere' /\ IdentifierThere'
    BY <2>1 DEF LineInvariant, StreamInvariant, PlusThere, IdentifierThere,
                Prefixes, EndsWith
  <2>4. DataThere'
    BY <2>1 DEF LineInvariant, StreamInvariant, DataThere, DataAt, Begins,
                Name
  <2>5. AfterCr'
    BY <2>1 DEF LineInvariant, AfterCr
  <2>6. Followed'
    <3>1. ASSUME NEW i \in Slot, NEW m
          PROVE  Underway(m, i)' = Underway(m, i)
      BY <2>1 DEF Underway, StartsLine, Begins, Name
    <3>2. ASSUME NEW i \in Slot, NEW k
          PROVE  Follows(k, i)' = Follows(k, i)
      BY <2>1 DEF Follows, Prefixes, Name
    <3>3. QED
      BY <2>1, <3>1, <3>2 DEF LineInvariant, Followed
  <2>7. LinesAreDelivered'
    <3>1. SUFFICES ASSUME NEW i \in Slot, NEW m \in DOMAIN stream',
                          urcs[i].callback # NULL, StartsLine(m)',
                          IsUrc(From(stream', m), i)
                   PROVE  call' = [callback |-> urcs[i].callback,
                                   data |-> DataFrom(From(stream', m), i)]
      BY DEF LinesAreDelivered, IsUrc, BeginsUrc, DataFrom, From
    <3>2. StartsLine(m)
      BY <2>1, <3>1 DEF StartsLine
    <3>3. call = [callback |-> urcs[i].callback,
                  data |-> DataFrom(From(stream, m), i)]
      BY <2>1, <3>1, <3>2 DEF LineInvariant, LinesAreDelivered
    <3>4. QED
      BY <2>1, <3>3
  <2>8. QED
    BY <2>2, <2>3, <2>4, <2>5, <2>6, <2>7 DEF LineInvariant, StreamInvariant
<1>3. QED
  BY <1>1, <1>2

(* A URC on a line of its own is delivered, whatever came before, when its *)
(* identifier is one the parser can receive.                               *)
THEOREM LinesAreDeliveredTheorem ==
  ASSUME Receivable PROVE Spec => []LinesAreDelivered
<1>1. Init => LineInvariant /\ LinesAreDelivered
  BY InitLines
<1>2. LineInvariant /\ LinesAreDelivered /\ [Next]_vars
        => LineInvariant' /\ LinesAreDelivered'
  BY LineStep
<1>3. QED
  BY <1>1, <1>2, PTL DEF Spec
=============================================================================

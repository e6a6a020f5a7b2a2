-------------------------- MODULE ReadPayloadProofs --------------------------
(***************************************************************************)
(* What readResponse() returns, for commands and for the two functions     *)
(* that read a payload, for every size of the buffers, every number of     *)
(* retries, every payload and whatever a caller's buffer held before.      *)
(***************************************************************************)
EXTENDS ReadPayload, SequenceTheorems, WellFoundedInduction, TLAPS

Contents == Cell \union {"NUL"}

(* The least of a set of places.                                           *)
LEMMA FirstIsLeast ==
  ASSUME NEW S \in SUBSET Nat, S # {}
  PROVE  First(S) \in S /\ \A j \in S : First(S) <= j
<1> DEFINE R == OpToRel(<, Nat)
<1>1. IsWellFoundedOn(R, Nat)
  BY NatLessThanWellFounded
<1>2. PICK i \in S : \A j \in S : <<j, i>> \notin R
  BY <1>1, WFMin, Zenon
<1>3. \A j \in S : i <= j
  <2>1. SUFFICES ASSUME NEW j \in S, ~(i <= j)
                 PROVE  FALSE
    OBVIOUS
  <2>2. i \in Nat /\ j \in Nat /\ j < i
    BY <2>1
  <2>3. <<j, i>> \in R
    BY <2>2 DEF OpToRel
  <2>4. QED
    BY <1>2, <2>3
<1>4. QED
  BY <1>3 DEF First

(* A function on 1 .. n is a sequence of length n.                         *)
LEMMA FunctionIsSequence ==
  ASSUME NEW S, NEW n \in Nat, NEW f \in [1 .. n -> S]
  PROVE  f \in Seq(S) /\ Len(f) = n
<1>1. f \in Seq(S)
  BY SeqDef
<1>2. Len(f) \in Nat /\ 1 .. Len(f) = 1 .. n
  BY <1>1, LenProperties
<1>3. QED
  BY <1>1, <1>2

LEMMA PrefixProperties ==
  ASSUME NEW S, NEW s \in Seq(S), NEW n \in 0 .. Len(s)
  PROVE  /\ SubSeq(s, 1, n) \in Seq(S)
         /\ Len(SubSeq(s, 1, n)) = n
         /\ \A i \in 1 .. n : SubSeq(s, 1, n)[i] = s[i]
<1>1. Len(s) \in Nat /\ n \in Nat /\ n <= Len(s)
  BY LenProperties
<1>2. SubSeq(s, 1, n) = [i \in 1 .. n |-> s[i]]
  BY SubSeqRestrict DEF Restrict
<1>3. \A i \in 1 .. n : s[i] \in S
  BY <1>1, ElementOfSeq
<1>4. SubSeq(s, 1, n) \in [1 .. n -> S]
  BY <1>2, <1>3
<1>5. QED
  BY <1>1, <1>2, <1>4, FunctionIsSequence

(* The three cells of the end of a response.                               *)
EndAt(s, k, word) == s[k] = "NL" /\ s[k + 1] = word /\ s[k + 2] = "NL"

LEMMA EndOfThree ==
  ASSUME NEW S, NEW s \in Seq(S), NEW word,
         NEW k \in Nat, k >= 1, k + 2 <= Len(s)
  PROVE  SubSeq(s, k, k + 2) = End(word) <=> EndAt(s, k, word)
<1> DEFINE t == SubSeq(s, k, k + 2)
<1>1. /\ Len(t) = 3
      /\ \A i \in 1 .. 3 : t[i] = s[k + i - 1]
  BY LenProperties, SubSeqProperties
<1>2. t[1] = s[k] /\ t[2] = s[k + 1] /\ t[3] = s[k + 2]
  <2>1. k + 1 - 1 = k /\ k + 2 - 1 = k + 1 /\ k + 3 - 1 = k + 2
    OBVIOUS
  <2>2. t[1] = s[k + 1 - 1] /\ t[2] = s[k + 2 - 1] /\ t[3] = s[k + 3 - 1]
    <3> HIDE DEF t
    <3>1. QED
      BY <1>1
  <2>3. QED
    BY <2>1, <2>2
<1>3. t \in Seq(S)
  BY LenProperties, SubSeqProperties
<1>4. End(word) = <<"NL", word, "NL">>
  BY DEF End
<1> HIDE DEF t
<1>5. t = <<t[1], t[2], t[3]>>
  BY <1>1, <1>3
<1>6. t = End(word) <=> t[1] = "NL" /\ t[2] = word /\ t[3] = "NL"
  BY <1>4, <1>5
<1>7. QED
  BY <1>2, <1>6 DEF EndAt, t
-----------------------------------------------------------------------------
(* A C string ends before the first NUL.                                   *)
LEMMA CStringOf ==
  ASSUME NEW N \in Nat, NEW b \in [1 .. N -> Contents]
  PROVE  /\ CString(b) \in Seq(Contents)
         /\ Len(CString(b)) \in 0 .. N
         /\ \A i \in 1 .. Len(CString(b)) :
              CString(b)[i] = b[i] /\ b[i] # "NUL"
         /\ Len(CString(b)) = N \/ b[Len(CString(b)) + 1] = "NUL"
<1>1. b \in Seq(Contents) /\ Len(b) = N
  BY FunctionIsSequence
<1>2. Nuls(b) = {k \in 1 .. N : b[k] = "NUL"}
  BY DEF Nuls
<1>3. CASE Nuls(b) = {}
  BY <1>1, <1>2, <1>3 DEF CString
<1>4. CASE Nuls(b) # {}
  <2> DEFINE f == First(Nuls(b))
  <2> Nuls(b) \in SUBSET Nat
    BY <1>2
  <2>1. f \in Nuls(b) /\ \A j \in Nuls(b) : f <= j
    BY <1>4, FirstIsLeast
  <2>2. CString(b) = SubSeq(b, 1, f - 1)
    BY <1>4 DEF CString
  <2> HIDE DEF f
  <2>3. f \in 1 .. N /\ b[f] = "NUL" /\ f - 1 \in 0 .. Len(b)
    BY <1>1, <1>2, <2>1
  <2>4. \A i \in 1 .. f - 1 : b[i] # "NUL"
    BY <1>2, <2>1, <2>3
  <2>5. /\ CString(b) \in Seq(Contents)
        /\ Len(CString(b)) = f - 1
        /\ \A i \in 1 .. f - 1 : CString(b)[i] = b[i]
    BY <1>1, <2>2, <2>3, PrefixProperties
  <2>6. QED
    BY <2>3, <2>4, <2>5
<1>5. QED
  BY <1>3, <1>4

(* Where strstr finds the end: no NUL before or in it.                     *)
LEMMA PlacesOf ==
  ASSUME NEW N \in Nat, NEW b \in [1 .. N -> Contents], NEW word, NEW k,
         word # "NUL"
  PROVE  k \in Places(b, word) <=>
           /\ k \in 1 .. N - 2
           /\ EndAt(b, k, word)
           /\ \A j \in 1 .. k - 1 : b[j] # "NUL"
<1> DEFINE c == CString(b)
<1>1. /\ c \in Seq(Contents) /\ Len(c) \in 0 .. N
      /\ \A i \in 1 .. Len(c) : c[i] = b[i] /\ b[i] # "NUL"
      /\ Len(c) = N \/ b[Len(c) + 1] = "NUL"
  BY CStringOf
<1>2. k \in Places(b, word) <=>
        k \in 1 .. Len(c) - 2 /\ SubSeq(c, k, k + 2) = End(word)
  BY DEF Places
<1> HIDE DEF c
<1>3. ASSUME k \in 1 .. Len(c) - 2
      PROVE  /\ k \in 1 .. N - 2
             /\ SubSeq(c, k, k + 2) = End(word) <=> EndAt(b, k, word)
             /\ \A j \in 1 .. k - 1 : b[j] # "NUL"
  <2>1. SubSeq(c, k, k + 2) = End(word) <=> EndAt(c, k, word)
    BY <1>1, <1>3, EndOfThree
  <2>2. c[k] = b[k] /\ c[k + 1] = b[k + 1] /\ c[k + 2] = b[k + 2]
    BY <1>1, <1>3
  <2>3. QED
    BY <1>1, <1>3, <2>1, <2>2 DEF EndAt
<1>4. ASSUME /\ k \in 1 .. N - 2
             /\ EndAt(b, k, word)
             /\ \A j \in 1 .. k - 1 : b[j] # "NUL"
      PROVE  k \in 1 .. Len(c) - 2
  <2>1. \A j \in 1 .. k + 2 : b[j] # "NUL"
    BY <1>4 DEF EndAt
  <2>2. ~(Len(c) + 1 \in 1 .. k + 2) \/ Len(c) = N
    BY <1>1, <2>1
  <2>3. QED
    BY <1>1, <1>4, <2>2
<1>5. QED
  BY <1>2, <1>3, <1>4

(* The string that is left when an end is cut off.                         *)
LEMMA CutString ==
  ASSUME NEW N \in Nat, NEW b \in [1 .. N -> Contents], NEW word,
         word # "NUL", Places(b, word) # {}
  PROVE  /\ First(Places(b, word)) \in Places(b, word)
         /\ \A k \in Places(b, word) : First(Places(b, word)) <= k
         /\ Cut(b, word) \in [1 .. N -> Contents]
         /\ CString(Cut(b, word)) \in Seq(Contents)
         /\ Len(CString(Cut(b, word))) = First(Places(b, word)) - 1
         /\ \A i \in 1 .. First(Places(b, word)) - 1 :
              CString(Cut(b, word))[i] = b[i]
<1> DEFINE f == First(Places(b, word))
           d == Cut(b, word)
<1>1. Places(b, word) \subseteq Nat
  BY PlacesOf
<1>2. f \in Places(b, word) /\ \A k \in Places(b, word) : f <= k
  BY <1>1, FirstIsLeast
<1>3. d = [b EXCEPT ![f] = "NUL"]
  BY DEF Cut
<1> HIDE DEF f, d
<1>4. f \in 1 .. N - 2 /\ \A j \in 1 .. f - 1 : b[j] # "NUL"
  BY <1>2, PlacesOf
<1>5. /\ d \in [1 .. N -> Contents] /\ d[f] = "NUL"
      /\ \A j \in 1 .. f - 1 : d[j] = b[j]
  BY <1>3, <1>4 DEF Contents
<1>6. /\ CString(d) \in Seq(Contents) /\ Len(CString(d)) \in 0 .. N
      /\ \A i \in 1 .. Len(CString(d)) :
           CString(d)[i] = d[i] /\ d[i] # "NUL"
      /\ Len(CString(d)) = N \/ d[Len(CString(d)) + 1] = "NUL"
  BY <1>5, CStringOf
<1>7. Len(CString(d)) = f - 1
  <2>1. ~(f \in 1 .. Len(CString(d)))
    BY <1>5, <1>6
  <2>2. ~(Len(CString(d)) + 1 \in 1 .. f - 1)
    BY <1>4, <1>5, <1>6
  <2>3. QED
    BY <1>4, <1>6, <2>1, <2>2
<1>8. QED
  BY <1>2, <1>5, <1>6, <1>7 DEF f, d
-----------------------------------------------------------------------------
(* The types, with what the place in the program says of them.             *)
ReadingTypes ==
  /\ ReadTypeOK
  /\ outstanding \in 0 .. MaxOutstanding
  /\ with_result \in BOOLEAN
  /\ buffer \in [1 .. BufferSize -> Contents]
  /\ retry_count \in 0 .. COMMAND_NUM_RETRIES
  /\ response \in Result
  /\ received \in Seq(Cell) /\ Len(received) <= BufferSize
  /\ arrived \in BOOLEAN /\ overread \in BOOLEAN
  /\ pc = "read" => Len(received) < BufferSize
  /\ pc = "send" => call \in {"command", "wake"}
  /\ pc = "start" => call \in {"body", "message"}
  /\ (pc = "start" /\ call = "body") => start_bytes # 0
  /\ (pc \in {"read", "check"} /\ call \in {"body", "message"}) =>
       with_result /\ before \in Buffer

LEMMA Sizes ==
  ASSUME with_result \in BOOLEAN
  PROVE  BufferSize \in Nat /\ BufferSize >= 1
  BY CommandAssumption DEF BufferSize

LEMMA ZerosAreContents ==
  ASSUME NEW n \in Nat
  PROVE  Zeros(n) \in [1 .. n -> Contents]
  BY DEF Zeros, Contents

(* What the steps of CommandResponse.tla do to the types.                  *)
LEMMA CallTypes ==
  ASSUME ReadingTypes, NEW with \in BOOLEAN, Call(with),
         call' \in {"command", "wake"}, late' \in BOOLEAN,
         UNCHANGED <<start_bytes, request, payload, before, mixed>>
  PROVE  ReadingTypes'
<1> USE CommandAssumption, PayloadAssumption DEF request
<1>1. BufferSize' = IF with THEN RESULT_SIZE ELSE PLACEHOLDER_SIZE
  BY DEF Call, BufferSize
<1>2. BufferSize' \in Nat /\ buffer' \in [1 .. BufferSize' -> Contents]
  BY <1>1, ZerosAreContents DEF Call
<1>3. received' = <<>> /\ Len(received') <= BufferSize'
  BY <1>2 DEF Call
<1>4. /\ rx' = <<>> /\ pc' = "send" /\ with_result' \in BOOLEAN
      /\ retry_count' = 0 /\ response' = response
      /\ outstanding' = outstanding
      /\ arrived' = FALSE /\ overread' = FALSE
  BY DEF Call
<1>5. ReadTypeOK'
  BY <1>4 DEF ReadingTypes, ReadTypeOK, Control
<1>6. retry_count' \in 0 .. COMMAND_NUM_RETRIES
  BY <1>4
<1>7. received' \in Seq(Cell)
  BY <1>3
<1>8. outstanding' \in 0 .. MaxOutstanding /\ response' \in Result
  BY <1>4 DEF ReadingTypes
<1>9. pc' = "send" /\ call' \in {"command", "wake"}
  BY <1>4
<1>10. QED
  BY <1>2, <1>3, <1>4, <1>5, <1>6, <1>7, <1>8, <1>9 DEF ReadingTypes

LEMMA SendTypes ==
  ASSUME ReadingTypes, Send, UNCHANGED <<callVars, request, past>>
  PROVE  ReadingTypes'
<1> USE CommandAssumption, PayloadAssumption DEF callVars, request, past
<1>1. BufferSize' = BufferSize /\ BufferSize \in Nat /\ BufferSize >= 1
  BY Sizes DEF ReadingTypes, Send, BufferSize
<1>2. buffer' \in [1 .. BufferSize -> Contents]
  <2>1. CASE with_result
    BY <2>1 DEF Send, ReadingTypes, Contents
  <2>2. CASE ~with_result
    BY <2>2, ZerosAreContents DEF Send, BufferSize
  <2>3. QED
    BY <2>1, <2>2
<1>3. received' = <<>> /\ Len(received') < BufferSize'
  BY <1>1 DEF Send
<1>4. outstanding' \in 0 .. MaxOutstanding
  BY DEF Send, ReadingTypes
<1>5. call \in {"command", "wake"}
  BY DEF Send, ReadingTypes
<1>6. QED
  BY <1>1, <1>2, <1>3, <1>4, <1>5
     DEF Send, ReadingTypes, ReadTypeOK, Control

LEMMA RetryTypes ==
  ASSUME ReadingTypes, Retry \/ Return, call \in {"command", "wake"},
         UNCHANGED <<callVars, request, past>>
  PROVE  ReadingTypes'
<1> USE CommandAssumption, PayloadAssumption
    DEF callVars, request, past, modem, history
<1>1. BufferSize' = BufferSize
  BY DEF Retry, Return, BufferSize
<1>2. buffer' \in [1 .. BufferSize -> Contents]
  BY DEF Retry, Return, ReadingTypes, Contents
<1>3. retry_count' \in 0 .. COMMAND_NUM_RETRIES
  BY DEF Retry, Return, ReadingTypes
<1>4. pc' \in {"send", "idle"}
  BY DEF Retry, Return
<1>5. QED
  BY <1>1, <1>2, <1>3, <1>4
     DEF Retry, Return, ReadingTypes, ReadTypeOK, Control

LEMMA TimeOutTypes ==
  ASSUME ReadingTypes, TimeOut, UNCHANGED <<callVars, request, past>>
  PROVE  ReadingTypes'
  BY PayloadAssumption
     DEF callVars, request, past, modem, history, TimeOut, Respond,
         ReadingTypes, ReadTypeOK, Control, Result, BufferSize

(* The buffer with the cell that is read next.                             *)
Extended == [buffer EXCEPT ![Len(received) + 1] = Head(rx)]

(* One round of the loop of readResponse.                                  *)
LEMMA RoundOfLoop ==
  ASSUME ReadingTypes, ReadCell
  PROVE  LET n == Len(received) + 1
         IN  /\ pc = "read" /\ rx # <<>> /\ Head(rx) \in Cell
             /\ n \in 1 .. BufferSize /\ BufferSize' = BufferSize
             /\ rx' \in Seq(Cell) /\ rx' = Tail(rx) /\ Len(rx') <= Len(rx)
             /\ received' \in Seq(Cell) /\ Len(received') = n
             /\ received'[n] = Head(rx)
             /\ \A i \in 1 .. n - 1 : received'[i] = received[i]
             /\ Extended \in [1 .. BufferSize -> Contents]
             /\ Extended[n] = Head(rx)
             /\ \A i \in 1 .. BufferSize : i # n => Extended[i] = buffer[i]
<1> DEFINE n == Len(received) + 1
<1>1. pc = "read" /\ rx # <<>> /\ rx \in Seq(Cell) /\ received \in Seq(Cell)
  BY DEF ReadCell, ReadingTypes, ReadTypeOK
<1>2. /\ rx' = Tail(rx) /\ received' = Append(received, Head(rx))
      /\ with_result' = with_result
  BY DEF ReadCell
<1>3. Head(rx) \in Cell /\ rx' \in Seq(Cell) /\ Len(rx') <= Len(rx)
  BY <1>1, <1>2, HeadTailProperties, LenProperties
<1>4. n \in 1 .. BufferSize /\ BufferSize \in Nat
  BY <1>1, Sizes, LenProperties DEF ReadingTypes
<1>5. /\ received' \in Seq(Cell) /\ Len(received') = n
      /\ received'[n] = Head(rx)
      /\ \A i \in 1 .. n - 1 : received'[i] = received[i]
  BY <1>1, <1>2, <1>3, AppendProperties
<1>6. /\ Extended \in [1 .. BufferSize -> Contents]
      /\ Extended[n] = Head(rx)
      /\ \A i \in 1 .. BufferSize : i # n => Extended[i] = buffer[i]
  BY <1>3, <1>4 DEF ReadingTypes, Extended, Contents
<1>7. BufferSize' = BufferSize
  BY <1>2 DEF BufferSize
<1>8. QED
  BY <1>1, <1>2, <1>3, <1>4, <1>5, <1>6, <1>7

(* How it ends: with an end that has been found, with the buffer full, or  *)
(* with nothing found; or, having searched on behind the buffer, anyhow.   *)
LEMMA EndOfRound ==
  ASSUME ReadCell
  PROVE  \/ /\ Head(rx) = "NL" /\ Places(Extended, "OK") # {}
            /\ buffer' = Cut(Extended, "OK")
            /\ response' = "OK" /\ pc' = "check"
         \/ /\ Head(rx) = "NL" /\ Places(Extended, "OK") = {}
            /\ Places(Extended, "ERROR") # {}
            /\ buffer' = Cut(Extended, "ERROR")
            /\ response' = "ERROR" /\ pc' = "check"
         \/ /\ \/ Head(rx) # "NL"
               \/ /\ Places(Extended, "OK") = {}
                  /\ Places(Extended, "ERROR") = {}
            /\ buffer' = Extended
            /\ \/ /\ Len(received) + 1 = BufferSize
                  /\ response' = "BUFFER_OVERFLOW" /\ pc' = "check"
               \/ /\ Len(received) + 1 # BufferSize
                  /\ UNCHANGED <<response, pc>>
         \/ /\ overread' /\ buffer' = Extended
            /\ response' \in {"OK", "ERROR"} /\ pc' = "check"
<1> DEFINE b == [buffer EXCEPT ![Len(received) + 1] = Head(rx)]
           search == Head(rx) = "NL"
           oks == Places(b, "OK")
           errors == Places(b, "ERROR")
           beyond == search /\ oks = {} /\ Nuls(b) = {}
<1>1. /\ overread' = (overread \/ beyond)
      /\ CASE search /\ oks # {} ->
                buffer' = Cut(b, "OK") /\ Respond("OK")
           [] search /\ oks = {} /\ errors # {} ->
                \/ buffer' = Cut(b, "ERROR") /\ Respond("ERROR")
                \/ beyond /\ buffer' = b /\ Respond("OK")
           [] OTHER ->
                \/ ReadOn(b)
                \/ /\ beyond /\ buffer' = b
                   /\ Respond("OK") \/ Respond("ERROR")
  BY DEF ReadCell
<1>2. Extended = b
  BY DEF Extended
<1> HIDE DEF b
<1>3. ASSUME beyond PROVE overread'
  BY <1>1, <1>3
<1>4. CASE search /\ oks # {}
  BY <1>1, <1>2, <1>4 DEF Respond
<1>5. CASE search /\ oks = {} /\ errors # {}
  <2>1. \/ buffer' = Cut(b, "ERROR") /\ Respond("ERROR")
        \/ beyond /\ buffer' = b /\ Respond("OK")
    BY <1>1, <1>5
  <2>2. QED
    BY <1>2, <1>3, <1>5, <2>1 DEF Respond
<1>6. CASE ~search \/ (oks = {} /\ errors = {})
  <2>1. \/ ReadOn(b)
        \/ /\ beyond /\ buffer' = b
           /\ Respond("OK") \/ Respond("ERROR")
    BY <1>1, <1>6
  <2>2. QED
    BY <1>2, <1>3, <1>6, <2>1 DEF Respond, ReadOn
<1>7. QED
  BY <1>4, <1>5, <1>6

LEMMA ReadCellTypes ==
  ASSUME ReadingTypes, ReadCell, UNCHANGED <<callVars, request, past>>
  PROVE  ReadingTypes'
<1> USE DEF callVars, request, past
<1>1. /\ pc = "read" /\ BufferSize' = BufferSize
      /\ Len(received) + 1 \in 1 .. BufferSize
      /\ rx' \in Seq(Cell) /\ Len(rx') <= Len(rx) /\ rx \in Seq(Cell)
      /\ received' \in Seq(Cell) /\ Len(received') = Len(received) + 1
      /\ Extended \in [1 .. BufferSize -> Contents]
  BY RoundOfLoop DEF ReadingTypes, ReadTypeOK
<1>2. BufferSize \in Nat
  BY Sizes DEF ReadingTypes
<1>3. /\ Places(Extended, "OK") # {} =>
           Cut(Extended, "OK") \in [1 .. BufferSize -> Contents]
      /\ Places(Extended, "ERROR") # {} =>
           Cut(Extended, "ERROR") \in [1 .. BufferSize -> Contents]
  BY <1>1, <1>2, CutString
<1>4. buffer' \in [1 .. BufferSize -> Contents]
  BY <1>1, <1>3, EndOfRound
<1>5. /\ pc' \in {"read", "check"}
      /\ pc' = "read" => Len(received) + 1 # BufferSize
      /\ response' \in Result
  BY <1>1, EndOfRound DEF Result, ReadingTypes
<1>6. pc' = "read" => Len(received') < BufferSize'
  BY <1>1, <1>2, <1>5
<1>7. overread' \in BOOLEAN
  BY DEF ReadCell, ReadingTypes
<1>8. UNCHANGED <<outstanding, with_result, retry_count, arrived>>
  BY DEF ReadCell
<1>9. Len(rx') <= MaxRx
  BY <1>1, LenProperties, CommandAssumption DEF ReadingTypes, ReadTypeOK
<1>10. ReadTypeOK'
  BY <1>1, <1>5, <1>9 DEF ReadingTypes, ReadTypeOK, Control
<1>11. /\ Len(received') <= BufferSize'
       /\ buffer' \in [1 .. BufferSize' -> Contents]
  BY <1>1, <1>2, <1>4
<1>12. QED
  BY <1>1, <1>5, <1>6, <1>7, <1>8, <1>10, <1>11 DEF ReadingTypes

LEMMA EndsAreCells ==
  /\ \A w \in Cell : End(w) \in Seq(Cell)
  /\ Line \in Seq(Cell)
  /\ Answers \subseteq Seq(Cell)
<1>1. \A w \in Cell : End(w) \in Seq(Cell)
  BY DEF End, Cell
<1>2. Line \in Seq(Cell)
  BY DEF Line, Cell
<1>3. "OK" \in Cell /\ "ERROR" \in Cell
  BY DEF Cell
<1>4. Line \o End("OK") \in Seq(Cell)
  BY <1>1, <1>2, <1>3, ConcatProperties
<1>5. QED
  BY <1>1, <1>2, <1>3, <1>4 DEF Answers

(* What the modem sends is added behind what is there.                     *)
LEMMA ReceiveTypes ==
  ASSUME ReadingTypes, NEW cells \in Seq(Cell), Receive(cells),
         outstanding' \in 0 .. MaxOutstanding, arrived' \in BOOLEAN,
         asked' \in {"body", "message", NULL}, due' \in Seq(Cell),
         mixed' \in BOOLEAN, UNCHANGED <<callVars, payload, before, late>>
  PROVE  ReadingTypes'
<1> USE DEF callVars
<1>1. rx' \in Seq(Cell) /\ Len(rx') <= MaxRx
  BY ConcatProperties DEF Receive, ReadingTypes, ReadTypeOK
<1>2. /\ UNCHANGED <<pc, with_result, buffer, retry_count, response, received,
                     overread>>
      /\ BufferSize' = BufferSize
  BY DEF Receive, BufferSize
<1>3. ReadTypeOK'
  BY <1>1, <1>2 DEF ReadingTypes, ReadTypeOK
<1>4. QED
  BY <1>2, <1>3 DEF ReadingTypes

LEMMA CommandTypes ==
  ASSUME ReadingTypes, Command \/ ReadBody
  PROVE  ReadingTypes'
<1>1. AnswerDue \in BOOLEAN
  BY DEF AnswerDue
<1>2. ASSUME NEW with \in BOOLEAN, Call(with),
             call' \in {"command", "wake"}, late' = AnswerDue,
             UNCHANGED <<start_bytes, request, payload, before, mixed>>
      PROVE  ReadingTypes'
  BY <1>1, <1>2, CallTypes
<1>3. CASE ReadBody
  BY <1>2, <1>3 DEF ReadBody
<1>4. CASE Command
  <2>1. UNCHANGED <<start_bytes, request, payload, before, mixed>>
    BY <1>4 DEF Command
  <2>2. CASE \E with \in BOOLEAN : Call(with) /\ call' = "command"
                                   /\ late' = AnswerDue
    BY <1>2, <2>1, <2>2
  <2>3. CASE /\ call \in {"command", "wake"}
             /\ Send \/ Retry \/ Return
             /\ UNCHANGED <<call, late>>
    BY <2>1, <2>3, SendTypes, RetryTypes DEF callVars, past
  <2>4. CASE (ReadCell \/ TimeOut) /\ UNCHANGED <<call, late>>
    BY <2>1, <2>4, ReadCellTypes, TimeOutTypes DEF callVars, past
  <2>5. QED
    BY <1>4, <2>2, <2>3, <2>4 DEF Command
<1>5. QED
  BY <1>3, <1>4

LEMMA AskTypes ==
  ASSUME ReadingTypes, AskForBody \/ ReadMessage
  PROVE  ReadingTypes'
<1> USE CommandAssumption, PayloadAssumption
<1>1. AnswerDue \in BOOLEAN
  BY DEF AnswerDue
<1>2. ASSUME NEW what \in {"body", "message"}, Ask(what),
             rx' \in Seq(Cell), Len(rx') <= MaxRx,
             start_bytes' \in 0 .. 3, what = "body" => start_bytes' = 3,
             late' \in BOOLEAN
      PROVE  ReadingTypes'
  <2>1. /\ asked' \in {"body", "message", NULL}
        /\ payload' = NULL /\ mixed' = FALSE /\ overread' = FALSE
        /\ call' = what /\ pc' = "start"
        /\ UNCHANGED <<outstanding, due, with_result, buffer, retry_count,
                       response, received, arrived, before>>
    BY <1>2 DEF Ask, ReadingTypes, ReadTypeOK
  <2>2. BufferSize' = BufferSize
    BY <2>1 DEF BufferSize
  <2>3. ReadTypeOK'
    BY <1>2, <2>1 DEF ReadingTypes, ReadTypeOK, Control
  <2>4. (pc' = "start" /\ call' = "body") => start_bytes' # 0
    BY <1>2, <2>1
  <2>5. call' \in {"body", "message"} /\ pc' = "start"
    BY <2>1
  <2>6. UNCHANGED <<outstanding, with_result, buffer, retry_count, response,
                    received, arrived>> /\ overread' \in BOOLEAN
    BY <2>1
  <2>7. QED
    BY <2>2, <2>3, <2>4, <2>5, <2>6 DEF ReadingTypes
<1>3. CASE ReadMessage
  <2>1. /\ rx' = <<>> /\ Ask("message") /\ late' = AnswerDue
        /\ start_bytes' \in 0 .. 3
    BY <1>3 DEF ReadMessage, ReadingTypes, ReadTypeOK
  <2>2. QED
    BY <1>1, <1>2, <2>1
<1>4. CASE AskForBody
  <2>1. CASE /\ Ask("body")
             /\ start_bytes' = START_BYTES
             /\ late' = (AnswerDue \/ "START" \in ToSet(rx))
             /\ UNCHANGED rx
    <3>1. late' \in BOOLEAN /\ start_bytes' = 3
      BY <2>1 DEF START_BYTES
    <3>2. rx' \in Seq(Cell) /\ Len(rx') <= MaxRx
      BY <2>1 DEF ReadingTypes, ReadTypeOK
    <3>3. QED
      BY <1>2, <2>1, <3>1, <3>2
  <2>2. CASE /\ pc = "idle" /\ call' = "command"
             /\ UNCHANGED <<vars, start_bytes, request, past>>
    <3>1. BufferSize' = BufferSize
      BY <2>2 DEF BufferSize, vars
    <3>2. ReadTypeOK'
      BY <2>2 DEF vars, modem, request, past, ReadingTypes, ReadTypeOK
    <3>3. QED
      BY <2>2, <3>1, <3>2 DEF vars, modem, history, past, ReadingTypes
  <2>3. QED
    BY <1>4, <2>1, <2>2 DEF AskForBody
<1>5. QED
  BY <1>3, <1>4

LEMMA AwaitStartTypes ==
  ASSUME ReadingTypes, AwaitStart
  PROVE  ReadingTypes'
<1> USE CommandAssumption, PayloadAssumption
<1>1. /\ pc = "start" /\ rx # <<>> /\ rx \in Seq(Cell) /\ rx' = Tail(rx)
      /\ call \in {"body", "message"}
      /\ call = "body" => start_bytes # 0
      /\ start_bytes \in 0 .. 3
      /\ UNCHANGED <<outstanding, retry_count, response, arrived, overread,
                     call, request, payload, late, mixed>>
  BY DEF AwaitStart, ReadingTypes, ReadTypeOK
<1>2. rx' \in Seq(Cell) /\ Len(rx') <= MaxRx
  BY <1>1, HeadTailProperties, LenProperties DEF ReadingTypes, ReadTypeOK
<1>3. start_bytes' \in 0 .. 3
  BY <1>1 DEF AwaitStart
<1>4. CASE StartReading
  <2>1. PICK b \in Buffer : /\ buffer' = [b EXCEPT ![RESULT_SIZE] = "NUL"]
                            /\ before' = b
    BY <1>4 DEF StartReading
  <2>2. /\ pc' = "read" /\ with_result' = TRUE /\ received' = <<>>
        /\ BufferSize' = RESULT_SIZE
    BY <1>4 DEF StartReading, BufferSize
  <2>3. buffer' \in [1 .. RESULT_SIZE -> Contents]
    BY <2>1 DEF Contents
  <2>4. before' \in Buffer
    BY <2>1
  <2>5. received' \in Seq(Cell) /\ Len(received') < BufferSize'
    BY <2>2
  <2>6. ReadTypeOK'
    BY <1>1, <1>2, <1>3, <2>2, <2>4
       DEF ReadingTypes, ReadTypeOK, Control, request
  <2>7. buffer' \in [1 .. BufferSize' -> Contents]
        /\ Len(received') <= BufferSize'
    BY <2>2, <2>3, <2>5
  <2>8. QED
    BY <1>1, <2>2, <2>4, <2>5, <2>6, <2>7 DEF ReadingTypes
<1>5. CASE /\ UNCHANGED <<pc, with_result, buffer, received, before>>
           /\ call = "body" => start_bytes' # 0
  <2>1. BufferSize' = BufferSize
    BY <1>5 DEF BufferSize
  <2>2. ReadTypeOK'
    BY <1>1, <1>2, <1>3, <1>5
       DEF ReadingTypes, ReadTypeOK, request
  <2>3. QED
    BY <1>1, <1>5, <2>1, <2>2 DEF ReadingTypes
<1>6. QED
  BY <1>4, <1>5 DEF AwaitStart

LEMMA ReadNextTypes ==
  ASSUME ReadingTypes, [ReadNext]_readVars
  PROVE  ReadingTypes'
<1> USE CommandAssumption, PayloadAssumption
<1>1. CASE Command \/ ReadBody
  BY <1>1, CommandTypes
<1>2. CASE AskForBody \/ ReadMessage
  BY <1>2, AskTypes
<1>3. CASE AwaitStart
  BY <1>3, AwaitStartTypes
<1>4. CASE StartTimesOut \/ ReadReturns \/ UNCHANGED readVars
  <2>1. /\ pc' = pc \/ pc' = "idle"
        /\ UNCHANGED <<modem, with_result, buffer, retry_count, response,
                       history, callVars, request, past>>
    BY <1>4 DEF StartTimesOut, ReadReturns, readVars, vars, callVars
  <2>2. BufferSize' = BufferSize
    BY <2>1 DEF BufferSize
  <2>3. ReadTypeOK'
    BY <2>1 DEF ReadingTypes, ReadTypeOK, Control, modem, callVars, request,
                past
  <2>4. QED
    BY <2>1, <2>2, <2>3 DEF ReadingTypes, modem, history, callVars, past
<1>5. CASE SendLine
  <2>1. /\ UNCHANGED <<callVars, request, payload, before, late>>
        /\ mixed' \in BOOLEAN
    BY <1>5 DEF SendLine, ReadingTypes, ReadTypeOK
  <2>2. asked' \in {"body", "message", NULL} /\ due' \in Seq(Cell)
    BY <2>1 DEF ReadingTypes, ReadTypeOK, request
  <2>3. CASE Answer
    <3>1. PICK a \in Answers :
            /\ outstanding > 0
            /\ outstanding' = outstanding - 1
            /\ arrived' = (arrived \/ "OK" \in ToSet(a))
            /\ Receive(a)
      BY <2>3 DEF Answer
    <3>2. outstanding' \in 0 .. MaxOutstanding /\ arrived' \in BOOLEAN
      BY <3>1 DEF ReadingTypes
    <3>3. a \in Seq(Cell)
      BY EndsAreCells
    <3>4. QED
      BY <2>1, <2>2, <3>1, <3>2, <3>3, ReceiveTypes
  <2>4. CASE OtherLine
    BY <2>1, <2>2, <2>4, EndsAreCells, ReceiveTypes
       DEF OtherLine, ReadingTypes
  <2>5. QED
    BY <1>5, <2>3, <2>4 DEF SendLine
<1>6. CASE AnswerRequest
  <2>1. asked # NULL
    BY <1>6 DEF AnswerRequest
  <2>2. PICK p \in Payload :
          /\ due' = StartOf(asked) \o p \o End("OK")
          /\ payload' = IF pc = "start" /\ asked = call THEN p ELSE payload
    BY <1>6 DEF AnswerRequest
  <2>3. due' \in Seq(Cell)
    <3>1. StartOf(asked) \in Seq(Cell) /\ End("OK") \in Seq(Cell)
      <4>1. "START" \in Cell /\ "NL" \in Cell /\ "OK" \in Cell
        BY DEF Cell
      <4>2. StartOf(asked) \in Seq(Cell)
        BY <4>1 DEF StartOf
      <4>3. QED
        BY <4>1, <4>2, EndsAreCells
    <3>2. StartOf(asked) \o p \in Seq(Cell)
      BY <3>1, ConcatProperties
    <3>3. QED
      BY <2>2, <3>1, <3>2, ConcatProperties
  <2>4. payload' \in Payload \union {NULL}
    BY <2>2 DEF ReadingTypes, ReadTypeOK
  <2>5. UNCHANGED <<vars, callVars, before, late, mixed>> /\ asked' = NULL
    BY <1>6 DEF AnswerRequest
  <2>6. BufferSize' = BufferSize
    BY <2>5 DEF BufferSize, vars
  <2>7. ReadTypeOK'
    BY <2>3, <2>4, <2>5
       DEF ReadingTypes, ReadTypeOK, vars, modem, callVars
  <2>8. QED
    BY <2>5, <2>6, <2>7 DEF ReadingTypes, vars, modem, history, callVars
<1>7. CASE SendPiece
  <2>1. PICK n \in 1 .. Len(due) :
          /\ Receive(SubSeq(due, 1, n))
          /\ due' = SubSeq(due, n + 1, Len(due))
          /\ arrived' = (arrived \/ "OK" \in ToSet(SubSeq(due, 1, n)))
    BY <1>7 DEF SendPiece
  <2>2. due \in Seq(Cell) /\ Len(due) \in Nat
    BY LenProperties DEF ReadingTypes, ReadTypeOK
  <2>3. SubSeq(due, 1, n) \in Seq(Cell) /\ due' \in Seq(Cell)
    BY <2>1, <2>2, SubSeqProperties
  <2>4. /\ UNCHANGED <<outstanding, callVars, asked, past>>
        /\ arrived' \in BOOLEAN
    BY <1>7, <2>1 DEF SendPiece, ReadingTypes
  <2>5. /\ outstanding' \in 0 .. MaxOutstanding
        /\ asked' \in {"body", "message", NULL}
        /\ mixed' \in BOOLEAN /\ UNCHANGED <<payload, before, late>>
    BY <2>4 DEF ReadingTypes, ReadTypeOK, past
  <2>6. QED
    BY <2>1, <2>3, <2>4, <2>5, ReceiveTypes
<1>8. CASE RefuseRequest
  <2>1. PICK word \in {"ERROR", "OK"} :
          Receive(End(word)) /\ arrived' = (arrived \/ word = "OK")
    BY <1>8 DEF RefuseRequest
  <2>2. /\ UNCHANGED <<outstanding, callVars, due, past>>
        /\ asked' = NULL
    BY <1>8 DEF RefuseRequest
  <2>3. /\ outstanding' \in 0 .. MaxOutstanding /\ arrived' \in BOOLEAN
        /\ mixed' \in BOOLEAN /\ UNCHANGED <<payload, before, late>>
        /\ due' \in Seq(Cell)
    BY <2>1, <2>2 DEF ReadingTypes, ReadTypeOK, past
  <2>4. End(word) \in Seq(Cell)
    BY EndsAreCells DEF Cell
  <2>5. QED
    BY <2>1, <2>2, <2>3, <2>4, ReceiveTypes
<1>9. QED
  BY <1>1, <1>2, <1>3, <1>4, <1>5, <1>6, <1>7, <1>8 DEF ReadNext, Program

LEMMA InitReadingTypes == ReadInit => ReadingTypes
<1> USE CommandAssumption, PayloadAssumption
<1>1. SUFFICES ASSUME ReadInit PROVE ReadingTypes
  OBVIOUS
<1>2. /\ rx = <<>> /\ outstanding = 0 /\ pc = "idle" /\ with_result = FALSE
      /\ buffer = Zeros(PLACEHOLDER_SIZE) /\ retry_count = 0
      /\ response = "NONE" /\ received = <<>>
      /\ arrived = FALSE /\ overread = FALSE
      /\ call = "command" /\ start_bytes = 0 /\ asked = NULL /\ due = <<>>
      /\ payload = NULL /\ before = NULL /\ late = FALSE /\ mixed = FALSE
  BY <1>1 DEF ReadInit, Init
<1>3. BufferSize = PLACEHOLDER_SIZE
  BY <1>2 DEF BufferSize
<1>4. buffer \in [1 .. BufferSize -> Contents]
  BY <1>2, <1>3, ZerosAreContents
<1>5. ReadTypeOK
  <2>1. rx \in Seq(Cell) /\ Len(rx) <= MaxRx /\ due \in Seq(Cell)
    BY <1>2
  <2>2. start_bytes \in 0 .. 3
    BY <1>2
  <2>3. QED
    BY <1>2, <2>1, <2>2 DEF ReadTypeOK, Control
<1>6. Len(received) <= BufferSize /\ received \in Seq(Cell)
  BY <1>2, <1>3
<1>7. outstanding \in 0 .. MaxOutstanding /\ response \in Result
      /\ retry_count \in 0 .. COMMAND_NUM_RETRIES
  BY <1>2 DEF Result
<1>8. QED
  BY <1>2, <1>4, <1>5, <1>6, <1>7 DEF ReadingTypes

(* Every variable keeps its type, and no cell is written behind a buffer:  *)
(* readResponse() leaves its loop when the buffer is full.                 *)
THEOREM ReadTypeCorrect ==
  ReadSpec => [](ReadTypeOK /\ Len(received) <= BufferSize)
<1>1. ReadingTypes /\ [ReadNext]_readVars => ReadingTypes'
  BY ReadNextTypes
<1>2. ReadingTypes => ReadTypeOK /\ Len(received) <= BufferSize
  BY DEF ReadingTypes
<1>3. QED
  BY <1>1, <1>2, InitReadingTypes, PTL DEF ReadSpec
-----------------------------------------------------------------------------
(* While readResponse reads, the buffer begins with what it has read, in   *)
(* which no end has been overlooked, and ends with a NUL.                  *)
Written ==
  pc = "read" =>
    /\ \A i \in 1 .. Len(received) : buffer[i] = received[i]
    /\ buffer[BufferSize] = "NUL"
    /\ ~with_result =>
         \A i \in Len(received) + 1 .. BufferSize : buffer[i] = "NUL"
    /\ \A word \in {"OK", "ERROR"}, i \in 1 .. Len(received) - 2 :
         ~EndAt(received, i, word)

OfCommand == call \in {"command", "wake"}
OfRead == call \in {"body", "message"}

(* While a command waits for an OK there is none that it could find.       *)
NoneArrived ==
  (OfCommand /\ pc # "idle" /\ ~arrived) =>
    /\ \A i \in 1 .. Len(rx) : rx[i] # "OK"
    /\ \A i \in 1 .. BufferSize : buffer[i] # "OK"

FoundHasArrived ==
  (OfCommand /\ pc \in {"check", "idle"} /\ response = "OK" /\ ~overread) =>
    arrived

(* With no answer to a request due, whole lines come, ...                  *)
Whole(s) ==
  \A i \in 1 .. Len(s) :
    s[i] = "OK" => /\ i < Len(s) /\ s[i + 1] = "NL"
                   /\ i > 1 => s[i - 1] = "NL"

LinesWhole ==
  (OfCommand /\ ~late /\ pc # "idle") =>
    /\ asked = NULL /\ due = <<>>
    /\ Whole(received \o rx)

(* ... and an OK that a try finds in its buffer is its own: those that the *)
(* tries before have left are in the first cell, which it has overwritten. *)
NoOldOk ==
  (/\ OfCommand /\ with_result /\ ~late /\ ~overread /\ pc # "idle"
   /\ ~(pc = "check" /\ response \in {"OK", "BUFFER_OVERFLOW"})) =>
     \A i \in 2 .. BufferSize :
       buffer[i] = "OK" => pc = "read" /\ i = Len(received)
-----------------------------------------------------------------------------
(* In s, t begins behind cell m.                                           *)
HasAt(s, m, t) ==
  Len(s) >= m + Len(t) /\ \A i \in 1 .. Len(t) : s[m + i] = t[i]

(* A call of readBody or readMessage that is neither disturbed by an       *)
(* answer to an earlier request nor by another line.                       *)
Undisturbed == OfRead /\ ~late /\ ~mixed

(* What it waits for is still to come, ...                                 *)
NothingYet ==
  (Undisturbed /\ pc = "start" /\ payload = NULL) =>
    /\ due = <<>> /\ asked \in {NULL, call}
    /\ call = "body" =>
         start_bytes = 3 /\ \A i \in 1 .. Len(rx) : rx[i] # "START"
    /\ call = "message" =>
         \/ rx = <<>>
         \/ asked = NULL /\ \E word \in {"OK", "ERROR"} : rx = End(word)

(* ... or has been sent, and the next that begins like it is it, ...       *)
Coming ==
  (Undisturbed /\ pc = "start" /\ payload # NULL) =>
    LET s == rx \o due
        t == payload \o End("OK")
    IN  /\ asked = NULL
        /\ call = "body" =>
             \E m \in Nat : /\ \A i \in 1 .. m : s[i] # "START"
                            /\ \A i \in 1 .. start_bytes : s[m + i] = "START"
                            /\ HasAt(s, m + start_bytes, t)
        /\ call = "message" => s[1] = "NL" /\ HasAt(s, 1, t)

(* ... or is being read.                                                   *)
BeingRead ==
  (Undisturbed /\ pc = "read") =>
    /\ asked = NULL
    /\ payload = NULL =>
         /\ call = "message" /\ due = <<>>
         /\ \E word \in {"OK", "ERROR"} : received \o rx = <<word, "NL">>
    /\ payload # NULL =>
         HasAt(received \o (rx \o due), 0, payload \o End("OK"))

BufferKept ==
  (OfRead /\ pc = "read") =>
    \A i \in Len(received) + 1 .. BufferSize - 1 : buffer[i] = before[i]
-----------------------------------------------------------------------------
(* Taking the first of the cells to come, or a piece of those still due,   *)
(* leaves the whole as it is.                                              *)
LEMMA MoveHead ==
  ASSUME NEW r \in Seq(Cell), NEW s \in Seq(Cell), s # <<>>
  PROVE  Append(r, Head(s)) \o Tail(s) = r \o s
<1>1. /\ Head(s) \in Cell /\ Tail(s) \in Seq(Cell)
      /\ Len(Tail(s)) = Len(s) - 1 /\ Len(s) \in Nat /\ Len(s) >= 1
      /\ \A i \in 1 .. Len(Tail(s)) : Tail(s)[i] = s[i + 1]
      /\ Head(s) = s[1]
  BY HeadTailProperties, EmptySeq
<1> DEFINE a == Append(r, Head(s))
           t == Tail(s)
<1>2. /\ a \in Seq(Cell) /\ Len(a) = Len(r) + 1 /\ Len(r) \in Nat
      /\ \A i \in 1 .. Len(r) : a[i] = r[i]
      /\ a[Len(r) + 1] = s[1]
  BY <1>1, AppendProperties, LenProperties
<1> HIDE DEF a, t
<1>3. t \in Seq(Cell) /\ Len(t) = Len(s) - 1
      /\ \A i \in 1 .. Len(s) - 1 : t[i] = s[i + 1]
  BY <1>1 DEF t
<1>4. /\ a \o t \in Seq(Cell) /\ Len(a \o t) = Len(a) + Len(t)
      /\ \A i \in 1 .. Len(a) + Len(t) :
           (a \o t)[i] = IF i <= Len(a) THEN a[i] ELSE t[i - Len(a)]
  BY <1>2, <1>3, ConcatProperties
<1>5. /\ r \o s \in Seq(Cell) /\ Len(r \o s) = Len(r) + Len(s)
      /\ \A i \in 1 .. Len(r) + Len(s) :
           (r \o s)[i] = IF i <= Len(r) THEN r[i] ELSE s[i - Len(r)]
  BY ConcatProperties
<1>6. Len(a \o t) = Len(r \o s) /\ Len(r \o s) = Len(a) + Len(t)
  BY <1>1, <1>2, <1>3, <1>4, <1>5
<1>7. ASSUME NEW i \in 1 .. Len(r) + Len(s)
      PROVE  (a \o t)[i] = (r \o s)[i]
  <2>1. CASE i <= Len(r)
    BY <1>1, <1>2, <1>3, <1>4, <1>5, <2>1
  <2>2. CASE i = Len(r) + 1
    <3>1. /\ i <= Len(a) /\ ~(i <= Len(r)) /\ i - Len(r) = 1
          /\ i \in 1 .. Len(a) + Len(t)
      BY <1>1, <1>2, <1>3, <2>2
    <3>2. (a \o t)[i] = a[i] /\ (r \o s)[i] = s[1]
      BY <1>4, <1>5, <3>1
    <3>3. QED
      BY <1>2, <2>2, <3>2
  <2>3. CASE i > Len(r) + 1
    <3>1. i - Len(a) \in 1 .. Len(s) - 1 /\ i - Len(a) + 1 = i - Len(r)
      BY <1>1, <1>2, <2>3
    <3>2. t[i - Len(a)] = s[i - Len(r)]
      BY <1>3, <3>1
    <3>3. (a \o t)[i] = t[i - Len(a)] /\ (r \o s)[i] = s[i - Len(r)]
      BY <1>1, <1>2, <1>3, <1>4, <1>5, <2>3
    <3>4. QED
      BY <3>2, <3>3
  <2>4. i <= Len(r) \/ i = Len(r) + 1 \/ i > Len(r) + 1
    BY <1>1, <1>2
  <2>5. QED
    BY <2>1, <2>2, <2>3, <2>4, Zenon
<1>8. a \o t = r \o s
  BY <1>4, <1>5, <1>6, <1>7, SeqEqual
<1>9. QED
  BY <1>8 DEF a, t

LEMMA Regroup ==
  \A r, s, t \in Seq(Cell) : (r \o s) \o t = r \o (s \o t)
  OBVIOUS

LEMMA MovePiece ==
  ASSUME NEW r \in Seq(Cell), NEW s \in Seq(Cell), NEW n \in 1 .. Len(s)
  PROVE  /\ SubSeq(s, 1, n) \in Seq(Cell) /\ SubSeq(s, n + 1, Len(s)) \in Seq(Cell)
         /\ (r \o SubSeq(s, 1, n)) \o SubSeq(s, n + 1, Len(s)) = r \o s
<1>1. Len(s) \in Nat /\ n \in Nat /\ n <= Len(s)
  BY LenProperties
<1>2. SubSeq(s, 1, n) \in Seq(Cell) /\ SubSeq(s, n + 1, Len(s)) \in Seq(Cell)
  BY <1>1, SubSeqProperties
<1>3. SubSeq(s, 1, n) \o SubSeq(s, n + 1, Len(s)) = SubSeq(s, 1, Len(s))
  BY <1>1, ConcatAdjacentSubSeq
<1>4. SubSeq(s, 1, Len(s)) = s
  BY SubSeqFull
<1> DEFINE a == SubSeq(s, 1, n)
           b == SubSeq(s, n + 1, Len(s))
<1>5. a \in Seq(Cell) /\ b \in Seq(Cell) /\ a \o b = s
  BY <1>2, <1>3, <1>4
<1> HIDE DEF a, b
<1>6. (r \o a) \o b = r \o (a \o b)
  <2>1. a \in Seq(Cell) /\ b \in Seq(Cell)
    BY <1>5
  <2>2. QED
    BY <2>1, Regroup, Zenon
<1>7. QED
  BY <1>5, <1>6 DEF a, b

LEMMA BothParts ==
  ASSUME NEW s \in Seq(Cell), NEW t \in Seq(Cell)
  PROVE  /\ s \o t \in Seq(Cell) /\ Len(s) \in Nat /\ Len(t) \in Nat
         /\ Len(s \o t) = Len(s) + Len(t)
         /\ \A i \in 1 .. Len(s) : (s \o t)[i] = s[i]
         /\ \A i \in 1 .. Len(t) : (s \o t)[Len(s) + i] = t[i]
<1>1. Len(s) \in Nat /\ Len(t) \in Nat
  BY LenProperties
<1>2. /\ s \o t \in Seq(Cell) /\ Len(s \o t) = Len(s) + Len(t)
      /\ \A i \in 1 .. Len(s) + Len(t) :
           (s \o t)[i] = IF i <= Len(s) THEN s[i] ELSE t[i - Len(s)]
  BY ConcatProperties
<1>3. ASSUME NEW i \in 1 .. Len(t)
      PROVE  (s \o t)[Len(s) + i] = t[i]
  <2>1. /\ Len(s) + i \in 1 .. Len(s) + Len(t)
        /\ ~(Len(s) + i <= Len(s)) /\ Len(s) + i - Len(s) = i
    BY <1>1
  <2>2. QED
    BY <1>2, <2>1
<1>4. ASSUME NEW i \in 1 .. Len(s)
      PROVE  (s \o t)[i] = s[i]
  BY <1>1, <1>2
<1>5. QED
  BY <1>1, <1>2, <1>3, <1>4

(* The cells that come in a step of the modem; OK among them sets arrived. *)
ReaderVars == <<pc, with_result, buffer, retry_count, response, received,
                overread, callVars, payload, before, late>>

LEMMA ModemSends ==
  ASSUME ReadingTypes, SendLine \/ SendPiece \/ RefuseRequest
  PROVE  /\ UNCHANGED ReaderVars
         /\ arrived => arrived'
         /\ \E cells \in Seq(Cell) :
              /\ rx' = rx \o cells
              /\ ~arrived' => \A i \in 1 .. Len(cells) : cells[i] # "OK"
<1> USE DEF Receive, ReaderVars, past, callVars, request
<1>1. arrived \in BOOLEAN
  BY DEF ReadingTypes
<1>2. CASE SendLine
  <2>1. UNCHANGED <<callVars, payload, before, late>>
    BY <1>2 DEF SendLine
  <2>2. CASE Answer
    <3>1. PICK a \in Answers : /\ arrived' = (arrived \/ "OK" \in ToSet(a))
                               /\ Receive(a)
      BY <2>2 DEF Answer
    <3>2. a \in Seq(Cell)
      BY EndsAreCells
    <3>3. ASSUME ~arrived', NEW i \in 1 .. Len(a)
          PROVE  a[i] # "OK"
      <4>1. i \in DOMAIN a
        BY <3>2, LenProperties
      <4>2. QED
        BY <3>1, <3>3, <4>1 DEF ToSet
    <3>4. QED
      BY <1>1, <2>1, <3>1, <3>2, <3>3
  <2>3. CASE OtherLine
    <3>1. \A i \in 1 .. Len(Line) : Line[i] # "OK"
      BY DEF Line
    <3>2. QED
      BY <1>1, <2>1, <2>3, <3>1, EndsAreCells DEF OtherLine
  <2>4. QED
    BY <1>2, <2>2, <2>3 DEF SendLine
<1>3. CASE SendPiece
  <2>1. PICK n \in 1 .. Len(due) :
          /\ Receive(SubSeq(due, 1, n))
          /\ arrived' = (arrived \/ "OK" \in ToSet(SubSeq(due, 1, n)))
    BY <1>3 DEF SendPiece
  <2>2. rx \in Seq(Cell) /\ due \in Seq(Cell)
    BY DEF ReadingTypes, ReadTypeOK
  <2>3. SubSeq(due, 1, n) \in Seq(Cell)
    BY <2>2, MovePiece
  <2>4. ASSUME ~arrived', NEW i \in 1 .. Len(SubSeq(due, 1, n))
        PROVE  SubSeq(due, 1, n)[i] # "OK"
    <3>1. i \in DOMAIN SubSeq(due, 1, n)
      BY <2>3, LenProperties
    <3>2. QED
      BY <2>1, <2>4, <3>1 DEF ToSet
  <2>5. UNCHANGED <<callVars, past>>
    BY <1>3 DEF SendPiece
  <2>6. QED
    BY <1>1, <2>1, <2>3, <2>4, <2>5
<1>4. CASE RefuseRequest
  <2>1. PICK word \in {"ERROR", "OK"} :
          Receive(End(word)) /\ arrived' = (arrived \/ word = "OK")
    BY <1>4 DEF RefuseRequest
  <2>2. End(word) \in Seq(Cell)
    BY EndsAreCells DEF Cell
  <2>3. ~arrived' => \A i \in 1 .. Len(End(word)) : End(word)[i] # "OK"
    <3>1. ~arrived' => word = "ERROR"
      BY <2>1
    <3>2. \A i \in 1 .. Len(End("ERROR")) : End("ERROR")[i] # "OK"
      BY DEF End
    <3>3. QED
      BY <3>1, <3>2
  <2>4. UNCHANGED <<callVars, past>>
    BY <1>4 DEF RefuseRequest
  <2>5. QED
    BY <1>1, <2>1, <2>2, <2>3, <2>4
<1>5. QED
  BY <1>2, <1>3, <1>4
-----------------------------------------------------------------------------
(* The steps by what they do for commands.                                 *)
CommandBegins ==
  /\ \E with \in BOOLEAN : Call(with)
  /\ OfCommand' /\ late' = AnswerDue
  /\ UNCHANGED <<start_bytes, request, payload, before, mixed>>

CommandGoesOn ==
  /\ OfCommand
  /\ Send \/ Retry \/ Return
  /\ UNCHANGED <<callVars, request, past>>

ReadsOn == (ReadCell \/ TimeOut) /\ UNCHANGED <<callVars, request, past>>

BodyGivenUp ==
  /\ pc = "idle" /\ call = "wake" /\ call' = "command"
  /\ UNCHANGED <<vars, start_bytes, request, past>>

AsksForBody ==
  /\ pc = "idle" /\ Ask("body")
  /\ start_bytes' = 3
  /\ late' = (AnswerDue \/ "START" \in ToSet(rx))
  /\ UNCHANGED rx

ModemSendsCells == SendLine \/ SendPiece \/ RefuseRequest

LEMMA Steps ==
  ASSUME [ReadNext]_readVars
  PROVE  \/ CommandBegins \/ CommandGoesOn \/ ReadsOn
         \/ BodyGivenUp \/ AsksForBody \/ ReadMessage
         \/ AwaitStart \/ StartTimesOut \/ ReadReturns
         \/ ModemSendsCells \/ AnswerRequest
         \/ UNCHANGED readVars
<1>1. CASE Command
  <2>1. UNCHANGED <<start_bytes, request, payload, before, mixed>>
    BY <1>1 DEF Command
  <2>2. CASE /\ call # "wake"
             /\ \E with \in BOOLEAN : Call(with)
             /\ call' = "command"
             /\ late' = AnswerDue
    BY <2>1, <2>2 DEF CommandBegins, OfCommand
  <2>3. CASE /\ call \in {"command", "wake"}
             /\ Send \/ Retry \/ Return
             /\ UNCHANGED <<call, late>>
    BY <2>1, <2>3 DEF CommandGoesOn, OfCommand, callVars, past
  <2>4. CASE (ReadCell \/ TimeOut) /\ UNCHANGED <<call, late>>
    BY <2>1, <2>4 DEF ReadsOn, callVars, past
  <2>5. QED
    BY <1>1, <2>2, <2>3, <2>4 DEF Command
<1>2. CASE ReadBody
  BY <1>2 DEF ReadBody, CommandBegins, OfCommand
<1>3. CASE AskForBody
  BY <1>3 DEF AskForBody, AsksForBody, BodyGivenUp, START_BYTES
<1>4. QED
  BY <1>1, <1>2, <1>3 DEF ReadNext, Program, ModemSendsCells

(* A step of readBody or readMessage does not lead into a command.         *)
LEMMA StaysOfRead ==
  ASSUME ReadingTypes,
         \/ AsksForBody \/ ReadMessage
         \/ AwaitStart \/ StartTimesOut \/ ReadReturns
  PROVE  ~OfCommand' /\ OfRead'
<1>1. CASE AsksForBody
  BY <1>1 DEF AsksForBody, Ask, OfCommand, OfRead
<1>2. CASE ReadMessage
  BY <1>2 DEF ReadMessage, Ask, OfCommand, OfRead
<1>3. CASE AwaitStart
  <2>1. call \in {"body", "message"} /\ call' = call
    BY <1>3 DEF AwaitStart, ReadingTypes
  <2>2. QED
    BY <2>1 DEF OfCommand, OfRead
<1>4. CASE StartTimesOut
  BY <1>4 DEF StartTimesOut, callVars, OfCommand, OfRead
<1>5. CASE ReadReturns
  BY <1>5 DEF ReadReturns, Finished, OfCommand, OfRead
<1>6. QED
  BY <1>1, <1>2, <1>3, <1>4, <1>5

LEMMA WrittenKept ==
  ASSUME Written, UNCHANGED <<pc, with_result, buffer, received>>
  PROVE  Written'
<1>1. BufferSize' = BufferSize
  BY DEF BufferSize
<1>2. QED
  BY <1>1 DEF Written, EndAt

LEMMA ReadCellWritten ==
  ASSUME ReadingTypes, Written, ReadCell
  PROVE  Written'
<1> SUFFICES ASSUME pc' = "read" PROVE Written'
  BY DEF Written
<1> DEFINE n == Len(received) + 1
<1>1. /\ pc = "read" /\ Head(rx) \in Cell
      /\ n \in 1 .. BufferSize /\ BufferSize' = BufferSize
      /\ received' \in Seq(Cell) /\ Len(received') = n
      /\ received'[n] = Head(rx)
      /\ \A i \in 1 .. n - 1 : received'[i] = received[i]
      /\ Extended \in [1 .. BufferSize -> Contents]
      /\ Extended[n] = Head(rx)
      /\ \A i \in 1 .. BufferSize : i # n => Extended[i] = buffer[i]
  BY RoundOfLoop
<1>2. /\ BufferSize \in Nat /\ Len(received) \in Nat
      /\ with_result' = with_result
  BY Sizes, LenProperties DEF ReadingTypes, ReadCell
<1>3. /\ buffer' = Extended /\ n # BufferSize
      /\ \/ Head(rx) # "NL"
         \/ Places(Extended, "OK") = {} /\ Places(Extended, "ERROR") = {}
  BY EndOfRound
<1>4. /\ \A i \in 1 .. Len(received) : buffer[i] = received[i]
      /\ buffer[BufferSize] = "NUL"
      /\ ~with_result =>
           \A i \in Len(received) + 1 .. BufferSize : buffer[i] = "NUL"
      /\ \A word \in {"OK", "ERROR"}, i \in 1 .. Len(received) - 2 :
           ~EndAt(received, i, word)
  BY <1>1 DEF Written
<1> HIDE DEF n
<1>5. \A i \in 1 .. n : Extended[i] = received'[i]
  <2>1. n = Len(received) + 1
    BY DEF n
  <2>2. QED
    BY <1>1, <1>2, <1>4, <2>1
<1>6. buffer'[BufferSize] = "NUL"
  BY <1>1, <1>2, <1>3, <1>4
<1>7. ~with_result => \A i \in n + 1 .. BufferSize : buffer'[i] = "NUL"
  BY <1>1, <1>2, <1>3, <1>4 DEF n
<1>8. ASSUME NEW word \in {"OK", "ERROR"}, NEW i \in 1 .. n - 2,
             EndAt(received', i, word)
      PROVE  FALSE
  <2>1. n = Len(received) + 1 /\ n \in Nat
    BY <1>2 DEF n
  <2>2. CASE i + 2 < n
    <3>1. i \in 1 .. Len(received) - 2
      BY <2>1, <2>2, <1>2
    <3>2. EndAt(received, i, word)
      BY <1>1, <1>8, <2>1, <2>2 DEF EndAt
    <3>3. QED
      BY <1>4, <3>1, <3>2
  <2>3. CASE i + 2 = n
    <3>1. Head(rx) = "NL"
      BY <1>1, <1>8, <2>3 DEF EndAt
    <3>2. EndAt(Extended, i, word)
      BY <1>5, <1>8, <2>1, <2>3 DEF EndAt
    <3>3. \A j \in 1 .. i - 1 : Extended[j] # "NUL"
      <4>1. \A j \in 1 .. n : received'[j] \in Cell
        BY <1>1, ElementOfSeq
      <4>2. QED
        BY <1>5, <2>1, <2>3, <4>1 DEF Cell
    <3>4. i \in 1 .. BufferSize - 2 /\ word # "NUL"
      BY <1>1, <1>2, <2>3
    <3>5. i \in Places(Extended, word)
      BY <1>1, <1>2, <3>2, <3>3, <3>4, PlacesOf
    <3>6. QED
      BY <1>3, <3>1, <3>5
  <2>4. QED
    BY <2>1, <2>2, <2>3
<1>9. QED
  BY <1>1, <1>2, <1>3, <1>5, <1>6, <1>7, <1>8 DEF Written

LEMMA WrittenStep ==
  ASSUME ReadingTypes, Written, [ReadNext]_readVars
  PROVE  Written'
<1>1. CASE CommandBegins
  BY <1>1 DEF CommandBegins, Call, Written
<1>2. CASE CommandGoesOn
  <2>1. CASE Send
    <3>1. /\ received' = <<>> /\ with_result' = with_result
          /\ BufferSize' = BufferSize /\ BufferSize \in Nat
          /\ BufferSize >= 1
      BY <2>1, Sizes DEF Send, BufferSize, ReadingTypes
    <3>2. CASE with_result
      <4>1. buffer' = [buffer EXCEPT ![RESULT_SIZE] = "NUL"]
            /\ BufferSize = RESULT_SIZE
        BY <2>1, <3>2 DEF Send, BufferSize
      <4>2. buffer'[BufferSize] = "NUL"
        BY <3>1, <4>1 DEF ReadingTypes
      <4>3. QED
        BY <3>1, <3>2, <4>2 DEF Written
    <3>3. CASE ~with_result
      <4>1. buffer' = Zeros(PLACEHOLDER_SIZE)
            /\ BufferSize = PLACEHOLDER_SIZE
        BY <2>1, <3>3 DEF Send, BufferSize
      <4>2. \A i \in 1 .. BufferSize : buffer'[i] = "NUL"
        BY <4>1 DEF Zeros
      <4>3. QED
        BY <3>1, <3>3, <4>2 DEF Written
    <3>4. QED
      BY <3>2, <3>3
  <2>2. CASE Retry \/ Return
    BY <2>2 DEF Retry, Return, Written
  <2>3. QED
    BY <1>2, <2>1, <2>2 DEF CommandGoesOn
<1>3. CASE ReadsOn
  <2>1. CASE ReadCell
    BY <2>1, ReadCellWritten
  <2>2. CASE TimeOut
    BY <2>2 DEF TimeOut, Respond, Written
  <2>3. QED
    BY <1>3, <2>1, <2>2 DEF ReadsOn
<1>4. CASE AsksForBody \/ ReadMessage
  BY <1>4 DEF AsksForBody, ReadMessage, Ask, Written
<1>5. CASE AwaitStart
  <2>1. CASE StartReading
    <3>1. PICK b \in Buffer : buffer' = [b EXCEPT ![RESULT_SIZE] = "NUL"]
      BY <2>1 DEF StartReading
    <3>2. b \in [1 .. RESULT_SIZE -> Contents] /\ RESULT_SIZE \in 1 .. RESULT_SIZE
      BY PayloadAssumption, CommandAssumption DEF Contents
    <3>3. buffer'[RESULT_SIZE] = "NUL"
      BY <3>1, <3>2
    <3>4. with_result' = TRUE /\ BufferSize' = RESULT_SIZE /\ received' = <<>>
      BY <2>1 DEF StartReading, BufferSize
    <3>5. QED
      BY <3>3, <3>4 DEF Written
  <2>2. CASE UNCHANGED <<pc, with_result, buffer, received, before>>
    BY <2>2, WrittenKept
  <2>3. QED
    BY <1>5, <2>1, <2>2 DEF AwaitStart
<1>6. CASE StartTimesOut \/ ReadReturns
  BY <1>6 DEF StartTimesOut, ReadReturns, Written
<1>7. CASE \/ BodyGivenUp \/ ModemSendsCells \/ AnswerRequest
           \/ UNCHANGED readVars
  <2>1. UNCHANGED <<pc, with_result, buffer, received>>
    BY <1>7, ModemSends
       DEF BodyGivenUp, AnswerRequest, readVars, vars, history, ReaderVars,
           ModemSendsCells
  <2>2. QED
    BY <2>1, WrittenKept
<1>8. QED
  BY <1>1, <1>2, <1>3, <1>4, <1>5, <1>6, <1>7, Steps
-----------------------------------------------------------------------------
(* A command starts with nothing to read and a buffer of zeros, so an OK   *)
(* that it finds has arrived since.                                        *)
LEMMA FoundIsThere ==
  ASSUME ReadingTypes, ReadCell, Places(Extended, "OK") # {}
  PROVE  \E i \in 1 .. BufferSize : Extended[i] = "OK"
<1>1. /\ Extended \in [1 .. BufferSize -> Contents]
      /\ BufferSize \in Nat
  BY RoundOfLoop, Sizes DEF ReadingTypes
<1>2. PICK k \in Places(Extended, "OK") : TRUE
  OBVIOUS
<1>3. k \in 1 .. BufferSize - 2 /\ Extended[k + 1] = "OK"
  BY <1>1, <1>2, PlacesOf DEF EndAt
<1>4. QED
  BY <1>1, <1>3

LEMMA NoneRead ==
  ASSUME ReadingTypes, ReadCell,
         \A i \in 1 .. Len(rx) : rx[i] # "OK",
         \A i \in 1 .. BufferSize : buffer[i] # "OK"
  PROVE  /\ \A i \in 1 .. BufferSize : Extended[i] # "OK"
         /\ \A i \in 1 .. Len(rx') : rx'[i] # "OK"
         /\ \A i \in 1 .. BufferSize' : buffer'[i] # "OK"
<1>1. /\ rx # <<>> /\ rx' = Tail(rx) /\ BufferSize' = BufferSize
      /\ Extended \in [1 .. BufferSize -> Contents]
      /\ Extended[Len(received) + 1] = Head(rx)
      /\ \A i \in 1 .. BufferSize :
           i # Len(received) + 1 => Extended[i] = buffer[i]
  BY RoundOfLoop
<1>2. rx \in Seq(Cell) /\ BufferSize \in Nat
  BY Sizes DEF ReadingTypes, ReadTypeOK
<1>3. /\ Head(rx) = rx[1] /\ Len(rx) \in Nat /\ 1 \in 1 .. Len(rx)
      /\ Len(rx') = Len(rx) - 1
      /\ \A i \in 1 .. Len(rx') : rx'[i] = rx[i + 1]
  BY <1>1, <1>2, HeadTailProperties, EmptySeq
<1>4. \A i \in 1 .. BufferSize : Extended[i] # "OK"
  BY <1>1, <1>3
<1>5. \A i \in 1 .. Len(rx') : rx'[i] # "OK"
  BY <1>3
<1>6. \/ buffer' = Extended
      \/ \E k : buffer' = [Extended EXCEPT ![k] = "NUL"]
  BY EndOfRound DEF Cut
<1>7. \A i \in 1 .. BufferSize : buffer'[i] # "OK"
  BY <1>1, <1>4, <1>6
<1>8. QED
  BY <1>1, <1>4, <1>5, <1>7

LEMMA NoneArrivedStep ==
  ASSUME ReadingTypes, NoneArrived, [ReadNext]_readVars
  PROVE  NoneArrived'
<1> SUFFICES ASSUME OfCommand', pc' # "idle", ~arrived'
             PROVE  /\ \A i \in 1 .. Len(rx') : rx'[i] # "OK"
                    /\ \A i \in 1 .. BufferSize' : buffer'[i] # "OK"
  BY DEF NoneArrived
<1>1. CASE CommandBegins
  <2>1. PICK with \in BOOLEAN : Call(with)
    BY <1>1 DEF CommandBegins
  <2>2. /\ rx' = <<>>
        /\ BufferSize' = IF with THEN RESULT_SIZE ELSE PLACEHOLDER_SIZE
        /\ buffer' = Zeros(BufferSize')
    BY <2>1 DEF Call, BufferSize
  <2>3. QED
    BY <2>2 DEF Zeros
<1>2. CASE CommandGoesOn
  <2>1. /\ OfCommand /\ rx' = rx /\ arrived' = arrived
        /\ BufferSize' = BufferSize /\ pc # "idle"
    BY <1>2 DEF CommandGoesOn, Send, Retry, Return, modem, history,
                BufferSize
  <2>2. /\ \A i \in 1 .. Len(rx) : rx[i] # "OK"
        /\ \A i \in 1 .. BufferSize : buffer[i] # "OK"
    BY <2>1 DEF NoneArrived
  <2>3. CASE Send
    <3>1. CASE with_result
      BY <2>1, <2>2, <2>3, <3>1 DEF Send, ReadingTypes
    <3>2. CASE ~with_result
      BY <2>1, <2>2, <2>3, <3>2 DEF Send, BufferSize, Zeros
    <3>3. QED
      BY <3>1, <3>2
  <2>4. CASE Retry \/ Return
    BY <2>1, <2>2, <2>4 DEF Retry, Return
  <2>5. QED
    BY <1>2, <2>3, <2>4 DEF CommandGoesOn
<1>3. CASE ReadsOn
  <2>1. OfCommand /\ arrived' = arrived /\ pc # "idle"
    BY <1>3 DEF ReadsOn, callVars, OfCommand, ReadCell, TimeOut, history
  <2>2. /\ \A i \in 1 .. Len(rx) : rx[i] # "OK"
        /\ \A i \in 1 .. BufferSize : buffer[i] # "OK"
    BY <2>1 DEF NoneArrived
  <2>3. CASE ReadCell
    BY <2>2, <2>3, NoneRead
  <2>4. CASE TimeOut
    BY <2>2, <2>4 DEF TimeOut, modem, BufferSize
  <2>5. QED
    BY <1>3, <2>3, <2>4 DEF ReadsOn
<1>4. CASE \/ AsksForBody \/ ReadMessage
           \/ AwaitStart \/ StartTimesOut \/ ReadReturns
  BY <1>4, StaysOfRead
<1>5. CASE BodyGivenUp
  BY <1>5 DEF BodyGivenUp, vars
<1>6. CASE ModemSendsCells
  <2>1. PICK cells \in Seq(Cell) :
          /\ rx' = rx \o cells
          /\ \A i \in 1 .. Len(cells) : cells[i] # "OK"
    BY <1>6, ModemSends DEF ModemSendsCells
  <2>2. /\ ~arrived /\ UNCHANGED <<pc, with_result, buffer, call>>
    <3>1. UNCHANGED ReaderVars
      BY <1>6, ModemSends DEF ModemSendsCells
    <3>2. arrived => arrived'
      BY <1>6, ModemSends DEF ModemSendsCells
    <3>3. UNCHANGED <<pc, with_result, buffer, call>>
      BY <3>1 DEF ReaderVars, callVars
    <3>4. QED
      BY <3>2, <3>3
  <2>3. BufferSize' = BufferSize /\ OfCommand /\ pc # "idle"
    BY <2>2 DEF BufferSize, OfCommand
  <2>4. /\ \A i \in 1 .. Len(rx) : rx[i] # "OK"
        /\ \A i \in 1 .. BufferSize : buffer[i] # "OK"
    BY <2>2, <2>3 DEF NoneArrived
  <2>5. rx \in Seq(Cell)
    BY DEF ReadingTypes, ReadTypeOK
  <2>6. /\ Len(rx') = Len(rx) + Len(cells)
        /\ Len(rx) \in Nat /\ Len(cells) \in Nat
        /\ \A i \in 1 .. Len(rx) + Len(cells) :
             rx'[i] = IF i <= Len(rx) THEN rx[i] ELSE cells[i - Len(rx)]
    BY <2>1, <2>5, ConcatProperties, LenProperties
  <2>7. \A i \in 1 .. Len(rx') : rx'[i] # "OK"
    BY <2>1, <2>4, <2>6
  <2>8. QED
    BY <2>2, <2>3, <2>4, <2>7
<1>7. CASE AnswerRequest \/ UNCHANGED readVars
  <2>1. UNCHANGED <<rx, pc, with_result, buffer, call, arrived>>
    BY <1>7 DEF AnswerRequest, readVars, vars, modem, history, callVars
  <2>2. QED
    BY <2>1 DEF NoneArrived, OfCommand, BufferSize
<1>8. QED
  BY <1>1, <1>2, <1>3, <1>4, <1>5, <1>6, <1>7, Steps

LEMMA FoundHasArrivedStep ==
  ASSUME ReadingTypes, NoneArrived, FoundHasArrived, [ReadNext]_readVars
  PROVE  FoundHasArrived'
<1> SUFFICES ASSUME OfCommand', pc' \in {"check", "idle"},
                    response' = "OK", ~overread'
             PROVE  arrived'
  BY DEF FoundHasArrived
<1>1. CASE CommandBegins
  BY <1>1 DEF CommandBegins, Call
<1>2. CASE CommandGoesOn
  <2>1. Return
    BY <1>2 DEF CommandGoesOn, Send, Retry
  <2>2. QED
    BY <1>2, <2>1 DEF CommandGoesOn, Return, history, FoundHasArrived
<1>3. CASE ReadsOn
  <2>1. CASE ReadCell
    <3>1. ASSUME ~arrived'
          PROVE  FALSE
      <4>1. OfCommand /\ pc = "read" /\ ~arrived /\ ~overread
        BY <1>3, <2>1, <3>1 DEF ReadsOn, ReadCell, callVars, OfCommand
      <4>2. /\ \A i \in 1 .. Len(rx) : rx[i] # "OK"
            /\ \A i \in 1 .. BufferSize : buffer[i] # "OK"
        BY <4>1 DEF NoneArrived
      <4>3. \A i \in 1 .. BufferSize : Extended[i] # "OK"
        BY <2>1, <4>2, NoneRead
      <4>4. Places(Extended, "OK") # {}
        BY <2>1, <4>1, EndOfRound
      <4>5. QED
        BY <2>1, <4>3, <4>4, FoundIsThere
    <3>2. QED
      BY <3>1
  <2>2. CASE TimeOut
    BY <2>2 DEF TimeOut, Respond
  <2>3. QED
    BY <1>3, <2>1, <2>2 DEF ReadsOn
<1>4. CASE \/ AsksForBody \/ ReadMessage
           \/ AwaitStart \/ StartTimesOut \/ ReadReturns
  BY <1>4, StaysOfRead
<1>5. CASE BodyGivenUp
  BY <1>5 DEF BodyGivenUp, vars, history, FoundHasArrived, OfCommand
<1>6. CASE ModemSendsCells
  <2>1. /\ UNCHANGED <<pc, response, overread, call>>
        /\ arrived => arrived'
    <3>1. UNCHANGED ReaderVars
      BY <1>6, ModemSends DEF ModemSendsCells
    <3>2. arrived => arrived'
      BY <1>6, ModemSends DEF ModemSendsCells
    <3>3. UNCHANGED <<pc, response, overread, call>>
      BY <3>1 DEF ReaderVars, callVars
    <3>4. QED
      BY <3>2, <3>3
  <2>2. QED
    BY <2>1 DEF FoundHasArrived, OfCommand
<1>7. CASE AnswerRequest \/ UNCHANGED readVars
  <2>1. UNCHANGED <<pc, response, overread, call, arrived>>
    BY <1>7 DEF AnswerRequest, readVars, vars, history, callVars
  <2>2. QED
    BY <2>1 DEF FoundHasArrived, OfCommand
<1>8. QED
  BY <1>1, <1>2, <1>3, <1>4, <1>5, <1>6, <1>7, Steps

(* writeCommand returns OK only if an OK has arrived since it was called,  *)
(* with any calls that read a payload before and behind it, answers to     *)
(* them that come late or in pieces, retries, and buffers used before.     *)
THEOREM OkHasArrivedTheorem == ReadSpec => []OkHasArrivedForCommand
<1> DEFINE IInv == ReadingTypes /\ NoneArrived /\ FoundHasArrived
<1>1. ReadInit => IInv
  <2>1. SUFFICES ASSUME ReadInit PROVE NoneArrived /\ FoundHasArrived
    BY InitReadingTypes
  <2>2. QED
    BY <2>1 DEF ReadInit, Init, NoneArrived, FoundHasArrived
<1>2. IInv /\ [ReadNext]_readVars => IInv'
  BY ReadNextTypes, NoneArrivedStep, FoundHasArrivedStep
<1>3. IInv => OkHasArrivedForCommand
  BY DEF FoundHasArrived, OkHasArrivedForCommand, OkHasArrived, OfCommand
<1>4. QED
  BY <1>1, <1>2, <1>3, PTL DEF ReadSpec
-----------------------------------------------------------------------------
(* Whole lines stay whole when more of them come and when some are read.   *)
LEMMA WholeLines ==
  /\ \A w \in Cell : Whole(End(w)) /\ End(w)[1] = "NL"
  /\ Whole(Line) /\ Line[1] = "NL"
<1>1. ASSUME NEW w \in Cell PROVE Whole(End(w)) /\ End(w)[1] = "NL"
  BY DEF Whole, End
<1>2. Whole(Line) /\ Line[1] = "NL"
  BY DEF Whole, Line
<1>3. QED
  BY <1>1, <1>2

LEMMA WholeTogether ==
  ASSUME NEW s \in Seq(Cell), NEW t \in Seq(Cell), Whole(s), Whole(t),
         t = <<>> \/ t[1] # "OK"
  PROVE  Whole(s \o t)
<1> DEFINE w == s \o t
           l == Len(s)
           m == Len(t)
<1>1. /\ l \in Nat /\ m \in Nat /\ Len(w) = l + m
      /\ \A i \in 1 .. l : w[i] = s[i]
      /\ \A i \in 1 .. m : w[l + i] = t[i]
  BY BothParts
<1>2. m # 0 => t[1] # "OK"
  BY EmptySeq
<1> HIDE DEF w, l, m
<1>3. SUFFICES ASSUME NEW i \in 1 .. l + m, w[i] = "OK"
               PROVE  /\ i < l + m /\ w[i + 1] = "NL"
                      /\ i > 1 => w[i - 1] = "NL"
  <2>1. Whole(w)
    BY <1>1, <1>3 DEF Whole
  <2>2. QED
    BY <2>1 DEF w
<1>4. CASE i \in 1 .. l
  <2>1. s[i] = "OK"
    BY <1>1, <1>3, <1>4
  <2>2. i < l /\ s[i + 1] = "NL" /\ (i > 1 => s[i - 1] = "NL")
    BY <1>4, <2>1 DEF Whole, l
  <2>3. QED
    BY <1>1, <1>4, <2>2
<1>5. CASE i \in l + 1 .. l + m
  <2> DEFINE j == i - l
  <2>1. j \in 1 .. m /\ i = l + j
    BY <1>1, <1>5
  <2> HIDE DEF j
  <2>2. t[j] = "OK"
    BY <1>1, <1>3, <2>1
  <2>3. j < m /\ t[j + 1] = "NL" /\ (j > 1 => t[j - 1] = "NL")
    BY <2>1, <2>2 DEF Whole, m
  <2>4. j > 1
    BY <1>1, <1>2, <2>1, <2>2
  <2>5. /\ j + 1 \in 1 .. m /\ j - 1 \in 1 .. m
        /\ i + 1 = l + (j + 1) /\ i - 1 = l + (j - 1)
    BY <1>1, <2>1, <2>3, <2>4
  <2>6. w[i + 1] = "NL" /\ w[i - 1] = "NL"
    BY <1>1, <2>3, <2>4, <2>5
  <2>7. QED
    BY <1>1, <2>1, <2>3, <2>6
<1>6. QED
  BY <1>1, <1>4, <1>5

LEMMA WholeRest ==
  ASSUME NEW s \in Seq(Cell), NEW t \in Seq(Cell), Whole(s \o t)
  PROVE  Whole(t)
<1> DEFINE w == s \o t
           l == Len(s)
           m == Len(t)
<1>1. /\ l \in Nat /\ m \in Nat /\ Len(w) = l + m
      /\ \A i \in 1 .. m : w[l + i] = t[i]
  BY BothParts
<1>2. Whole(w)
  OBVIOUS
<1> HIDE DEF w, l, m
<1>3. SUFFICES ASSUME NEW i \in 1 .. m, t[i] = "OK"
               PROVE  /\ i < m /\ t[i + 1] = "NL"
                      /\ i > 1 => t[i - 1] = "NL"
  BY <1>3 DEF Whole, m
<1>4. w[l + i] = "OK" /\ l + i \in 1 .. l + m
  BY <1>1, <1>3
<1>5. /\ l + i < l + m /\ w[(l + i) + 1] = "NL"
      /\ l + i > 1 => w[(l + i) - 1] = "NL"
  BY <1>1, <1>2, <1>4 DEF Whole
<1>6. i < m /\ i + 1 \in 1 .. m /\ (l + i) + 1 = l + (i + 1)
  BY <1>1, <1>5
<1>7. i > 1 => /\ i - 1 \in 1 .. m /\ (l + i) - 1 = l + (i - 1)
               /\ l + i > 1
  BY <1>1
<1>8. QED
  BY <1>1, <1>5, <1>6, <1>7

(* The lines that come while no answer to a request is due.                *)
LEMMA LinesCome ==
  ASSUME ReadingTypes, ModemSendsCells, asked = NULL, due = <<>>
  PROVE  /\ asked' = NULL /\ due' = <<>>
         /\ \E cells \in Seq(Cell) :
              rx' = rx \o cells /\ Whole(cells) /\ cells[1] # "OK"
<1>1. ~SendPiece
  <2>1. Len(due) = 0 /\ ~(\E n \in 1 .. 0 : TRUE)
    OBVIOUS
  <2>2. QED
    BY <2>1 DEF SendPiece
<1>2. SendLine
  BY <1>1 DEF ModemSendsCells, RefuseRequest
<1>3. asked' = NULL /\ due' = <<>>
  BY <1>2 DEF SendLine, request
<1>4. CASE Answer
  <2>1. PICK a \in Answers : rx' = rx \o a
    BY <1>4 DEF Answer, Receive
  <2>2. a \in Seq(Cell) /\ "OK" \in Cell /\ "ERROR" \in Cell
    BY EndsAreCells DEF Cell
  <2>3. Whole(a) /\ a[1] = "NL"
    <3>1. CASE a = End("OK") \/ a = End("ERROR")
      BY <2>2, <3>1, WholeLines
    <3>2. CASE a = Line \o End("OK")
      <4>1. Whole(Line) /\ Whole(End("OK")) /\ End("OK")[1] # "OK"
            /\ Line \in Seq(Cell) /\ End("OK") \in Seq(Cell)
        BY <2>2, WholeLines, EndsAreCells
      <4>2. Whole(a)
        BY <3>2, <4>1, WholeTogether
      <4>3. Len(Line) = 3 /\ Line[1] = "NL"
        BY DEF Line
      <4>4. a[1] = Line[1]
        BY <3>2, <4>1, <4>3, BothParts
      <4>5. QED
        BY <4>2, <4>3, <4>4
    <3>3. QED
      BY <3>1, <3>2 DEF Answers
  <2>4. QED
    BY <1>3, <2>1, <2>2, <2>3
<1>5. CASE OtherLine
  BY <1>3, <1>5, WholeLines, EndsAreCells DEF OtherLine, Receive
<1>6. QED
  BY <1>2, <1>4, <1>5 DEF SendLine

LEMMA LinesWholeStep ==
  ASSUME ReadingTypes, LinesWhole, [ReadNext]_readVars
  PROVE  LinesWhole'
<1> SUFFICES ASSUME OfCommand', ~late', pc' # "idle"
             PROVE  /\ asked' = NULL /\ due' = <<>>
                    /\ Whole(received' \o rx')
  BY DEF LinesWhole
<1>1. rx \in Seq(Cell) /\ received \in Seq(Cell)
  BY DEF ReadingTypes, ReadTypeOK
<1>2. CASE CommandBegins
  <2>1. asked = NULL /\ due = <<>>
    BY <1>2 DEF CommandBegins, AnswerDue
  <2>2. rx' = <<>> /\ received' = <<>>
    BY <1>2 DEF CommandBegins, Call
  <2>3. Whole(<<>> \o <<>>)
    BY DEF Whole
  <2>4. QED
    BY <1>2, <2>1, <2>2, <2>3 DEF CommandBegins, request
<1>3. CASE CommandGoesOn
  <2>1. /\ OfCommand /\ ~late /\ pc # "idle" /\ rx' = rx
        /\ UNCHANGED <<asked, due>>
    BY <1>3 DEF CommandGoesOn, Send, Retry, Return, modem, request, past
  <2>2. asked = NULL /\ due = <<>> /\ Whole(received \o rx)
    BY <2>1 DEF LinesWhole
  <2>3. CASE Send
    <3>1. received' = <<>> /\ <<>> \o rx = rx
      BY <1>1, <2>3, ConcatEmptySeq DEF Send
    <3>2. Whole(rx)
      BY <1>1, <2>2, WholeRest
    <3>3. QED
      BY <2>1, <2>2, <3>1, <3>2
  <2>4. CASE Retry \/ Return
    BY <2>1, <2>2, <2>4 DEF Retry, Return, history
  <2>5. QED
    BY <1>3, <2>3, <2>4 DEF CommandGoesOn
<1>4. CASE ReadsOn
  <2>1. OfCommand /\ ~late /\ pc # "idle" /\ UNCHANGED <<asked, due>>
    BY <1>4 DEF ReadsOn, ReadCell, TimeOut, callVars, request, past,
                OfCommand
  <2>2. asked = NULL /\ due = <<>> /\ Whole(received \o rx)
    BY <2>1 DEF LinesWhole
  <2>3. received' \o rx' = received \o rx
    <3>1. CASE ReadCell
      BY <1>1, <3>1, MoveHead DEF ReadCell
    <3>2. CASE TimeOut
      BY <3>2 DEF TimeOut, modem, history
    <3>3. QED
      BY <1>4, <3>1, <3>2 DEF ReadsOn
  <2>4. QED
    BY <2>1, <2>2, <2>3
<1>5. CASE \/ AsksForBody \/ ReadMessage
           \/ AwaitStart \/ StartTimesOut \/ ReadReturns
  BY <1>5, StaysOfRead
<1>6. CASE BodyGivenUp
  BY <1>6 DEF BodyGivenUp, vars
<1>7. CASE ModemSendsCells
  <2>1. UNCHANGED ReaderVars
    BY <1>7, ModemSends DEF ModemSendsCells
  <2>2. asked = NULL /\ due = <<>> /\ Whole(received \o rx)
    BY <2>1 DEF ReaderVars, callVars, OfCommand, LinesWhole
  <2>3. PICK cells \in Seq(Cell) :
          rx' = rx \o cells /\ Whole(cells) /\ cells[1] # "OK"
    BY <1>7, <2>2, LinesCome
  <2>4. received' \o rx' = (received \o rx) \o cells
    BY <1>1, <2>1, <2>3, Regroup DEF ReaderVars
  <2>5. received \o rx \in Seq(Cell)
    BY <1>1, ConcatProperties
  <2>6. Whole(received' \o rx')
    BY <2>2, <2>3, <2>4, <2>5, WholeTogether
  <2>7. QED
    BY <1>7, <2>2, <2>6, LinesCome
<1>8. CASE AnswerRequest
  <2>1. asked # NULL /\ UNCHANGED <<pc, call, late>>
    BY <1>8 DEF AnswerRequest, vars, callVars
  <2>2. QED
    BY <2>1 DEF LinesWhole, OfCommand
<1>9. CASE UNCHANGED readVars
  BY <1>9 DEF readVars, vars, modem, history, callVars, request, past,
              LinesWhole, OfCommand
<1>10. QED
  BY <1>2, <1>3, <1>4, <1>5, <1>6, <1>7, <1>8, <1>9, Steps
-----------------------------------------------------------------------------
(* An OK in whole lines that is behind the first cell and is not the cell  *)
(* just read is the end of an answer, and is found.                        *)
LEMMA NotOverlooked ==
  ASSUME ReadingTypes, Written, LinesWhole, NoOldOk, ReadCell,
         OfCommand, with_result, ~late, ~overread,
         NEW i \in 2 .. BufferSize, i # Len(received) + 1, Extended[i] = "OK"
  PROVE  Head(rx) = "NL" /\ Places(Extended, "OK") # {}
<1> DEFINE l == Len(received)
           s == received \o rx
<1>1. /\ pc = "read" /\ rx # <<>>
      /\ l + 1 \in 1 .. BufferSize
      /\ Extended \in [1 .. BufferSize -> Contents]
      /\ Extended[l + 1] = Head(rx)
      /\ \A j \in 1 .. BufferSize : j # l + 1 => Extended[j] = buffer[j]
  BY RoundOfLoop
<1>2. /\ BufferSize \in Nat /\ received \in Seq(Cell) /\ rx \in Seq(Cell)
      /\ l \in Nat
  BY Sizes, LenProperties DEF ReadingTypes, ReadTypeOK
<1>3. Head(rx) = rx[1] /\ 1 \in 1 .. Len(rx)
  BY <1>1, <1>2, EmptySeq
<1>4. /\ Len(s) = l + Len(rx) /\ Len(rx) \in Nat
      /\ \A j \in 1 .. l : s[j] = received[j]
      /\ s[l + 1] = Head(rx)
  BY <1>2, <1>3, BothParts
<1>5. i = l
  <2>1. buffer[i] = "OK"
    BY <1>1
  <2>2. QED
    BY <1>1, <2>1 DEF NoOldOk
<1>6. \A j \in 1 .. l : buffer[j] = received[j]
  BY <1>1 DEF Written
<1>7. Whole(s)
  BY <1>1 DEF LinesWhole
<1> HIDE DEF l, s
<1>8. s[l] = "OK" /\ l \in 2 .. BufferSize
  BY <1>1, <1>4, <1>5, <1>6
<1>9. s[l + 1] = "NL" /\ s[l - 1] = "NL"
  <2>1. l \in 1 .. Len(s) /\ l > 1 /\ l < Len(s)
    BY <1>2, <1>3, <1>4, <1>8
  <2>2. QED
    BY <1>7, <1>8, <2>1 DEF Whole
<1>10. /\ l - 1 \in 1 .. l /\ l \in 1 .. l
       /\ l - 1 \in 1 .. BufferSize - 2
  BY <1>1, <1>2, <1>8
<1>11. Extended[l - 1] = "NL" /\ Extended[l] = "OK" /\ Extended[l + 1] = "NL"
  <2>1. /\ l - 1 \in 1 .. BufferSize /\ l - 1 # l + 1
        /\ l \in 1 .. BufferSize /\ l # l + 1
    BY <1>1, <1>2, <1>8
  <2>2. Extended[l - 1] = buffer[l - 1] /\ Extended[l] = buffer[l]
    BY <1>1, <2>1
  <2>3. received[l - 1] = "NL" /\ received[l] = "OK"
    BY <1>4, <1>8, <1>9, <1>10
  <2>4. Extended[l + 1] = "NL"
    BY <1>1, <1>4, <1>9
  <2>5. QED
    BY <1>6, <1>10, <2>2, <2>3, <2>4
<1>12. EndAt(Extended, l - 1, "OK")
  <2>1. (l - 1) + 1 = l /\ (l - 1) + 2 = l + 1
    BY <1>2
  <2>2. QED
    BY <1>11, <2>1 DEF EndAt
<1>13. \A j \in 1 .. (l - 1) - 1 : Extended[j] # "NUL"
  <2>1. \A j \in 1 .. l : received[j] \in Cell
    BY <1>2, ElementOfSeq DEF l
  <2>2. \A j \in 1 .. (l - 1) - 1 :
          j \in 1 .. l /\ j \in 1 .. BufferSize /\ j # l + 1
    BY <1>2, <1>8
  <2>3. QED
    BY <1>1, <1>6, <2>1, <2>2 DEF Cell
<1>14. l - 1 \in Places(Extended, "OK")
  BY <1>1, <1>2, <1>10, <1>12, <1>13, PlacesOf
<1>15. QED
  BY <1>4, <1>9, <1>14

LEMMA NoOldOkStep ==
  ASSUME ReadingTypes, Written, LinesWhole, NoOldOk, [ReadNext]_readVars
  PROVE  NoOldOk'
<1> SUFFICES ASSUME OfCommand', with_result', ~late', ~overread',
                    pc' # "idle",
                    ~(pc' = "check" /\ response' \in {"OK", "BUFFER_OVERFLOW"}),
                    NEW i \in 2 .. BufferSize', buffer'[i] = "OK"
             PROVE  pc' = "read" /\ i = Len(received')
  BY DEF NoOldOk
<1>1. BufferSize \in Nat /\ Len(received) \in Nat
  BY Sizes, LenProperties DEF ReadingTypes
<1>2. CASE CommandBegins
  <2>1. PICK with \in BOOLEAN : Call(with)
    BY <1>2 DEF CommandBegins
  <2>2. /\ BufferSize' = IF with THEN RESULT_SIZE ELSE PLACEHOLDER_SIZE
        /\ buffer' = Zeros(BufferSize')
    BY <2>1 DEF Call, BufferSize
  <2>3. BufferSize' \in Nat
    BY <2>2, CommandAssumption
  <2>4. QED
    BY <2>2, <2>3 DEF Zeros
<1>3. CASE CommandGoesOn
  <2>1. /\ OfCommand /\ with_result /\ ~late /\ ~overread
        /\ BufferSize' = BufferSize
    <3>1. with_result' = with_result /\ late' = late /\ call' = call
      BY <1>3 DEF CommandGoesOn, Send, Retry, Return, callVars, past
    <3>2. overread' = overread
      BY <1>3 DEF CommandGoesOn, Send, Retry, Return, history
    <3>3. BufferSize' = BufferSize
      BY <3>1 DEF BufferSize
    <3>4. OfCommand
      BY <1>3, <3>1 DEF CommandGoesOn, OfCommand
    <3>5. with_result /\ ~late /\ ~overread
      BY <3>1, <3>2
    <3>6. QED
      BY <3>3, <3>4, <3>5, Zenon
  <2>2. CASE Send
    <3>1. /\ pc = "send" /\ BufferSize = RESULT_SIZE
          /\ buffer' = [buffer EXCEPT ![RESULT_SIZE] = "NUL"]
          /\ buffer \in [1 .. BufferSize -> Contents]
      BY <2>1, <2>2 DEF Send, BufferSize, ReadingTypes
    <3>2. buffer[i] = "OK"
      BY <1>1, <2>1, <3>1
    <3>3. QED
      BY <2>1, <3>1, <3>2 DEF NoOldOk
  <2>3. CASE Retry
    <3>1. /\ pc = "check" /\ response # "OK" /\ response # "BUFFER_OVERFLOW"
          /\ buffer' = buffer
      BY <2>1, <2>3 DEF Retry, Overflowed
    <3>2. QED
      BY <2>1, <3>1 DEF NoOldOk
  <2>4. CASE Return
    BY <2>4 DEF Return
  <2>5. QED
    BY <1>3, <2>2, <2>3, <2>4 DEF CommandGoesOn
<1>4. CASE ReadsOn
  <2>1. OfCommand /\ with_result /\ ~late /\ ~overread
    <3>1. with_result' = with_result /\ late' = late /\ call' = call
      BY <1>4 DEF ReadsOn, ReadCell, TimeOut, callVars, past
    <3>2. ~overread
      BY <1>4, Zenon DEF ReadsOn, ReadCell, TimeOut, history
    <3>3. OfCommand
      BY <3>1 DEF OfCommand
    <3>4. with_result /\ ~late
      BY <3>1
    <3>5. QED
      BY <3>2, <3>3, <3>4, Zenon
  <2>2. CASE ReadCell
    <3>1. /\ pc = "read" /\ BufferSize' = BufferSize
          /\ Len(received') = Len(received) + 1
          /\ Extended[Len(received) + 1] = Head(rx)
      BY <2>2, RoundOfLoop
    <3>2. Extended[i] = "OK"
      <4>1. \/ buffer' = Extended
            \/ \E k : buffer' = [Extended EXCEPT ![k] = "NUL"]
        BY <2>2, EndOfRound DEF Cut
      <4>2. Extended \in [1 .. BufferSize -> Contents]
        BY <2>2, RoundOfLoop
      <4>3. QED
        BY <1>1, <3>1, <4>1, <4>2
    <3>3. i = Len(received) + 1
      <4>1. SUFFICES ASSUME i # Len(received) + 1 PROVE FALSE
        OBVIOUS
      <4>2. i \in 2 .. BufferSize
        BY <3>1
      <4>3. Head(rx) = "NL" /\ Places(Extended, "OK") # {}
        BY <2>1, <2>2, <3>2, <4>1, <4>2, NotOverlooked
      <4>4. QED
        BY <2>2, <4>3, EndOfRound
    <3>4. Head(rx) = "OK"
      BY <3>1, <3>2, <3>3
    <3>5. pc' = "read"
      BY <2>2, <3>1, <3>4, EndOfRound
    <3>6. QED
      BY <3>1, <3>3, <3>5
  <2>3. CASE TimeOut
    <3>1. /\ pc = "read" /\ rx = <<>> /\ buffer' = buffer
          /\ BufferSize' = BufferSize
      BY <2>3 DEF TimeOut, BufferSize
    <3>2. i = Len(received)
      BY <2>1, <3>1 DEF NoOldOk
    <3>3. received[i] = "OK"
      BY <1>1, <3>1, <3>2 DEF Written
    <3>4. Whole(received \o rx)
      BY <2>1, <3>1 DEF LinesWhole
    <3>5. received \o rx = received
      BY <3>1, ConcatEmptySeq DEF ReadingTypes
    <3>6. i \in 1 .. Len(received)
      BY <1>1, <3>2
    <3>7. i < Len(received)
      BY <3>3, <3>4, <3>5, <3>6 DEF Whole
    <3>8. QED
      BY <1>1, <3>2, <3>7
  <2>4. QED
    BY <1>4, <2>2, <2>3 DEF ReadsOn
<1>5. CASE \/ AsksForBody \/ ReadMessage
           \/ AwaitStart \/ StartTimesOut \/ ReadReturns
  BY <1>5, StaysOfRead
<1>6. CASE BodyGivenUp
  BY <1>6 DEF BodyGivenUp, vars
<1>7. CASE ModemSendsCells \/ AnswerRequest \/ UNCHANGED readVars
  <2>1. UNCHANGED <<pc, with_result, buffer, response, received, overread,
                    call, late>>
    <3>1. CASE ModemSendsCells
      BY <3>1, ModemSends DEF ModemSendsCells, ReaderVars, callVars
    <3>2. CASE AnswerRequest \/ UNCHANGED readVars
      BY <3>2 DEF AnswerRequest, readVars, vars, history, callVars, past
    <3>3. QED
      BY <1>7, <3>1, <3>2
  <2>2. QED
    BY <2>1 DEF NoOldOk, OfCommand, BufferSize
<1>8. QED
  BY <1>2, <1>3, <1>4, <1>5, <1>6, <1>7, Steps

(* The first end in a buffer that is not behind what has been read is the  *)
(* one that the last cell has completed, and what is left when it is cut   *)
(* off is what came before it.                                             *)
LEMMA EndIsLast ==
  ASSUME ReadingTypes, Written, ReadCell, NEW word \in {"OK", "ERROR"},
         Head(rx) = "NL", Places(Extended, word) # {},
         First(Places(Extended, word)) <= Len(received),
         buffer' = Cut(Extended, word)
  PROVE  received' = CString(buffer') \o End(word)
<1> DEFINE n == Len(received) + 1
           k == First(Places(Extended, word))
           c == CString(buffer')
<1>1. /\ pc = "read" /\ n \in 1 .. BufferSize
      /\ received' \in Seq(Cell) /\ Len(received') = n
      /\ received'[n] = Head(rx)
      /\ \A i \in 1 .. n - 1 : received'[i] = received[i]
      /\ Extended \in [1 .. BufferSize -> Contents]
      /\ Extended[n] = Head(rx)
      /\ \A i \in 1 .. BufferSize : i # n => Extended[i] = buffer[i]
  BY RoundOfLoop
<1>2. /\ BufferSize \in Nat /\ Len(received) \in Nat
      /\ n = Len(received) + 1
  BY Sizes, LenProperties DEF ReadingTypes
<1>3. /\ \A i \in 1 .. Len(received) : buffer[i] = received[i]
      /\ \A i \in 1 .. Len(received) - 2 : ~EndAt(received, i, word)
  BY <1>1 DEF Written
<1>4. /\ k \in Places(Extended, word)
      /\ c \in Seq(Contents) /\ Len(c) = k - 1
      /\ \A i \in 1 .. k - 1 : c[i] = Extended[i]
  BY <1>1, <1>2, CutString
<1>5. k \in 1 .. BufferSize - 2 /\ EndAt(Extended, k, word)
  BY <1>1, <1>2, <1>4, PlacesOf
<1>6. k <= Len(received)
  OBVIOUS
<1> HIDE DEF n, k, c
<1>7. \A i \in 1 .. n : Extended[i] = received'[i]
  BY <1>1, <1>2, <1>3
<1>8. k + 2 = n
  <2>1. Extended[k + 1] = word /\ word # "NL"
    BY <1>5 DEF EndAt
  <2>2. k + 1 # n
    BY <1>1, <2>1
  <2>3. k + 2 <= n
    BY <1>2, <1>5, <1>6, <2>2
  <2>4. ~(k + 2 < n)
    <3>1. SUFFICES ASSUME k + 2 < n PROVE FALSE
      OBVIOUS
    <3>2. k \in 1 .. Len(received) - 2
      BY <1>2, <1>5, <3>1
    <3>3. EndAt(received, k, word)
      BY <1>1, <1>2, <1>3, <1>5, <3>2 DEF EndAt
    <3>4. QED
      BY <1>3, <3>2, <3>3
  <2>5. QED
    BY <1>2, <1>5, <2>3, <2>4
<1>9. /\ End(word) \in Seq(Contents) /\ Len(End(word)) = 3
      /\ End(word)[1] = "NL" /\ End(word)[2] = word /\ End(word)[3] = "NL"
  BY DEF End, Contents, Cell
<1> DEFINE e == End(word)
<1>10. e \in Seq(Contents) /\ Len(e) = 3
  BY <1>9
<1>11. e[1] = "NL" /\ e[2] = word /\ e[3] = "NL"
  BY <1>9
<1> HIDE DEF e
<1>12. /\ c \o e \in Seq(Contents) /\ Len(c \o e) = n
       /\ \A i \in 1 .. n :
            (c \o e)[i] = IF i <= k - 1 THEN c[i] ELSE e[i - (k - 1)]
  <2>1. Len(c) + Len(e) = n /\ Len(c) = k - 1
    BY <1>4, <1>5, <1>8, <1>10
  <2>2. /\ c \o e \in Seq(Contents) /\ Len(c \o e) = Len(c) + Len(e)
        /\ \A i \in 1 .. Len(c) + Len(e) :
             (c \o e)[i] = IF i <= Len(c) THEN c[i] ELSE e[i - Len(c)]
    <3>1. c \in Seq(Contents) /\ e \in Seq(Contents)
      BY <1>4, <1>10
    <3>2. QED
      BY <3>1, ConcatProperties, Zenon
  <2>3. QED
    BY <2>1, <2>2
<1>13. ASSUME NEW i \in 1 .. n
       PROVE  received'[i] = (c \o e)[i]
  <2>1. CASE i <= k - 1
    BY <1>4, <1>5, <1>7, <1>12, <2>1
  <2>2. CASE i = k
    BY <1>5, <1>7, <1>11, <1>12, <2>2 DEF EndAt
  <2>3. CASE i = k + 1
    BY <1>5, <1>7, <1>11, <1>12, <2>3 DEF EndAt
  <2>4. CASE i = k + 2
    BY <1>5, <1>7, <1>11, <1>12, <2>4 DEF EndAt
  <2>5. i <= k - 1 \/ i = k \/ i = k + 1 \/ i = k + 2
    BY <1>5, <1>8
  <2>6. QED
    BY <2>1, <2>2, <2>3, <2>4, <2>5, Zenon
<1>14. received' \in Seq(Contents)
  BY <1>1 DEF Contents
<1>15. received' = c \o e
  BY <1>1, <1>12, <1>13, <1>14, SeqEqual
<1>16. QED
  BY <1>15 DEF c, e

LEMMA ResponseEndsStep ==
  ASSUME ReadingTypes, Written, LinesWhole, NoOldOk, ResponseEndsCommand,
         [ReadNext]_readVars
  PROVE  ResponseEndsCommand'
<1> SUFFICES ASSUME OfCommand', pc' = "check", ~overread',
                    NEW word \in {"OK", "ERROR"}, response' = word,
                    ~with_result' \/ (word = "OK" /\ ~late')
             PROVE  received' = CString(buffer') \o End(word)
  BY DEF ResponseEndsCommand, OfCommand, OkEndsResponse,
         PlainErrorEndsResponse, ErrorEndsResponse
<1>1. CASE CommandBegins
  BY <1>1 DEF CommandBegins, Call
<1>2. CASE CommandGoesOn
  BY <1>2 DEF CommandGoesOn, Send, Retry, Return
<1>3. CASE ReadsOn
  <2>1. ReadCell
    BY <1>3 DEF ReadsOn, TimeOut, Respond
  <2>2. /\ OfCommand /\ ~overread
        /\ ~with_result \/ (word = "OK" /\ with_result /\ ~late)
    BY <1>3, <2>1 DEF ReadsOn, ReadCell, callVars, past, OfCommand,
                      ReadingTypes
  <2> DEFINE k == First(Places(Extended, word))
  <2>3. /\ pc = "read"
        /\ Len(received) + 1 \in 1 .. BufferSize
        /\ Extended \in [1 .. BufferSize -> Contents]
        /\ Extended[Len(received) + 1] = Head(rx)
        /\ \A i \in 1 .. BufferSize :
             i # Len(received) + 1 => Extended[i] = buffer[i]
    BY <2>1, RoundOfLoop
  <2>4. BufferSize \in Nat /\ Len(received) \in Nat
    BY Sizes, LenProperties DEF ReadingTypes
  <2>5. /\ Head(rx) = "NL" /\ Places(Extended, word) # {}
        /\ buffer' = Cut(Extended, word)
    BY <2>1, <2>3, EndOfRound
  <2>6. k \in Places(Extended, word)
    BY <2>3, <2>4, <2>5, CutString
  <2>7. k \in 1 .. BufferSize - 2 /\ Extended[k + 1] = word
    BY <2>3, <2>4, <2>6, PlacesOf DEF EndAt
  <2> HIDE DEF k
  <2>8. k + 1 # Len(received) + 1
    BY <2>3, <2>5, <2>7
  <2>9. buffer[k + 1] = word /\ k + 1 \in 2 .. BufferSize
    BY <2>3, <2>4, <2>7, <2>8
  <2>10. k <= Len(received)
    <3>1. CASE ~with_result
      <4>1. \A i \in Len(received) + 1 .. BufferSize : buffer[i] = "NUL"
        BY <2>3, <3>1 DEF Written
      <4>2. QED
        BY <2>4, <2>7, <2>9, <4>1
    <3>2. CASE word = "OK" /\ with_result /\ ~late
      <4>1. k + 1 = Len(received)
        BY <2>2, <2>3, <2>9, <3>2 DEF NoOldOk
      <4>2. QED
        BY <2>4, <2>7, <4>1
    <3>3. QED
      BY <2>2, <3>1, <3>2
  <2>11. QED
    BY <2>1, <2>5, <2>10, EndIsLast DEF k
<1>4. CASE \/ AsksForBody \/ ReadMessage
           \/ AwaitStart \/ StartTimesOut \/ ReadReturns
  BY <1>4, StaysOfRead
<1>5. CASE BodyGivenUp
  BY <1>5 DEF BodyGivenUp, vars
<1>6. CASE ModemSendsCells \/ AnswerRequest \/ UNCHANGED readVars
  <2>1. UNCHANGED <<pc, with_result, buffer, response, received, overread,
                    call, late>>
    <3>1. CASE ModemSendsCells
      BY <3>1, ModemSends DEF ModemSendsCells, ReaderVars, callVars
    <3>2. CASE AnswerRequest \/ UNCHANGED readVars
      BY <3>2 DEF AnswerRequest, readVars, vars, history, callVars, past
    <3>3. QED
      BY <1>6, <3>1, <3>2
  <2>2. /\ OfCommand /\ pc = "check" /\ ~overread /\ response = word
        /\ ~with_result \/ (word = "OK" /\ ~late)
    BY <2>1 DEF OfCommand
  <2>3. received = CString(buffer) \o End(word)
    BY <2>2 DEF ResponseEndsCommand, OfCommand, OkEndsResponse,
                PlainErrorEndsResponse, ErrorEndsResponse
  <2>4. QED
    BY <2>1, <2>3
<1>7. QED
  BY <1>1, <1>2, <1>3, <1>4, <1>5, <1>6, Steps

(* When readResponse returns OK for a command, what it has read is its     *)
(* result and OK, whatever former tries have left in the buffer, as long   *)
(* as no answer to an earlier request is due, or if no result is asked     *)
(* for; and then the same holds of ERROR.                                  *)
THEOREM ResponseEndsTheorem == ReadSpec => []ResponseEndsCommand
<1> DEFINE IInv == /\ ReadingTypes /\ Written /\ LinesWhole
                   /\ NoOldOk /\ ResponseEndsCommand
<1>1. ReadInit => IInv
  <2>1. SUFFICES ASSUME ReadInit
                 PROVE  /\ Written /\ LinesWhole
                        /\ NoOldOk /\ ResponseEndsCommand
    BY InitReadingTypes
  <2>2. pc = "idle"
    BY <2>1 DEF ReadInit, Init
  <2>3. QED
    BY <2>2 DEF Written, LinesWhole, NoOldOk, ResponseEndsCommand,
                OkEndsResponse, PlainErrorEndsResponse, ErrorEndsResponse
<1>2. IInv /\ [ReadNext]_readVars => IInv'
  BY ReadNextTypes, WrittenStep, LinesWholeStep, NoOldOkStep,
     ResponseEndsStep
<1>3. QED
  BY <1>1, <1>2, PTL DEF ReadSpec
-----------------------------------------------------------------------------
(* A payload with the OK behind it.                                        *)
LEMMA WithOk ==
  ASSUME NEW p \in Seq(Cell)
  PROVE  LET t == p \o End("OK")
         IN  /\ t \in Seq(Cell) /\ Len(p) \in Nat /\ Len(t) = Len(p) + 3
             /\ \A i \in 1 .. Len(p) : t[i] = p[i]
             /\ t[Len(p) + 1] = "NL" /\ t[Len(p) + 2] = "OK"
             /\ t[Len(p) + 3] = "NL"
             /\ \A i \in 1 .. Len(t) : t[i] # "NUL"
<1> DEFINE e == End("OK")
           t == p \o e
<1>1. "OK" \in Cell
  BY DEF Cell
<1>2. e \in Seq(Cell)
  BY <1>1, EndsAreCells
<1>3. Len(e) = 3 /\ e[1] = "NL" /\ e[2] = "OK" /\ e[3] = "NL"
  BY DEF End
<1> HIDE DEF e
<1>4. /\ t \in Seq(Cell) /\ Len(p) \in Nat
      /\ Len(t) = Len(p) + 3
      /\ \A i \in 1 .. Len(p) : t[i] = p[i]
      /\ \A i \in 1 .. 3 : t[Len(p) + i] = e[i]
  <2>1. /\ t \in Seq(Cell) /\ Len(p) \in Nat
        /\ Len(t) = Len(p) + Len(e)
        /\ \A i \in 1 .. Len(p) : t[i] = p[i]
        /\ \A i \in 1 .. Len(e) : t[Len(p) + i] = e[i]
    BY <1>2, BothParts
  <2>2. QED
    BY <1>3, <2>1
<1> HIDE DEF t
<1>5. ASSUME NEW i \in 1 .. Len(t) PROVE t[i] # "NUL"
  BY <1>4, ElementOfSeq DEF Cell
<1>6. t[Len(p) + 1] = "NL" /\ t[Len(p) + 2] = "OK" /\ t[Len(p) + 3] = "NL"
  BY <1>3, <1>4
<1>7. QED
  BY <1>4, <1>5, <1>6 DEF t, e

(* The string that is cut off where the first n cells of a buffer are what *)
(* has been read of a payload and its OK, and b is what is behind them.    *)
LEMMA PayloadCut ==
  ASSUME NEW N \in Nat, NEW n \in 1 .. N, NEW p \in Seq(Cell),
         NEW b \in [1 .. N -> Contents], NEW e \in [1 .. N -> Contents],
         Places(e, "OK") # {}, e[n] = "NL", n # N => e[N] = "NUL",
         \A i \in n + 1 .. N - 1 : e[i] = b[i],
         \A i \in 1 .. n : i <= Len(p) + 3 => e[i] = (p \o End("OK"))[i]
  PROVE  LET c == CString(Cut(e, "OK"))
         IN  /\ ~HoldsOk(b) => IsPrefix(c, p)
             /\ (b = Zeros(N) /\ Unambiguous(p)) => c = p
<1> DEFINE c == CString(Cut(e, "OK"))
           k == First(Places(e, "OK"))
           t == p \o End("OK")
           L == Len(p)
<1>1. /\ k \in Places(e, "OK")
      /\ \A j \in Places(e, "OK") : k <= j
      /\ c \in Seq(Contents) /\ Len(c) = k - 1
      /\ \A i \in 1 .. k - 1 : c[i] = e[i]
  BY CutString
<1>2. /\ t \in Seq(Cell) /\ L \in Nat /\ Len(t) = L + 3
      /\ \A i \in 1 .. L : t[i] = p[i]
      /\ t[L + 1] = "NL" /\ t[L + 2] = "OK" /\ t[L + 3] = "NL"
      /\ \A i \in 1 .. Len(t) : t[i] # "NUL"
  BY WithOk
<1>3. \A i \in 1 .. n : i <= L + 3 => e[i] = t[i]
  OBVIOUS
<1> HIDE DEF c, k, t, L
<1>4. k \in 1 .. N - 2 /\ EndAt(e, k, "OK")
  BY <1>1, PlacesOf
<1>5. e[k] = "NL" /\ e[k + 1] = "OK" /\ e[k + 2] = "NL"
  BY <1>4 DEF EndAt
<1>6. ASSUME k <= n PROVE k <= L + 1
  <2>1. CASE n >= L + 3
    <3>1. /\ L + 1 \in 1 .. n /\ L + 2 \in 1 .. n /\ L + 3 \in 1 .. n
          /\ L + 1 \in 1 .. N - 2
      BY <1>2, <2>1
    <3>2. e[L + 1] = "NL" /\ e[L + 2] = "OK" /\ e[L + 3] = "NL"
      BY <1>2, <1>3, <3>1
    <3>3. (L + 1) + 1 = L + 2 /\ (L + 1) + 2 = L + 3
      BY <1>2
    <3>4. EndAt(e, L + 1, "OK")
      BY <3>2, <3>3 DEF EndAt
    <3>5. \A j \in 1 .. (L + 1) - 1 : e[j] # "NUL"
      BY <1>2, <1>3, <2>1
    <3>6. L + 1 \in Places(e, "OK")
      BY <3>1, <3>4, <3>5, PlacesOf
    <3>7. QED
      BY <1>1, <3>6
  <2>2. CASE n < L + 3
    <3>1. n # L + 2
      BY <1>2, <1>3
    <3>2. QED
      BY <1>2, <1>4, <1>6, <2>2, <3>1
  <2>3. QED
    BY <1>2, <2>1, <2>2
<1>7. ASSUME k > n PROVE HoldsOk(b)
  <2>1. /\ k \in n + 1 .. N - 1 /\ k + 1 \in n + 1 .. N - 1
        /\ k + 2 \in n + 1 .. N - 1
    <3>1. n # N
      BY <1>4, <1>7
    <3>2. k + 2 # N
      BY <1>5, <3>1
    <3>3. QED
      BY <1>4, <1>7, <3>2
  <2>2. EndAt(b, k, "OK")
    BY <1>5, <2>1 DEF EndAt
  <2>3. b \in Seq(Contents) /\ Len(b) = N
    BY FunctionIsSequence
  <2>4. SubSeq(b, k, k + 2) = End("OK")
    <3>1. k \in Nat /\ k >= 1 /\ k + 2 <= Len(b)
      BY <1>4, <2>1, <2>3
    <3>2. QED
      BY <2>2, <2>3, <3>1, EndOfThree
  <2>5. k \in 1 .. Len(b) - 2
    BY <1>4, <2>3
  <2>6. QED
    BY <2>4, <2>5 DEF HoldsOk
<1>8. ASSUME k <= n
      PROVE  /\ \A i \in 1 .. k - 1 : c[i] = p[i]
             /\ Len(c) <= L
  <2>1. k <= L + 1
    BY <1>6, <1>8
  <2>2. ASSUME NEW i \in 1 .. k - 1 PROVE c[i] = p[i]
    <3>1. i \in 1 .. n /\ i <= L + 3 /\ i \in 1 .. L
      BY <1>2, <1>4, <1>8, <2>1
    <3>2. QED
      BY <1>1, <1>2, <1>3, <3>1
  <2>3. QED
    BY <1>1, <1>2, <1>4, <2>1, <2>2
<1>9. c \in Seq(Contents) /\ p \in Seq(Contents)
  BY <1>1, SeqMonotonic DEF Contents
<1>10. ASSUME k <= n PROVE IsPrefix(c, p)
  <2>1. k - 1 \in 0 .. Len(p) /\ k - 1 \in 0 .. Len(c)
    BY <1>1, <1>2, <1>4, <1>8, <1>10 DEF L
  <2>2. /\ SubSeq(c, 1, k - 1) \in Seq(Contents)
        /\ Len(SubSeq(c, 1, k - 1)) = k - 1
        /\ \A i \in 1 .. k - 1 : SubSeq(c, 1, k - 1)[i] = c[i]
    BY <1>9, <2>1, PrefixProperties
  <2>3. /\ SubSeq(p, 1, k - 1) \in Seq(Contents)
        /\ Len(SubSeq(p, 1, k - 1)) = k - 1
        /\ \A i \in 1 .. k - 1 : SubSeq(p, 1, k - 1)[i] = p[i]
    BY <1>9, <2>1, PrefixProperties
  <2>4. \A i \in 1 .. k - 1 : SubSeq(c, 1, k - 1)[i] = SubSeq(p, 1, k - 1)[i]
    BY <1>8, <1>10, <2>2, <2>3
  <2>5. SubSeq(c, 1, k - 1) = SubSeq(p, 1, k - 1)
    BY <2>2, <2>3, <2>4, SeqEqual
  <2>6. QED
    BY <1>1, <1>8, <1>10, <2>5 DEF IsPrefix, L
<1>11. ASSUME b = Zeros(N), Unambiguous(p) PROVE c = p
  <2>1. \A i \in 1 .. N : b[i] = "NUL"
    BY <1>11 DEF Zeros
  <2>2. \A i \in n + 1 .. N : e[i] = "NUL"
    <3>1. ASSUME NEW i \in n + 1 .. N PROVE e[i] = "NUL"
      <4>1. CASE i = N
        BY <4>1
      <4>2. CASE i # N
        BY <2>1, <4>2
      <4>3. QED
        BY <4>1, <4>2
    <3>2. QED
      BY <3>1
  <2>3. k + 2 <= n
    BY <1>4, <1>5, <2>2
  <2>4. k <= L + 1
    BY <1>4, <1>6, <2>3
  <2>5. k \in Places(t, "OK")
    <3>1. /\ k \in 1 .. n /\ k + 1 \in 1 .. n /\ k + 2 \in 1 .. n
          /\ k + 2 <= L + 3 /\ k \in 1 .. (L + 3) - 2
      BY <1>2, <1>4, <2>3, <2>4
    <3>2. t[k] = "NL" /\ t[k + 1] = "OK" /\ t[k + 2] = "NL"
      <4>1. e[k] = t[k]
        BY <1>2, <1>3, <3>1
      <4>2. e[k + 1] = t[k + 1]
        BY <1>2, <1>3, <3>1
      <4>3. e[k + 2] = t[k + 2]
        BY <1>3, <3>1
      <4>4. QED
        BY <1>5, <4>1, <4>2, <4>3
    <3>3. \A j \in 1 .. k - 1 : t[j] # "NUL"
      BY <1>2, <1>4, <3>1
    <3>4. t \in [1 .. L + 3 -> Contents]
      <4>1. t \in [1 .. Len(t) -> Cell]
        BY <1>2, LenProperties
      <4>2. t \in [1 .. L + 3 -> Cell]
        BY <1>2, <4>1
      <4>3. QED
        BY <4>2 DEF Contents
    <3>5. L + 3 \in Nat /\ EndAt(t, k, "OK")
      BY <1>2, <3>2 DEF EndAt
    <3>6. QED
      BY <3>1, <3>3, <3>4, <3>5, PlacesOf
  <2>6. k = L + 1
    BY <1>11, <2>5 DEF Unambiguous, t, L
  <2>7. Len(c) = Len(p) /\ \A i \in 1 .. Len(c) : c[i] = p[i]
    BY <1>1, <1>2, <1>4, <1>8, <2>3, <2>6 DEF L
  <2>8. QED
    BY <1>9, <2>7, SeqEqual
<1>12. k <= n \/ k > n
  BY <1>4
<1>13. /\ ~HoldsOk(b) => IsPrefix(c, p)
       /\ (b = Zeros(N) /\ Unambiguous(p)) => c = p
  BY <1>7, <1>10, <1>11, <1>12
<1>14. QED
  BY <1>13 DEF c
-----------------------------------------------------------------------------
LEMMA HasLonger ==
  ASSUME NEW s \in Seq(Cell), NEW c \in Seq(Cell), NEW t, NEW m \in Nat,
         Len(t) \in Nat, HasAt(s, m, t)
  PROVE  HasAt(s \o c, m, t)
<1>1. /\ Len(s) \in Nat /\ Len(c) \in Nat
      /\ Len(s \o c) = Len(s) + Len(c)
      /\ \A i \in 1 .. Len(s) : (s \o c)[i] = s[i]
  BY BothParts
<1>2. Len(s) >= m + Len(t) /\ \A i \in 1 .. Len(t) : s[m + i] = t[i]
  BY DEF HasAt
<1>3. \A i \in 1 .. Len(t) : m + i \in 1 .. Len(s)
  BY <1>1, <1>2
<1>4. QED
  BY <1>1, <1>2, <1>3 DEF HasAt

(* The start of what was asked for and the payload are still to come.      *)
StartsIn(s, p) ==
  /\ call = "body" =>
       \E m \in Nat : /\ \A i \in 1 .. m : s[i] # "START"
                      /\ \A i \in 1 .. start_bytes : s[m + i] = "START"
                      /\ HasAt(s, m + start_bytes, p \o End("OK"))
  /\ call = "message" => s[1] = "NL" /\ HasAt(s, 1, p \o End("OK"))

LEMMA StartsInLonger ==
  ASSUME NEW s \in Seq(Cell), NEW c \in Seq(Cell), NEW p \in Seq(Cell),
         start_bytes \in 0 .. 3, StartsIn(s, p)
  PROVE  StartsIn(s \o c, p)
<1> DEFINE t == p \o End("OK")
<1>1. Len(t) \in Nat /\ Len(t) >= 3
  BY WithOk
<1> HIDE DEF t
<1>2. /\ Len(s) \in Nat
      /\ \A i \in 1 .. Len(s) : (s \o c)[i] = s[i]
  BY BothParts
<1>3. ASSUME call = "body"
      PROVE  \E m \in Nat :
               /\ \A i \in 1 .. m : (s \o c)[i] # "START"
               /\ \A i \in 1 .. start_bytes : (s \o c)[m + i] = "START"
               /\ HasAt(s \o c, m + start_bytes, t)
  <2>1. PICK m \in Nat : /\ \A i \in 1 .. m : s[i] # "START"
                         /\ \A i \in 1 .. start_bytes : s[m + i] = "START"
                         /\ HasAt(s, m + start_bytes, t)
    BY <1>3 DEF StartsIn, t
  <2>2. Len(s) >= m + start_bytes + Len(t)
    BY <2>1 DEF HasAt
  <2>3. /\ \A i \in 1 .. m : i \in 1 .. Len(s)
        /\ \A i \in 1 .. start_bytes : m + i \in 1 .. Len(s)
    BY <1>1, <1>2, <2>2
  <2>4. m + start_bytes \in Nat
    OBVIOUS
  <2>5. HasAt(s \o c, m + start_bytes, t)
    BY <1>1, <2>1, <2>4, HasLonger
  <2>6. QED
    BY <1>2, <2>1, <2>3, <2>5
<1>4. ASSUME call = "message"
      PROVE  (s \o c)[1] = "NL" /\ HasAt(s \o c, 1, t)
  <2>1. s[1] = "NL" /\ HasAt(s, 1, t)
    BY <1>4 DEF StartsIn, t
  <2>2. Len(s) >= 1 + Len(t)
    BY <2>1 DEF HasAt
  <2>3. 1 \in 1 .. Len(s)
    BY <1>1, <1>2, <2>2
  <2>4. QED
    BY <1>1, <1>2, <2>1, <2>3, HasLonger
<1>5. QED
  BY <1>3, <1>4 DEF StartsIn, t

(* Undisturbed, what comes is what the call waits for.                     *)
Awaited == NothingYet /\ Coming /\ BeingRead

LEMMA ComingIs ==
  Coming <=> ((Undisturbed /\ pc = "start" /\ payload # NULL) =>
                asked = NULL /\ StartsIn(rx \o due, payload))
  BY DEF Coming, StartsIn

LEMMA AwaitedKept ==
  ASSUME Awaited,
         UNCHANGED <<rx, pc, received, call, start_bytes, asked, due, payload,
                     late, mixed>>
  PROVE  Awaited'
<1>1. Undisturbed' = Undisturbed
  BY DEF Undisturbed, OfRead
<1>2. NothingYet'
  BY <1>1 DEF Awaited, NothingYet
<1>3. Coming'
  BY <1>1 DEF Awaited, Coming
<1>4. BeingRead'
  BY <1>1 DEF Awaited, BeingRead
<1>5. QED
  BY <1>2, <1>3, <1>4 DEF Awaited

LEMMA AskAwaited ==
  ASSUME ReadingTypes, AsksForBody \/ ReadMessage
  PROVE  Awaited'
<1>1. PICK what \in {"body", "message"} :
        /\ Ask(what)
        /\ what = "body" => AsksForBody
        /\ what = "message" => ReadMessage
  BY DEF AsksForBody, ReadMessage
<1>2. /\ call' = what /\ pc' = "start" /\ payload' = NULL /\ due' = due
      /\ asked' = asked \/ (asked = NULL /\ asked' = what)
  BY <1>1 DEF Ask
<1>3. AnswerDue => late'
  BY <1>1 DEF AsksForBody, ReadMessage
<1>4. SUFFICES ASSUME ~late' PROVE NothingYet'
  <2>1. Coming' /\ BeingRead'
    BY <1>2 DEF Coming, BeingRead
  <2>2. late' => NothingYet'
    BY DEF NothingYet, Undisturbed
  <2>3. QED
    BY <2>1, <2>2 DEF Awaited
<1>5. asked = NULL /\ due = <<>>
  BY <1>3, <1>4 DEF AnswerDue
<1>6. CASE what = "body"
  <2>1. /\ start_bytes' = 3 /\ rx' = rx
        /\ ~("START" \in ToSet(rx))
    BY <1>1, <1>4, <1>6 DEF AsksForBody
  <2>2. \A i \in 1 .. Len(rx) : rx[i] # "START"
    <3>1. rx \in Seq(Cell)
      BY DEF ReadingTypes, ReadTypeOK
    <3>2. DOMAIN rx = 1 .. Len(rx)
      BY <3>1, LenProperties
    <3>3. QED
      BY <2>1, <3>2 DEF ToSet
  <2>3. QED
    BY <1>2, <1>5, <1>6, <2>1, <2>2 DEF NothingYet
<1>7. CASE what = "message"
  <2>1. rx' = <<>>
    BY <1>1, <1>7 DEF ReadMessage
  <2>2. QED
    BY <1>2, <1>5, <1>7, <2>1 DEF NothingYet
<1>8. QED
  BY <1>6, <1>7
LEMMA SendLineAwaited ==
  ASSUME ReadingTypes, Awaited, SendLine
  PROVE  Awaited'
<1>1. /\ due = <<>>
      /\ mixed' = (mixed \/ (pc # "idle" /\ call = "message" /\ payload = NULL))
      /\ UNCHANGED <<callVars, request, payload, before, late>>
  BY DEF SendLine
<1>2. UNCHANGED <<call, start_bytes, asked, due, payload, late>>
  BY <1>1 DEF callVars, request
<1>3. PICK cells \in Seq(Cell) :
        /\ rx' = rx \o cells /\ UNCHANGED <<pc, received>>
        /\ \A i \in 1 .. Len(cells) : cells[i] # "START"
  <2>1. CASE Answer
    <3>1. PICK a \in Answers : Receive(a)
      BY <2>1 DEF Answer
    <3>2. a \in Seq(Cell)
      BY EndsAreCells
    <3>3. \A i \in 1 .. Len(a) : a[i] # "START"
      <4>1. CASE a = Line \o End("OK")
        <5>1. Line \in Seq(Cell) /\ End("OK") \in Seq(Cell)
          BY EndsAreCells DEF Cell
        <5>2. /\ \A i \in 1 .. Len(Line) : Line[i] # "START"
              /\ \A i \in 1 .. Len(End("OK")) : End("OK")[i] # "START"
          BY DEF Line, End
        <5>3. \A i \in 1 .. Len(a) :
                \/ i \in 1 .. Len(Line)
                \/ i - Len(Line) \in 1 .. Len(End("OK"))
                   /\ i = Len(Line) + (i - Len(Line))
          BY <4>1, <5>1, BothParts
        <5>4. /\ \A i \in 1 .. Len(Line) : a[i] = Line[i]
              /\ \A i \in 1 .. Len(End("OK")) :
                   a[Len(Line) + i] = End("OK")[i]
          BY <4>1, <5>1, BothParts
        <5>5. QED
          BY <5>2, <5>3, <5>4
      <4>2. CASE a # Line \o End("OK")
        BY <4>2 DEF Answers, End
      <4>3. QED
        BY <4>1, <4>2
    <3>4. QED
      BY <3>1, <3>2, <3>3 DEF Receive
  <2>2. CASE OtherLine
    <3>1. \A i \in 1 .. Len(Line) : Line[i] # "START"
      BY DEF Line
    <3>2. QED
      BY <2>2, <3>1, EndsAreCells DEF OtherLine, Receive
  <2>3. QED
    BY <2>1, <2>2 DEF SendLine
<1>4. rx \in Seq(Cell)
  BY DEF ReadingTypes, ReadTypeOK
<1>5. /\ Len(rx) \in Nat /\ Len(cells) \in Nat
      /\ Len(rx \o cells) = Len(rx) + Len(cells)
      /\ \A i \in 1 .. Len(rx) : (rx \o cells)[i] = rx[i]
      /\ \A i \in 1 .. Len(cells) : (rx \o cells)[Len(rx) + i] = cells[i]
  BY <1>4, BothParts
<1>6. SUFFICES ASSUME Undisturbed', pc' \in {"start", "read"}
               PROVE  Awaited'
  BY DEF Awaited, NothingYet, Coming, BeingRead
<1>7. /\ Undisturbed /\ (call = "message" => payload # NULL)
      /\ pc \in {"start", "read"}
  <2>1. ~mixed'
    BY <1>6 DEF Undisturbed
  <2>2. ~mixed /\ ~(pc # "idle" /\ call = "message" /\ payload = NULL)
    BY <1>1, <2>1, Zenon
  <2>3. pc \in {"start", "read"}
    BY <1>3, <1>6
  <2>4. Undisturbed
    BY <1>2, <1>6, <2>2 DEF Undisturbed, OfRead
  <2>5. QED
    BY <2>2, <2>3, <2>4
<1>8. NothingYet'
  <2>1. SUFFICES ASSUME pc = "start", payload = NULL PROVE NothingYet'
    BY <1>2, <1>3 DEF NothingYet
  <2>2. /\ call = "body" /\ asked \in {NULL, call} /\ start_bytes = 3
        /\ \A i \in 1 .. Len(rx) : rx[i] # "START"
    BY <1>7, <2>1 DEF Awaited, NothingYet, Undisturbed, OfRead
  <2>3. \A i \in 1 .. Len(rx') : rx'[i] # "START"
    <3>1. ASSUME NEW i \in 1 .. Len(rx') PROVE rx'[i] # "START"
      <4>1. CASE i <= Len(rx)
        BY <1>3, <1>5, <2>2, <4>1
      <4>2. CASE i > Len(rx)
        <5>1. i - Len(rx) \in 1 .. Len(cells)
              /\ i = Len(rx) + (i - Len(rx))
          BY <1>3, <1>5, <4>2
        <5>2. QED
          BY <1>3, <1>5, <5>1
      <4>3. QED
        BY <1>5, <4>1, <4>2
    <3>2. QED
      BY <3>1
  <2>4. QED
    BY <1>1, <1>2, <2>2, <2>3 DEF NothingYet
<1>9. rx \o due = rx /\ rx' \o due' = rx \o cells
  BY <1>1, <1>2, <1>3, <1>4, <1>5, ConcatEmptySeq
<1>10. Coming'
  <2>1. SUFFICES ASSUME pc = "start", payload # NULL PROVE Coming'
    BY <1>2, <1>3 DEF Coming
  <2>2. asked = NULL /\ StartsIn(rx, payload)
    BY <1>7, <1>9, <2>1, ComingIs DEF Awaited
  <2>3. StartsIn(rx \o cells, payload)
    <3>1. payload \in Seq(Cell) /\ start_bytes \in 0 .. 3
      BY <2>1, PayloadAssumption DEF ReadingTypes, ReadTypeOK
    <3>2. QED
      BY <1>4, <2>2, <3>1, StartsInLonger
  <2>4. QED
    BY <1>2, <1>9, <2>2, <2>3 DEF Coming, StartsIn
<1>11. BeingRead'
  <2>1. SUFFICES ASSUME pc = "read" PROVE BeingRead'
    BY <1>3 DEF BeingRead
  <2>2. asked = NULL /\ payload # NULL
    BY <1>7, <2>1 DEF Awaited, BeingRead
  <2>3. HasAt(received \o (rx \o due), 0, payload \o End("OK"))
    BY <1>7, <2>1, <2>2 DEF Awaited, BeingRead
  <2>4. received \in Seq(Cell) /\ payload \in Seq(Cell)
    BY <2>2, PayloadAssumption DEF ReadingTypes, ReadTypeOK
  <2>5. Len(payload \o End("OK")) \in Nat
    BY <2>4, WithOk
  <2>6. /\ received \o rx \in Seq(Cell)
        /\ (received \o rx) \o cells = received \o (rx \o cells)
    <3>1. received \o rx \in Seq(Cell)
      BY <1>4, <2>4, BothParts
    <3>2. (received \o rx) \o cells = received \o (rx \o cells)
      <4>1. rx \in Seq(Cell) /\ received \in Seq(Cell)
        BY <1>4, <2>4
      <4>2. QED
        BY <4>1, Regroup, Zenon
    <3>3. QED
      BY <3>1, <3>2
  <2>7. HasAt(received \o (rx \o cells), 0, payload \o End("OK"))
    <3>1. HasAt(received \o rx, 0, payload \o End("OK"))
      BY <1>9, <2>3
    <3>2. QED
      BY <2>5, <2>6, <3>1, HasLonger
  <2>8. received' \o (rx' \o due') = received \o (rx \o cells)
    BY <1>3, <1>9
  <2>9. HasAt(received' \o (rx' \o due'), 0, payload' \o End("OK"))
    BY <1>2, <2>7, <2>8
  <2>10. asked' = NULL /\ payload' # NULL
    BY <1>2, <2>2
  <2>11. QED
    BY <2>9, <2>10 DEF BeingRead, HasAt
<1>12. QED
  BY <1>8, <1>10, <1>11 DEF Awaited

LEMMA SendPieceAwaited ==
  ASSUME ReadingTypes, Awaited, SendPiece
  PROVE  Awaited'
<1>1. PICK n \in 1 .. Len(due) :
        /\ Receive(SubSeq(due, 1, n))
        /\ due' = SubSeq(due, n + 1, Len(due))
  BY DEF SendPiece
<1>2. UNCHANGED <<call, start_bytes, asked, payload, late, mixed, pc, received>>
  BY <1>1 DEF SendPiece, callVars, past, Receive
<1>3. rx \in Seq(Cell) /\ due \in Seq(Cell)
  BY DEF ReadingTypes, ReadTypeOK
<1>4. rx' \o due' = rx \o due
  BY <1>1, <1>3, MovePiece DEF Receive
<1>5. due # <<>>
  BY <1>1
<1>6. NothingYet'
  <2>1. ~(Undisturbed /\ pc = "start" /\ payload = NULL)
    BY <1>5 DEF Awaited, NothingYet
  <2>2. QED
    BY <1>2, <2>1 DEF NothingYet, Undisturbed, OfRead
<1>7. Coming'
  BY <1>2, <1>4 DEF Awaited, Coming, Undisturbed, OfRead
<1>8. BeingRead'
  <2>1. Undisturbed /\ pc = "read" => payload # NULL
    BY <1>5 DEF Awaited, BeingRead
  <2>2. QED
    BY <1>2, <1>4, <2>1 DEF Awaited, BeingRead, Undisturbed, OfRead
<1>9. QED
  BY <1>6, <1>7, <1>8 DEF Awaited

(* Nothing is asked for that has been sent.                                *)
LEMMA StillAsked ==
  ASSUME ReadingTypes, Awaited, asked # NULL, Undisturbed,
         pc \in {"start", "read"}
  PROVE  /\ pc = "start" /\ payload = NULL /\ due = <<>> /\ asked = call
         /\ call = "body" =>
              start_bytes = 3 /\ \A i \in 1 .. Len(rx) : rx[i] # "START"
         /\ call = "message" => rx = <<>>
<1>1. pc = "start" /\ payload = NULL
  BY DEF Awaited, Coming, BeingRead
<1>2. QED
  BY <1>1 DEF Awaited, NothingYet

LEMMA RefuseAwaited ==
  ASSUME ReadingTypes, Awaited, RefuseRequest
  PROVE  Awaited'
<1>1. PICK word \in {"ERROR", "OK"} : Receive(End(word))
  BY DEF RefuseRequest
<1>2. /\ asked # NULL /\ asked' = NULL
      /\ UNCHANGED <<call, start_bytes, due, payload, late, mixed, pc>>
  BY <1>1 DEF RefuseRequest, callVars, past, Receive
<1>3. SUFFICES ASSUME Undisturbed, pc \in {"start", "read"} PROVE Awaited'
  BY <1>2 DEF Awaited, NothingYet, Coming, BeingRead, Undisturbed, OfRead
<1>4. /\ pc = "start" /\ payload = NULL /\ due = <<>>
      /\ call = "body" =>
           start_bytes = 3 /\ \A i \in 1 .. Len(rx) : rx[i] # "START"
      /\ call = "message" => rx = <<>>
  BY <1>2, <1>3, StillAsked
<1>5. Coming' /\ BeingRead'
  BY <1>2, <1>4 DEF Coming, BeingRead
<1>6. rx \in Seq(Cell) /\ End(word) \in Seq(Cell) /\ rx' = rx \o End(word)
  BY <1>1, EndsAreCells DEF ReadingTypes, ReadTypeOK, Receive, Cell
<1>7. call = "message" => rx' = End(word)
  BY <1>4, <1>6, ConcatEmptySeq
<1>8. ASSUME call = "body"
      PROVE  \A i \in 1 .. Len(rx') : rx'[i] # "START"
  <2> DEFINE e == End(word)
  <2>1. \A i \in 1 .. Len(e) : e[i] # "START"
    BY DEF End
  <2>2. e \in Seq(Cell) /\ rx' = rx \o e
    BY <1>6
  <2> HIDE DEF e
  <2>3. /\ Len(rx) \in Nat /\ Len(e) \in Nat /\ Len(rx') = Len(rx) + Len(e)
        /\ \A i \in 1 .. Len(rx) : rx'[i] = rx[i]
        /\ \A i \in 1 .. Len(e) : rx'[Len(rx) + i] = e[i]
    BY <1>6, <2>2, BothParts
  <2>4. ASSUME NEW i \in 1 .. Len(rx') PROVE rx'[i] # "START"
    <3>1. CASE i <= Len(rx)
      BY <1>4, <1>8, <2>3, <3>1
    <3>2. CASE i > Len(rx)
      <4>1. i - Len(rx) \in 1 .. Len(e) /\ i = Len(rx) + (i - Len(rx))
        BY <2>3, <3>2
      <4>2. QED
        BY <2>1, <2>3, <4>1
    <3>3. QED
      BY <2>3, <3>1, <3>2
  <2>5. QED
    BY <2>4
<1>9. NothingYet'
  BY <1>2, <1>4, <1>7, <1>8 DEF NothingYet
<1>10. QED
  BY <1>5, <1>9 DEF Awaited

LEMMA AnswerAwaited ==
  ASSUME ReadingTypes, Awaited, AnswerRequest
  PROVE  Awaited'
<1>1. /\ asked # NULL /\ asked' = NULL
      /\ UNCHANGED <<vars, callVars, before, late, mixed>>
  BY DEF AnswerRequest
<1>2. PICK p \in Payload :
        /\ due' = StartOf(asked) \o p \o End("OK")
        /\ payload' = IF pc = "start" /\ asked = call THEN p ELSE payload
  BY DEF AnswerRequest
<1>3. UNCHANGED <<rx, pc, received, call, start_bytes, late, mixed>>
  BY <1>1 DEF vars, modem, history, callVars
<1>4. SUFFICES ASSUME Undisturbed, pc \in {"start", "read"} PROVE Awaited'
  BY <1>3 DEF Awaited, NothingYet, Coming, BeingRead, Undisturbed, OfRead
<1>5. /\ pc = "start" /\ asked = call
      /\ call = "body" =>
           start_bytes = 3 /\ \A i \in 1 .. Len(rx) : rx[i] # "START"
      /\ call = "message" => rx = <<>>
  BY <1>1, <1>4, StillAsked
<1>6. payload' = p /\ p # NULL /\ p \in Seq(Cell)
  BY <1>2, <1>5, PayloadAssumption
<1>7. NothingYet' /\ BeingRead'
  BY <1>3, <1>5, <1>6 DEF NothingYet, BeingRead
<1> DEFINE t == p \o End("OK")
           w == StartOf(call)
<1>8. t \in Seq(Cell) /\ Len(t) \in Nat /\ Len(t) >= 3
  BY <1>6, WithOk
<1>9. w \in Seq(Cell)
  <2>1. "START" \in Cell /\ "NL" \in Cell
    BY DEF Cell
  <2>2. QED
    BY <2>1 DEF StartOf
<1>10. due' = w \o t
  <2>1. End("OK") \in Seq(Cell)
    BY EndsAreCells DEF Cell
  <2>2. w \o p \o End("OK") = w \o t
    BY <1>6, <1>9, <2>1, Regroup
  <2>3. QED
    BY <1>2, <1>5, <2>2
<1> HIDE DEF t
<1>11. rx \in Seq(Cell) /\ due' \in Seq(Cell) /\ rx' = rx
  BY <1>3, <1>8, <1>9, <1>10, BothParts DEF ReadingTypes, ReadTypeOK
<1> DEFINE s == rx \o due'
<1>12. /\ Len(rx) \in Nat /\ Len(s) = Len(rx) + Len(due')
       /\ \A i \in 1 .. Len(rx) : s[i] = rx[i]
       /\ \A i \in 1 .. Len(due') : s[Len(rx) + i] = due'[i]
  BY <1>11, BothParts
<1>13. /\ Len(w) \in Nat /\ Len(due') = Len(w) + Len(t)
       /\ \A i \in 1 .. Len(w) : due'[i] = w[i]
       /\ \A i \in 1 .. Len(t) : due'[Len(w) + i] = t[i]
  BY <1>8, <1>9, <1>10, BothParts
<1>14. /\ call = "body" => Len(w) = 3 /\ \A i \in 1 .. 3 : w[i] = "START"
       /\ call = "message" => Len(w) = 1 /\ w[1] = "NL"
  BY DEF StartOf
<1> HIDE DEF s, w
<1>15. HasAt(s, Len(rx) + Len(w), t)
  <2>1. Len(s) >= Len(rx) + Len(w) + Len(t)
    BY <1>8, <1>12, <1>13
  <2>2. ASSUME NEW i \in 1 .. Len(t)
        PROVE  s[Len(rx) + Len(w) + i] = t[i]
    <3>1. Len(w) + i \in 1 .. Len(due')
      BY <1>8, <1>13
    <3>2. s[Len(rx) + (Len(w) + i)] = due'[Len(w) + i]
      BY <1>12, <3>1
    <3>3. Len(rx) + (Len(w) + i) = Len(rx) + Len(w) + i
      BY <1>12, <1>13
    <3>4. QED
      BY <1>13, <3>2, <3>3
  <2>3. QED
    BY <2>1, <2>2 DEF HasAt
<1>16. StartsIn(s, p)
  <2>1. ASSUME call = "body"
        PROVE  \E m \in Nat :
                 /\ \A i \in 1 .. m : s[i] # "START"
                 /\ \A i \in 1 .. start_bytes : s[m + i] = "START"
                 /\ HasAt(s, m + start_bytes, t)
    <3>1. start_bytes = 3 /\ Len(w) = 3
      BY <1>5, <1>14, <2>1
    <3>2. \A i \in 1 .. Len(rx) : s[i] # "START"
      BY <1>5, <1>12, <2>1
    <3>3. \A i \in 1 .. 3 : s[Len(rx) + i] = "START"
      <4>1. \A i \in 1 .. 3 : i \in 1 .. Len(due') /\ due'[i] = "START"
        BY <1>8, <1>13, <1>14, <2>1, <3>1
      <4>2. QED
        BY <1>12, <4>1
    <3>4. HasAt(s, Len(rx) + 3, t)
      BY <1>15, <3>1
    <3>5. QED
      BY <1>12, <3>1, <3>2, <3>3, <3>4
  <2>2. ASSUME call = "message" PROVE s[1] = "NL" /\ HasAt(s, 1, t)
    <3>1. Len(rx) = 0 /\ Len(w) = 1 /\ w[1] = "NL"
      BY <1>5, <1>14, <2>2
    <3>2. 1 \in 1 .. Len(due') /\ due'[1] = "NL"
      BY <1>8, <1>13, <3>1
    <3>3. Len(rx) + 1 = 1 /\ Len(rx) + Len(w) = 1
      BY <3>1
    <3>4. s[1] = "NL"
      BY <1>12, <3>2, <3>3
    <3>5. QED
      BY <1>15, <3>3, <3>4
  <2>3. QED
    BY <2>1, <2>2 DEF StartsIn, t
<1>17. Coming'
  <2>1. rx' \o due' = s
    BY <1>11 DEF s
  <2>2. QED
    BY <1>1, <1>3, <1>6, <1>16, <2>1 DEF Coming, StartsIn
<1>18. QED
  BY <1>7, <1>17 DEF Awaited

(* One cell is taken from what is to come.                                 *)
LEMMA RestOf ==
  ASSUME NEW s \in Seq(Cell), s # <<>>
  PROVE  /\ Tail(s) \in Seq(Cell) /\ Len(s) \in Nat /\ Len(s) >= 1
         /\ Len(Tail(s)) = Len(s) - 1 /\ Head(s) = s[1]
         /\ \A i \in 1 .. Len(s) - 1 : Tail(s)[i] = s[i + 1]
         /\ \A d \in Seq(Cell) : Tail(s) \o d = Tail(s \o d)
<1>1. /\ Tail(s) \in Seq(Cell) /\ Len(s) \in Nat /\ Len(s) >= 1
      /\ Len(Tail(s)) = Len(s) - 1 /\ Head(s) = s[1]
      /\ \A i \in 1 .. Len(s) - 1 : Tail(s)[i] = s[i + 1]
  BY HeadTailProperties, EmptySeq
<1>2. ASSUME NEW d \in Seq(Cell)
      PROVE  Tail(s) \o d = Tail(s \o d)
  BY <1>1
<1>3. QED
  BY <1>1, <1>2

LEMMA HasInTail ==
  ASSUME NEW s \in Seq(Cell), s # <<>>, NEW t, Len(t) \in Nat, NEW m \in Nat,
         HasAt(s, m + 1, t)
  PROVE  HasAt(Tail(s), m, t)
<1>1. /\ Len(s) \in Nat /\ Len(Tail(s)) = Len(s) - 1
      /\ \A i \in 1 .. Len(s) - 1 : Tail(s)[i] = s[i + 1]
  BY RestOf
<1>2. Len(s) >= m + 1 + Len(t) /\ \A i \in 1 .. Len(t) : s[m + 1 + i] = t[i]
  BY DEF HasAt
<1>3. ASSUME NEW i \in 1 .. Len(t)
      PROVE  Tail(s)[m + i] = t[i]
  <2>1. m + i \in 1 .. Len(s) - 1 /\ (m + i) + 1 = m + 1 + i
    BY <1>1, <1>2
  <2>2. QED
    BY <1>1, <1>2, <2>1
<1>4. QED
  BY <1>1, <1>2, <1>3 DEF HasAt

LEMMA AwaitStartAwaited ==
  ASSUME ReadingTypes, Awaited, AwaitStart
  PROVE  Awaited'
<1>1. /\ pc = "start" /\ rx # <<>> /\ rx' = Tail(rx)
      /\ start_bytes' = IF call = "body" /\ Head(rx) = "START"
                        THEN start_bytes - 1 ELSE start_bytes
      /\ UNCHANGED <<call, asked, due, payload, late, mixed>>
  BY DEF AwaitStart, request
<1>2. \/ /\ IF call = "body" THEN start_bytes' = 0 ELSE Head(rx) = "NL"
         /\ pc' = "read" /\ received' = <<>>
      \/ /\ ~(IF call = "body" THEN start_bytes' = 0 ELSE Head(rx) = "NL")
         /\ pc' = pc
  BY DEF AwaitStart, StartReading
<1>3. rx \in Seq(Cell) /\ due \in Seq(Cell) /\ start_bytes \in 0 .. 3
  BY DEF ReadingTypes, ReadTypeOK
<1>4. /\ rx' \in Seq(Cell) /\ Len(rx) \in Nat /\ Len(rx) >= 1
      /\ Len(rx') = Len(rx) - 1 /\ Head(rx) = rx[1]
      /\ \A i \in 1 .. Len(rx) - 1 : rx'[i] = rx[i + 1]
      /\ rx' \o due = Tail(rx \o due)
  BY <1>1, <1>3, RestOf
<1>5. Undisturbed' = Undisturbed
  BY <1>1 DEF Undisturbed, OfRead
<1>6. SUFFICES ASSUME Undisturbed PROVE Awaited'
  BY <1>5 DEF Awaited, NothingYet, Coming, BeingRead
<1>7. call \in {"body", "message"}
  BY <1>6 DEF Undisturbed, OfRead
<1>8. CASE payload = NULL
  <2>1. /\ due = <<>> /\ asked \in {NULL, call}
        /\ call = "body" =>
             start_bytes = 3 /\ \A i \in 1 .. Len(rx) : rx[i] # "START"
        /\ call = "message" =>
             asked = NULL /\ \E word \in {"OK", "ERROR"} : rx = End(word)
    BY <1>1, <1>6, <1>8 DEF Awaited, NothingYet
  <2>2. CASE call = "body"
    <3>1. Head(rx) # "START"
      BY <1>4, <2>1, <2>2
    <3>2. start_bytes' = 3 /\ pc' = "start"
      BY <1>1, <1>2, <2>1, <2>2, <3>1
    <3>3. \A i \in 1 .. Len(rx') : rx'[i] # "START"
      BY <1>4, <2>1, <2>2
    <3>4. NothingYet'
      BY <1>1, <2>1, <2>2, <3>2, <3>3 DEF NothingYet
    <3>5. Coming' /\ BeingRead'
      BY <1>1, <1>8, <3>2 DEF Coming, BeingRead
    <3>6. QED
      BY <3>4, <3>5 DEF Awaited
  <2>3. CASE call = "message"
    <3>1. PICK word \in {"OK", "ERROR"} : rx = End(word)
      BY <2>1, <2>3
    <3>2. Head(rx) = "NL" /\ rx' = <<word, "NL">>
      BY <1>1, <3>1 DEF End
    <3>3. pc' = "read" /\ received' = <<>>
      BY <1>2, <2>3, <3>2
    <3>4. received' \o rx' = <<word, "NL">>
      BY <3>2, <3>3
    <3>5. BeingRead'
      BY <1>1, <1>8, <2>1, <2>3, <3>4 DEF BeingRead
    <3>6. NothingYet' /\ Coming'
      BY <3>3 DEF NothingYet, Coming
    <3>7. QED
      BY <3>5, <3>6 DEF Awaited
  <2>4. QED
    BY <1>7, <2>2, <2>3
<1>9. CASE payload # NULL
  <2> DEFINE s == rx \o due
             t == payload \o End("OK")
  <2>1. asked = NULL /\ StartsIn(s, payload)
    BY <1>1, <1>6, <1>9, ComingIs DEF Awaited
  <2>2. /\ payload \in Seq(Cell) /\ t \in Seq(Cell)
        /\ Len(t) \in Nat /\ Len(t) >= 3
    <3>1. payload \in Seq(Cell)
      BY <1>9, PayloadAssumption DEF ReadingTypes, ReadTypeOK
    <3>2. QED
      BY <3>1, WithOk
  <2>3. /\ s \in Seq(Cell) /\ Len(s) = Len(rx) + Len(due) /\ Len(due) \in Nat
        /\ s[1] = Head(rx)
    <3>1. 1 \in 1 .. Len(rx)
      BY <1>4
    <3>2. QED
      BY <1>3, <1>4, <3>1, BothParts
  <2>4. s # <<>>
    BY <1>4, <2>3
  <2>5. rx' \o due' = Tail(s)
    BY <1>1, <1>4
  <2>6. /\ call = "body" =>
             \E m \in Nat : /\ \A i \in 1 .. m : s[i] # "START"
                            /\ \A i \in 1 .. start_bytes : s[m + i] = "START"
                            /\ HasAt(s, m + start_bytes, t)
        /\ call = "message" => s[1] = "NL" /\ HasAt(s, 1, t)
    BY <2>1 DEF StartsIn
  <2> HIDE DEF s, t
  <2>7. /\ \A i \in 1 .. Len(s) - 1 : Tail(s)[i] = s[i + 1]
        /\ Len(s) \in Nat /\ Len(Tail(s)) = Len(s) - 1
    BY <2>3, <2>4, RestOf
  <2>8. NothingYet'
    BY <1>1, <1>9 DEF NothingYet
  <2>9. ASSUME pc' = "read", HasAt(Tail(s), 0, t), received' = <<>>
        PROVE  Awaited'
    <3>1. received' \o (rx' \o due') = Tail(s)
      <4>1. Tail(s) \in Seq(Cell)
        BY <2>3, <2>4, RestOf
      <4>2. QED
        BY <2>5, <2>9, <4>1, ConcatEmptySeq
    <3>2. HasAt(received' \o (rx' \o due'), 0, payload' \o End("OK"))
      BY <1>1, <2>9, <3>1 DEF t
    <3>3. BeingRead'
      BY <1>1, <1>9, <2>1, <3>2 DEF BeingRead, HasAt
    <3>4. Coming'
      BY <2>9 DEF Coming
    <3>5. QED
      BY <2>8, <3>3, <3>4 DEF Awaited
  <2>10. CASE call = "message"
    <3>1. s[1] = "NL" /\ HasAt(s, 1, t)
      BY <2>6, <2>10
    <3>2. pc' = "read" /\ received' = <<>>
      BY <1>2, <2>3, <2>10, <3>1
    <3>3. HasAt(Tail(s), 0, t)
      <4>1. 0 + 1 = 1 /\ 0 \in Nat
        OBVIOUS
      <4>2. HasAt(s, 0 + 1, t)
        BY <3>1, <4>1
      <4>3. QED
        BY <2>2, <2>3, <2>4, <4>1, <4>2, HasInTail
    <3>4. QED
      BY <2>9, <3>2, <3>3
  <2>11. CASE call = "body"
    <3>1. PICK m \in Nat :
            /\ \A i \in 1 .. m : s[i] # "START"
            /\ \A i \in 1 .. start_bytes : s[m + i] = "START"
            /\ HasAt(s, m + start_bytes, t)
      BY <2>6, <2>11
    <3>2. start_bytes # 0
      BY <1>1, <2>11 DEF ReadingTypes
    <3>3. m + start_bytes + Len(t) <= Len(s)
      BY <3>1 DEF HasAt
    <3>4. ASSUME NEW k \in Nat, NEW j \in Nat, pc' = "start",
                 start_bytes' = j, k + j + 1 = m + start_bytes,
                 \A i \in 1 .. k : s[i + 1] # "START",
                 \A i \in 1 .. j : s[k + i + 1] = "START"
          PROVE  Awaited'
      <4>1. HasAt(Tail(s), k + j, t)
        <5>1. k + j \in Nat /\ HasAt(s, (k + j) + 1, t)
          BY <3>1, <3>4
        <5>2. QED
          BY <2>2, <2>3, <2>4, <5>1, HasInTail
      <4>2. \A i \in 1 .. k : Tail(s)[i] # "START"
        <5>1. \A i \in 1 .. k : i \in 1 .. Len(s) - 1
          BY <1>3, <2>2, <2>7, <3>3, <3>4
        <5>2. QED
          BY <2>7, <3>4, <5>1
      <4>3. \A i \in 1 .. j : Tail(s)[k + i] = "START"
        <5>1. \A i \in 1 .. j : k + i \in 1 .. Len(s) - 1
          BY <1>3, <2>2, <2>7, <3>3, <3>4
        <5>2. QED
          BY <2>7, <3>4, <5>1
      <4>4. call' = "body" /\ asked' = NULL /\ payload' = payload
        BY <1>1, <2>1, <2>11
      <4>5. /\ \A i \in 1 .. k : (rx' \o due')[i] # "START"
            /\ \A i \in 1 .. start_bytes' : (rx' \o due')[k + i] = "START"
            /\ HasAt(rx' \o due', k + start_bytes', payload' \o End("OK"))
        BY <2>5, <3>4, <4>1, <4>2, <4>3, <4>4 DEF t
      <4>6. Coming'
        BY <4>4, <4>5 DEF Coming, HasAt
      <4>7. BeingRead'
        BY <3>4 DEF BeingRead
      <4>8. QED
        BY <2>8, <4>6, <4>7 DEF Awaited
    <3>5. CASE m = 0
      <4>1. s[1] = "START"
        <5>1. 1 \in 1 .. start_bytes /\ m + 1 = 1
          BY <1>3, <3>2, <3>5
        <5>2. QED
          BY <3>1, <5>1
      <4>2. start_bytes' = start_bytes - 1
        BY <1>1, <2>3, <2>11, <4>1
      <4>3. CASE start_bytes' = 0
        <5>1. pc' = "read" /\ received' = <<>>
          BY <1>2, <2>11, <4>3
        <5>2. HasAt(s, 0 + 1, t) /\ 0 \in Nat
          BY <1>3, <3>1, <3>5, <4>2, <4>3
        <5>3. HasAt(Tail(s), 0, t)
          BY <2>2, <2>3, <2>4, <5>2, HasInTail
        <5>4. QED
          BY <2>9, <5>1, <5>3
      <4>4. CASE start_bytes' # 0
        <5>1. pc' = "start"
          BY <1>1, <1>2, <2>11, <4>4
        <5>2. start_bytes' \in Nat /\ 0 \in Nat
              /\ 0 + start_bytes' + 1 = m + start_bytes
          BY <1>3, <3>2, <3>5, <4>2
        <5>3. \A i \in 1 .. 0 : s[i + 1] # "START"
          OBVIOUS
        <5>4. \A i \in 1 .. start_bytes' : s[0 + i + 1] = "START"
          <6>1. \A i \in 1 .. start_bytes' :
                  i + 1 \in 1 .. start_bytes /\ m + (i + 1) = 0 + i + 1
            BY <1>3, <3>5, <4>2
          <6>2. QED
            BY <3>1, <6>1
        <5>5. QED
          BY <3>4, <5>1, <5>2, <5>3, <5>4
      <4>5. QED
        BY <4>3, <4>4
    <3>6. CASE m # 0
      <4>1. m - 1 \in Nat /\ 1 \in 1 .. m
        BY <3>6
      <4>2. Head(rx) # "START"
        BY <2>3, <3>1, <4>1
      <4>3. start_bytes' = start_bytes /\ pc' = "start"
        BY <1>1, <1>2, <2>11, <3>2, <4>2
      <4>4. start_bytes \in Nat /\ (m - 1) + start_bytes + 1 = m + start_bytes
        BY <1>3
      <4>5. \A i \in 1 .. m - 1 : s[i + 1] # "START"
        BY <3>1, <4>1
      <4>6. \A i \in 1 .. start_bytes : s[(m - 1) + i + 1] = "START"
        <5>1. \A i \in 1 .. start_bytes : (m - 1) + i + 1 = m + i
          BY <1>3
        <5>2. QED
          BY <3>1, <5>1
      <4>7. QED
        BY <3>4, <4>1, <4>3, <4>4, <4>5, <4>6
    <3>7. QED
      BY <3>5, <3>6
  <2>12. QED
    BY <1>7, <2>10, <2>11
<1>10. QED
  BY <1>8, <1>9

(* What is read leaves together with what is to come what it was.          *)
LEMMA ReadCellSame ==
  ASSUME ReadingTypes, ReadCell, due' = due
  PROVE  /\ received' \o rx' = received \o rx
         /\ received' \o (rx' \o due') = received \o (rx \o due)
         /\ received \in Seq(Cell) /\ rx \o due \in Seq(Cell)
         /\ received' \in Seq(Cell) /\ rx' \o due' \in Seq(Cell)
<1>1. /\ rx # <<>> /\ rx' = Tail(rx)
      /\ received' = Append(received, Head(rx))
  BY DEF ReadCell
<1>2. rx \in Seq(Cell) /\ received \in Seq(Cell) /\ due \in Seq(Cell)
  BY DEF ReadingTypes, ReadTypeOK
<1>3. received' \o rx' = received \o rx
  BY <1>1, <1>2, MoveHead
<1>4. received' \in Seq(Cell) /\ rx' \in Seq(Cell)
  BY RoundOfLoop
<1>5. /\ (received' \o rx') \o due' = received' \o (rx' \o due')
      /\ (received \o rx) \o due = received \o (rx \o due)
  <2>1. due' \in Seq(Cell)
    BY <1>2
  <2>2. (received' \o rx') \o due' = received' \o (rx' \o due')
    BY <1>4, <2>1, Regroup, Zenon
  <2>3. (received \o rx) \o due = received \o (rx \o due)
    BY <1>2, Regroup, Zenon
  <2>4. QED
    BY <2>2, <2>3
<1>6. rx \o due \in Seq(Cell) /\ rx' \o due' \in Seq(Cell)
  BY <1>2, <1>4, BothParts
<1>7. QED
  BY <1>2, <1>3, <1>4, <1>5, <1>6

LEMMA AwaitedStep ==
  ASSUME ReadingTypes, Awaited, [ReadNext]_readVars
  PROVE  Awaited'
<1>1. CASE CommandBegins \/ CommandGoesOn \/ BodyGivenUp
  <2>1. ~OfRead'
    <3>1. CASE CommandBegins
      BY <3>1 DEF CommandBegins, OfCommand, OfRead
    <3>2. CASE CommandGoesOn
      BY <3>2 DEF CommandGoesOn, callVars, OfCommand, OfRead
    <3>3. CASE BodyGivenUp
      BY <3>3 DEF BodyGivenUp, OfRead
    <3>4. QED
      BY <1>1, <3>1, <3>2, <3>3
  <2>2. QED
    BY <2>1 DEF Awaited, NothingYet, Coming, BeingRead, Undisturbed
<1>2. CASE ReadsOn
  <2>1. UNCHANGED <<call, start_bytes, asked, due, payload, late, mixed>>
    BY <1>2 DEF ReadsOn, callVars, request, past
  <2>2. pc = "read" /\ (pc' = "check" \/ (ReadCell /\ pc' = "read"))
    BY <1>2, EndOfRound DEF ReadsOn, TimeOut, Respond, ReadCell
  <2>3. NothingYet' /\ Coming'
    BY <2>2 DEF NothingYet, Coming
  <2>4. BeingRead'
    <3>1. CASE pc' = "check"
      BY <3>1 DEF BeingRead
    <3>2. CASE ReadCell
      <4>1. /\ received' \o rx' = received \o rx
            /\ received' \o (rx' \o due') = received \o (rx \o due)
        BY <2>1, <3>2, ReadCellSame
      <4>2. Undisturbed' = Undisturbed
        BY <2>1 DEF Undisturbed, OfRead
      <4>3. QED
        BY <2>1, <2>2, <4>1, <4>2 DEF Awaited, BeingRead
    <3>3. QED
      BY <2>2, <3>1, <3>2
  <2>5. QED
    BY <2>3, <2>4 DEF Awaited
<1>3. CASE AsksForBody \/ ReadMessage
  BY <1>3, AskAwaited
<1>4. CASE AwaitStart
  BY <1>4, AwaitStartAwaited
<1>5. CASE StartTimesOut \/ ReadReturns
  <2>1. pc' = "idle"
    BY <1>5 DEF StartTimesOut, ReadReturns
  <2>2. QED
    BY <2>1 DEF Awaited, NothingYet, Coming, BeingRead
<1>6. CASE ModemSendsCells
  BY <1>6, SendLineAwaited, SendPieceAwaited, RefuseAwaited
     DEF ModemSendsCells
<1>7. CASE AnswerRequest
  BY <1>7, AnswerAwaited
<1>8. CASE UNCHANGED readVars
  BY <1>8, AwaitedKept
     DEF readVars, vars, modem, history, callVars, request, past
<1>9. QED
  BY <1>1, <1>2, <1>3, <1>4, <1>5, <1>6, <1>7, <1>8, Steps

LEMMA BufferKeptStep ==
  ASSUME ReadingTypes, BufferKept, [ReadNext]_readVars
  PROVE  BufferKept'
<1> SUFFICES ASSUME OfRead', pc' = "read",
                    NEW i \in Len(received') + 1 .. BufferSize' - 1
             PROVE  buffer'[i] = before'[i]
  BY DEF BufferKept
<1>1. CASE CommandBegins
  BY <1>1 DEF CommandBegins, Call
<1>2. CASE CommandGoesOn
  BY <1>2 DEF CommandGoesOn, callVars, OfCommand, OfRead
<1>3. CASE ReadsOn
  <2>1. ReadCell /\ call' = call /\ before' = before
    BY <1>3 DEF ReadsOn, TimeOut, Respond, callVars, past
  <2>2. /\ pc = "read" /\ BufferSize' = BufferSize
        /\ Len(received') = Len(received) + 1
        /\ \A j \in 1 .. BufferSize :
             j # Len(received) + 1 => Extended[j] = buffer[j]
    BY <2>1, RoundOfLoop
  <2>3. buffer' = Extended
    BY <2>1, EndOfRound
  <2>4. BufferSize \in Nat /\ Len(received) \in Nat
    BY Sizes, LenProperties DEF ReadingTypes
  <2>5. /\ i \in 1 .. BufferSize /\ i # Len(received) + 1
        /\ i \in Len(received) + 1 .. BufferSize - 1
    BY <2>2, <2>4
  <2>6. buffer[i] = before[i]
    BY <2>1, <2>2, <2>5 DEF BufferKept, OfRead
  <2>7. QED
    BY <2>1, <2>2, <2>3, <2>5, <2>6
<1>4. CASE BodyGivenUp
  BY <1>4 DEF BodyGivenUp, OfRead
<1>5. CASE AsksForBody \/ ReadMessage
  BY <1>5 DEF AsksForBody, ReadMessage, Ask
<1>6. CASE AwaitStart
  <2>1. /\ StartReading \/ UNCHANGED <<pc, with_result, buffer, received, before>>
        /\ pc = "start"
    BY <1>6 DEF AwaitStart
  <2>2. PICK b \in Buffer : /\ buffer' = [b EXCEPT ![RESULT_SIZE] = "NUL"]
                            /\ before' = b
    BY <2>1 DEF StartReading
  <2>3. BufferSize' = RESULT_SIZE /\ received' = <<>>
    BY <2>1 DEF StartReading, BufferSize
  <2>4. b \in [1 .. RESULT_SIZE -> Contents] /\ RESULT_SIZE \in Nat
    BY PayloadAssumption, CommandAssumption DEF Contents
  <2>5. i \in 1 .. RESULT_SIZE /\ i # RESULT_SIZE
    BY <2>3, <2>4
  <2>6. QED
    BY <2>2, <2>4, <2>5
<1>7. CASE StartTimesOut \/ ReadReturns
  BY <1>7 DEF StartTimesOut, ReadReturns
<1>8. CASE ModemSendsCells \/ AnswerRequest \/ UNCHANGED readVars
  <2>1. UNCHANGED <<pc, with_result, buffer, received, call, before>>
    <3>1. CASE ModemSendsCells
      BY <3>1, ModemSends DEF ModemSendsCells, ReaderVars, callVars
    <3>2. CASE AnswerRequest \/ UNCHANGED readVars
      BY <3>2 DEF AnswerRequest, readVars, vars, history, callVars, past
    <3>3. QED
      BY <1>8, <3>1, <3>2
  <2>2. BufferSize' = BufferSize /\ OfRead
    BY <2>1 DEF BufferSize, OfRead
  <2>3. QED
    BY <2>1, <2>2 DEF BufferKept
<1>9. QED
  BY <1>1, <1>2, <1>3, <1>4, <1>5, <1>6, <1>7, <1>8, Steps
-----------------------------------------------------------------------------
(* What readResponse returns at the end of an undisturbed call.            *)
LEMMA PayloadFound ==
  ASSUME ReadingTypes, Written, Awaited, BufferKept, ReadCell, Undisturbed,
         payload' = payload, due' = due,
         Head(rx) = "NL", Places(Extended, "OK") # {},
         buffer' = Cut(Extended, "OK")
  PROVE  IF payload = NULL THEN Used
         ELSE /\ ~HoldsOk(before) => IsPrefix(CString(buffer'), payload)
              /\ (~Used /\ Unambiguous(payload)) => CString(buffer') = payload
<1> DEFINE n == Len(received) + 1
           N == BufferSize
<1>1. /\ pc = "read" /\ rx # <<>> /\ n \in 1 .. N
      /\ received' \in Seq(Cell) /\ Len(received') = n
      /\ received'[n] = Head(rx)
      /\ \A i \in 1 .. n - 1 : received'[i] = received[i]
      /\ Extended \in [1 .. N -> Contents]
      /\ Extended[n] = Head(rx)
      /\ \A i \in 1 .. N : i # n => Extended[i] = buffer[i]
  BY RoundOfLoop
<1>2. /\ N \in Nat /\ Len(received) \in Nat /\ n = Len(received) + 1
      /\ received \in Seq(Cell) /\ rx \in Seq(Cell)
  BY Sizes, LenProperties DEF ReadingTypes, ReadTypeOK
<1>3. /\ N = RESULT_SIZE /\ before \in [1 .. N -> Contents]
  BY <1>1, PayloadAssumption
     DEF ReadingTypes, Undisturbed, OfRead, BufferSize, Contents
<1>4. /\ \A i \in 1 .. Len(received) : buffer[i] = received[i]
      /\ buffer[N] = "NUL"
      /\ \A i \in Len(received) + 1 .. N - 1 : buffer[i] = before[i]
  BY <1>1 DEF Written, BufferKept, Undisturbed
<1> HIDE DEF n, N
<1>5. \A i \in n + 1 .. N - 1 : Extended[i] = before[i]
  <2>1. ASSUME NEW i \in n + 1 .. N - 1
        PROVE  Extended[i] = before[i]
    <3>1. /\ i \in 1 .. N /\ i # n
          /\ i \in Len(received) + 1 .. N - 1
      BY <1>1, <1>2
    <3>2. Extended[i] = buffer[i]
      BY <1>1, <3>1
    <3>3. QED
      BY <1>4, <3>1, <3>2
  <2>2. QED
    BY <2>1
<1>6. n # N => Extended[N] = "NUL"
  BY <1>1, <1>2, <1>4
<1>7. \A i \in 1 .. n : Extended[i] = received'[i]
  <2>1. ASSUME NEW i \in 1 .. n
        PROVE  Extended[i] = received'[i]
    <3>1. CASE i = n
      BY <1>1, <3>1
    <3>2. CASE i # n
      <4>1. /\ i \in 1 .. Len(received) /\ i \in 1 .. n - 1
            /\ i \in 1 .. N
        BY <1>1, <1>2, <3>2
      <4>2. QED
        BY <1>1, <1>4, <3>2, <4>1
    <3>3. QED
      BY <3>1, <3>2
  <2>2. QED
    BY <2>1
<1>8. CASE payload = NULL
  <2>1. PICK word \in {"OK", "ERROR"} : received \o rx = <<word, "NL">>
    BY <1>1, <1>8 DEF Awaited, BeingRead
  <2>2. /\ Len(received) + Len(rx) = 2 /\ Len(rx) \in Nat /\ Len(rx) >= 1
        /\ \A i \in 1 .. Len(received) : <<word, "NL">>[i] = received[i]
        /\ \A i \in 1 .. Len(rx) : <<word, "NL">>[Len(received) + i] = rx[i]
        /\ Head(rx) = rx[1]
    <3>1. Len(rx) \in Nat /\ Len(rx) >= 1 /\ Head(rx) = rx[1]
      BY <1>1, <1>2, RestOf
    <3>2. /\ Len(received \o rx) = Len(received) + Len(rx)
          /\ \A i \in 1 .. Len(received) : (received \o rx)[i] = received[i]
          /\ \A i \in 1 .. Len(rx) :
               (received \o rx)[Len(received) + i] = rx[i]
      BY <1>2, BothParts
    <3> DEFINE w == <<word, "NL">>
    <3>3. received \o rx = w /\ Len(w) = 2
      BY <2>1
    <3> HIDE DEF w
    <3>4. /\ 2 = Len(received) + Len(rx)
          /\ \A i \in 1 .. Len(received) : w[i] = received[i]
          /\ \A i \in 1 .. Len(rx) : w[Len(received) + i] = rx[i]
      BY <3>2, <3>3
    <3>5. QED
      BY <3>1, <3>4 DEF w
  <2>3. Len(received) # 0
    <3>1. SUFFICES ASSUME Len(received) = 0 PROVE FALSE
      OBVIOUS
    <3>2. 1 \in 1 .. Len(rx) /\ Len(received) + 1 = 1
      BY <2>2, <3>1
    <3>3. rx[1] = <<word, "NL">>[1]
      BY <2>2, <3>2
    <3>4. QED
      BY <2>2, <3>3
  <2>4. n = 2 /\ 1 \in 1 .. Len(received)
    BY <1>2, <2>2, <2>3
  <2>5. Extended[1] = word
    <3>1. received[1] = word
      BY <2>2, <2>4
    <3>2. received'[1] = received[1]
      BY <1>1, <2>4
    <3>3. QED
      BY <1>7, <2>4, <3>1, <3>2
  <2>6. PICK k \in Places(Extended, "OK") : TRUE
    OBVIOUS
  <2>7. /\ k \in 1 .. N - 2
        /\ Extended[k] = "NL" /\ Extended[k + 1] = "OK"
    <3>1. k \in 1 .. N - 2 /\ EndAt(Extended, k, "OK")
      <4>1. N \in Nat /\ Extended \in [1 .. N -> Contents]
        BY <1>1, <1>2
      <4> HIDE DEF Extended
      <4>2. QED
        BY <2>6, <4>1, PlacesOf
    <3>2. QED
      BY <3>1 DEF EndAt
  <2>8. k # 1
    BY <2>5, <2>7
  <2>9. k + 1 \in n + 1 .. N - 1 /\ k + 1 \in 1 .. N
    BY <1>2, <2>4, <2>7, <2>8
  <2>10. before[k + 1] = "OK"
    BY <1>5, <2>7, <2>9
  <2>11. before # Zeros(RESULT_SIZE)
    <3>1. SUFFICES ASSUME before = Zeros(RESULT_SIZE) PROVE FALSE
      OBVIOUS
    <3>2. before[k + 1] = "NUL"
      BY <1>3, <2>9, <3>1 DEF Zeros
    <3>3. QED
      BY <2>10, <3>2
  <2>12. QED
    BY <1>8, <2>11 DEF Used
<1>9. CASE payload # NULL
  <2> DEFINE t == payload \o End("OK")
             s == received \o (rx \o due)
  <2>1. payload \in Seq(Cell)
    BY <1>9, PayloadAssumption DEF ReadingTypes, ReadTypeOK
  <2>2. Len(t) = Len(payload) + 3 /\ Len(payload) \in Nat
    BY <2>1, WithOk
  <2>3. HasAt(s, 0, t)
    BY <1>1, <1>9 DEF Awaited, BeingRead
  <2>4. /\ received' \o (rx' \o due') = s
        /\ rx' \o due' \in Seq(Cell)
    BY ReadCellSame
  <2>5. \A i \in 1 .. n : (received' \o (rx' \o due'))[i] = received'[i]
    BY <1>1, <2>4, BothParts
  <2> HIDE DEF s, t
  <2>6. \A i \in 1 .. n : s[i] = received'[i]
    BY <2>4, <2>5
  <2>7. \A i \in 1 .. Len(t) : s[i] = t[i]
    <3>1. \A i \in 1 .. Len(t) : s[0 + i] = t[i]
      BY <2>3 DEF HasAt
    <3>2. \A i \in 1 .. Len(t) : 0 + i = i
      OBVIOUS
    <3>3. QED
      BY <3>1, <3>2
  <2>8. \A i \in 1 .. n : i <= Len(payload) + 3 => Extended[i] = t[i]
    <3>1. ASSUME NEW i \in 1 .. n, i <= Len(payload) + 3
          PROVE  Extended[i] = t[i]
      <4>1. i \in 1 .. Len(t)
        BY <1>1, <1>2, <2>2, <3>1
      <4>2. QED
        BY <1>7, <2>6, <2>7, <4>1
    <3>2. QED
      BY <3>1
  <2>9. /\ ~HoldsOk(before) => IsPrefix(CString(buffer'), payload)
        /\ (before = Zeros(N) /\ Unambiguous(payload))
             => CString(buffer') = payload
    <3>1. Extended[n] = "NL"
      BY <1>1
    <3>2. \A i \in 1 .. n : i <= Len(payload) + 3
                              => Extended[i] = (payload \o End("OK"))[i]
      BY <2>8 DEF t
    <3>3. /\ N \in Nat /\ n \in 1 .. N
          /\ before \in [1 .. N -> Contents]
          /\ Extended \in [1 .. N -> Contents]
      BY <1>1, <1>2, <1>3
    <3> HIDE DEF Extended
    <3>4. LET c == CString(Cut(Extended, "OK"))
          IN  /\ ~HoldsOk(before) => IsPrefix(c, payload)
              /\ (before = Zeros(N) /\ Unambiguous(payload)) => c = payload
      BY <1>5, <1>6, <2>1, <3>1, <3>2, <3>3, PayloadCut
    <3>5. QED
      BY <3>4
  <2>10. QED
    BY <1>3, <1>9, <2>9 DEF Used
<1>10. QED
  BY <1>8, <1>9

LEMMA PayloadStep ==
  ASSUME ReadingTypes, Written, Awaited, BufferKept, PayloadIsReturned,
         [ReadNext]_readVars
  PROVE  PayloadIsReturned'
<1> SUFFICES ASSUME pc' = "check", OfRead', response' = "OK",
                    ~overread', ~late', ~mixed'
             PROVE  (IF payload = NULL THEN Used
                     ELSE /\ ~HoldsOk(before) =>
                               IsPrefix(CString(buffer), payload)
                          /\ (~Used /\ Unambiguous(payload)) =>
                               CString(buffer) = payload)'
  BY DEF PayloadIsReturned, Finished, OfRead
<1>1. CASE CommandBegins \/ CommandGoesOn
  BY <1>1 DEF CommandBegins, Call, CommandGoesOn, callVars, OfCommand, OfRead
<1>2. CASE ReadsOn
  <2>1. ReadCell
    BY <1>2 DEF ReadsOn, TimeOut, Respond
  <2>2. UNCHANGED <<call, late, mixed, payload, before, due>>
    BY <1>2 DEF ReadsOn, callVars, request, past
  <2>3. Undisturbed
    BY <2>2 DEF Undisturbed, OfRead
  <2>4. pc = "read"
    BY <2>1, RoundOfLoop
  <2>5. /\ Head(rx) = "NL" /\ Places(Extended, "OK") # {}
        /\ buffer' = Cut(Extended, "OK")
    BY <2>1, <2>4, EndOfRound
  <2>6. IF payload = NULL THEN Used
        ELSE /\ ~HoldsOk(before) => IsPrefix(CString(buffer'), payload)
             /\ (~Used /\ Unambiguous(payload)) => CString(buffer') = payload
    BY <2>1, <2>2, <2>3, <2>5, PayloadFound
  <2>7. QED
    BY <2>2, <2>6 DEF Used
<1>3. CASE BodyGivenUp
  BY <1>3 DEF BodyGivenUp, OfRead
<1>4. CASE AsksForBody \/ ReadMessage
  BY <1>4 DEF AsksForBody, ReadMessage, Ask
<1>5. CASE AwaitStart \/ StartTimesOut \/ ReadReturns
  BY <1>5 DEF AwaitStart, StartReading, StartTimesOut, ReadReturns
<1>6. CASE ModemSendsCells \/ AnswerRequest \/ UNCHANGED readVars
  <2>1. UNCHANGED <<pc, buffer, response, overread, call, late, before>>
    <3>1. CASE ModemSendsCells
      BY <3>1, ModemSends DEF ModemSendsCells, ReaderVars, callVars
    <3>2. CASE AnswerRequest \/ UNCHANGED readVars
      BY <3>2 DEF AnswerRequest, readVars, vars, history, callVars, past
    <3>3. QED
      BY <1>6, <3>1, <3>2
  <2>2. payload' = payload /\ ~mixed
    <3>1. CASE SendLine
      BY <3>1, Zenon DEF SendLine
    <3>2. CASE SendPiece \/ RefuseRequest \/ UNCHANGED readVars
      BY <3>2 DEF SendPiece, RefuseRequest, readVars, past
    <3>3. CASE AnswerRequest
      <4>1. pc # "start"
        BY <2>1
      <4>2. QED
        BY <3>3, <4>1 DEF AnswerRequest
    <3>4. QED
      BY <1>6, <3>1, <3>2, <3>3 DEF ModemSendsCells
  <2>3. /\ pc = "check" /\ OfRead /\ response = "OK"
        /\ ~overread /\ ~late /\ ~mixed
    BY <2>1, <2>2 DEF OfRead
  <2>4. IF payload = NULL THEN Used
        ELSE /\ ~HoldsOk(before) => IsPrefix(CString(buffer), payload)
             /\ (~Used /\ Unambiguous(payload)) => CString(buffer) = payload
    BY <2>3 DEF PayloadIsReturned, Finished, OfRead
  <2>5. QED
    BY <2>1, <2>2, <2>4 DEF Used
<1>7. QED
  BY <1>1, <1>2, <1>3, <1>4, <1>5, <1>6, Steps

(* What readBody() and readMessage() hand out is the beginning of what the *)
(* modem has sent for this call, and all of it if the buffer was empty, it *)
(* fits and nothing in it looks like an end: for every size of the buffer, *)
(* whatever it held before, in whatever pieces the answer comes.           *)
THEOREM PayloadIsReturnedTheorem == ReadSpec => []PayloadIsReturned
<1> DEFINE IInv == /\ ReadingTypes /\ Written /\ Awaited
                   /\ BufferKept /\ PayloadIsReturned
<1>1. ReadInit => IInv
  <2>1. SUFFICES ASSUME ReadInit
                 PROVE  /\ Written /\ Awaited /\ BufferKept
                        /\ PayloadIsReturned
    BY InitReadingTypes
  <2>2. pc = "idle"
    BY <2>1 DEF ReadInit, Init
  <2>3. Written /\ BufferKept /\ PayloadIsReturned
    BY <2>2 DEF Written, BufferKept, PayloadIsReturned, Finished
  <2>4. Awaited
    BY <2>2 DEF Awaited, NothingYet, Coming, BeingRead
  <2>5. QED
    BY <2>3, <2>4
<1>2. IInv /\ [ReadNext]_readVars => IInv'
  BY ReadNextTypes, WrittenStep, AwaitedStep, BufferKeptStep, PayloadStep
<1>3. QED
  BY <1>1, <1>2, PTL DEF ReadSpec
=============================================================================

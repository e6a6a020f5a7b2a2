----------------------------- MODULE UrcStream -----------------------------
(***************************************************************************)
(* The URC parser alone, fed every stream of bytes, and what the callbacks *)
(* are promised: a callback is called for a URC of its identifier with     *)
(* exactly the data of it, and every URC that starts a line is delivered.  *)
(*                                                                         *)
(* A URC is at most IDENTIFIER_SIZE + DATA_SIZE + 3 bytes long.  So of the *)
(* stream only the end is kept: from three bytes before the first byte on  *)
(* that a URC not yet over may have started with.  That makes the state    *)
(* finite although the stream has no end.                                  *)
(***************************************************************************)
EXTENDS UrcParser

ASSUME LineAssumption == "LF" \in Byte

VARIABLES
  stream,   \* the end of the bytes received so far
  call      \* the call made for the newest of them

vars == <<parser, stream, call>>

NoCall == [callback |-> NULL, data |-> <<>>]

(* The text s is the start of a URC of slot i, or all of it:               *)
(*   + identifier end data terminator.                                     *)
DataFrom(s, i) == SubSeq(s, Len(urcs[i].identifier) + 3, Len(s) - 1)

BeginsUrc(s, i) ==
  LET name == urcs[i].identifier
      l == Len(name)
  IN  /\ 1 \in DOMAIN s => s[1] = "+"
      /\ \A k \in 1 .. l : k + 1 \in DOMAIN s => s[k + 1] = name[k]
      /\ l + 2 \in DOMAIN s => EndsIdentifier(s[l + 2])
      /\ \A k \in l + 3 .. Len(s) - 1 : ~EndsData(s[k])
      /\ Len(DataFrom(s, i)) <= DATA_SIZE

IsUrc(s, i) ==
  /\ Len(s) >= Len(urcs[i].identifier) + 3
  /\ BeginsUrc(s, i)
  /\ EndsData(s[Len(s)])

From(s, m) == SubSeq(s, m, Len(s))

Recent(s) ==
  LET starts == {m \in 1 .. Len(s) + 1 :
                   \E i \in Slot : BeginsUrc(From(s, m), i)}
      first == CHOOSE m \in starts : \A n \in starts : m <= n
  IN  From(s, IF first > 3 THEN first - 3 ELSE 1)

(* The first byte starts a line.                                           *)
Init == ParserInit /\ stream = <<"CR", "LF">> /\ call = NoCall

ReceiveByte(b) ==
  /\ stream' = Recent(Append(stream, b))
  /\ Parse(b)
  /\ call' = IF Called(b) = NULL THEN NoCall
             ELSE [callback |-> Called(b), data |-> urc_data_buffer]

Next == \E b \in Byte : ReceiveByte(b)
Spec == Init /\ [][Next]_vars
-----------------------------------------------------------------------------
TypeOK ==
  /\ ParserTypeOK
  /\ stream \in Seq(Byte)
  /\ call.callback \in Callback /\ call.data \in Seq(Byte)

(* The interrupt calls a callback only at the end of a URC with the        *)
(* identifier it was registered for, and hands it all of that URC's data   *)
(* and nothing else: no byte of an earlier URC whose parsing was given up  *)
(* is left in the buffer, and an identifier that extends or is a prefix of *)
(* a registered one does not match.                                        *)
CallsAreUrcs ==
  call # NoCall =>
    \E i \in Slot, m \in DOMAIN stream :
      /\ IsUrc(From(stream, m), i)
      /\ call = [callback |-> urcs[i].callback,
                 data |-> DataFrom(From(stream, m), i)]

(* Position m starts a line: CR LF came before it, where a + directly      *)
(* before the CR would make the parser take the CR for the start of an     *)
(* identifier.                                                             *)
StartsLine(m) ==
  /\ m > 2
  /\ stream[m - 2] = "CR" /\ stream[m - 1] = "LF"
  /\ m > 3 => stream[m - 3] # "+"

(* What the identifiers with a callback have to be like: a byte at least,  *)
(* not too long for the buffer, no digit first and no end in them, and no  *)
(* two slots for the same one.                                             *)
Receivable ==
  \A i \in Slot : urcs[i].callback # NULL =>
    LET name == urcs[i].identifier
    IN  /\ Len(name) \in 1 .. IDENTIFIER_SIZE
        /\ name[1] \notin Digit
        /\ \A k \in 1 .. Len(name) : ~EndsIdentifier(name[k])
        /\ \A j \in Slot : urcs[j].identifier = name => j = i

(* Whatever came before (half a URC, a response, an identifier or data too *)
(* long for the buffers), a URC on a line of its own is delivered.         *)
LinesAreDelivered ==
  \A i \in Slot, m \in DOMAIN stream :
    (/\ urcs[i].callback # NULL
     /\ StartsLine(m)
     /\ IsUrc(From(stream, m), i)) =>
        call = [callback |-> urcs[i].callback,
                data |-> DataFrom(From(stream, m), i)]
=============================================================================

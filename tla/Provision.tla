----------------------------- MODULE Provision ------------------------------
(***************************************************************************)
(* ECC608: the provisioning items in slot 8 of the secure element, as      *)
(* writeProvisionData() writes and readProvisionItem() finds them          *)
(* (ecc608.cpp).  The items are a list, each behind a header with its type *)
(* and the offset of the next; an EMPTY header ends it.  The slot is       *)
(* written block by block, and after each of them the power may go, the    *)
(* element may return an error, or it may not have done what it confirms.  *)
(*                                                                         *)
(* A cell stands for two bytes.  All cells have the form of a header,      *)
(* since a reader led astray takes any cell for one.  A header that lies   *)
(* across two blocks needs no cells of its own: its type is in its second  *)
(* byte, so that with only its first byte written it is EMPTY.             *)
(***************************************************************************)
EXTENDS Naturals, Sequences

CONSTANTS
  Type, EMPTY,
  Cell,             \* all cells in use, headers and data
  Zero,             \* the cell of a slot that has been cleared
  Blank,            \* the cell of a slot that has never been written
  ItemList,         \* what may be provisioned
  Size,             \* sizes of the buffers of readers
  BLOCK_SIZE, SLOT_BLOCKS,
  MaxFaults,        \* so many blocks are confirmed and not written
  NULL

SLOT_SIZE == BLOCK_SIZE * SLOT_BLOCKS
Header == [type : Nat, next : Nat]

ASSUME SlotAssumption == BLOCK_SIZE \in Nat \ {0} /\ SLOT_BLOCKS \in Nat \ {0}
ASSUME CellAssumption ==
  /\ Type \subseteq Nat /\ EMPTY \in Nat \ Type /\ NULL \notin Nat
  /\ Cell \subseteq Header /\ {Zero, Blank} \subseteq Header
  /\ Zero.type = EMPTY /\ Blank.next >= SLOT_SIZE /\ Blank.type \notin Type
(* One item of each type, as readProvisionItem() assumes (ecc608.h:59).    *)
ASSUME ItemAssumption ==
  /\ ItemList \subseteq Seq([type : Type, data : Seq(Cell)])
  /\ \A l \in ItemList : \A i, j \in DOMAIN l :
       l[i].type = l[j].type => i = j
  /\ Size \subseteq Nat /\ MaxFaults \in Nat

VARIABLES
  slot,
  pc,
  items, payload,   \* of writeProvisionData()
  i,                \* the block written or the item verified next
  offset, type, size,   \* of readProvisionItem()
  status,           \* what the last call returned
  buffer,           \* what the last read put into its buffer, or NULL
  newest,       \* history: the items last written, completely or in part
  torn,         \* history: that write has not returned success
  padded,       \* history: it has garbage behind the last item
  uncleared,    \* history: a block was not cleared although confirmed
  faults        \* history: the number of blocks not written as confirmed

write == <<items, payload, i>>
read == <<offset, type, size, buffer>>
history == <<newest, torn, padded, uncleared>>
vars == <<slot, pc, write, read, status, history, faults>>

TypeOK ==
  /\ slot \in [0 .. SLOT_SIZE - 1 -> Header]
  /\ pc \in {"idle", "clear", "write", "verify", "read", "verify_read"}
  /\ items \in ItemList /\ newest \in ItemList \union {<<>>}
  /\ \E n \in 0 .. SLOT_BLOCKS :
       payload \in [0 .. n * BLOCK_SIZE - 1 -> Header]
  /\ i \in Nat /\ offset \in Nat /\ size \in Nat
  /\ type \in Type \union {NULL}
  /\ status \in {"success", "invalid_id", "small_buffer", "invalid_size",
                 "assert_failure", "failure"}
  /\ buffer = NULL \/ \A j \in DOMAIN buffer : buffer[j] \in Header
  /\ torn \in BOOLEAN /\ padded \in BOOLEAN /\ uncleared \in BOOLEAN
  /\ faults \in 0 .. MaxFaults

Init ==
  /\ \E c \in {Zero, Blank} : slot = [o \in 0 .. SLOT_SIZE - 1 |-> c]
  /\ pc = "idle"
  /\ items \in {l \in ItemList : l = <<>>} /\ newest = <<>>
  /\ payload = [o \in {} |-> Zero]
  /\ i = 0 /\ offset = 0 /\ size = 0
  /\ type = NULL /\ buffer = NULL
  /\ status = "success"
  /\ torn = FALSE /\ padded = FALSE /\ uncleared = FALSE
  /\ faults = 0
-----------------------------------------------------------------------------
(* Start(l)[k] is the offset of item k, and of the end behind the last.    *)
Start(l) ==
  LET start[k \in 1 .. Len(l) + 1] ==
        IF k = 1 THEN 0 ELSE start[k - 1] + 1 + Len(l[k - 1].data)
  IN  start

(* The size of the payload: whole blocks.                                  *)
PayloadSize(l) ==
  LET end == Start(l)[Len(l) + 1]
  IN  ((end + BLOCK_SIZE - 1) \div BLOCK_SIZE) * BLOCK_SIZE

(* The items one after the other, and behind them what was on the stack.   *)
Payload(l, padding) ==
  LET start == Start(l)
  IN  [o \in 0 .. PayloadSize(l) - 1 |->
         IF o >= start[Len(l) + 1] THEN padding
         ELSE LET k == CHOOSE j \in DOMAIN l :
                         start[j] <= o /\ o < start[j + 1]
              IN  IF o = start[k]
                  THEN [type |-> l[k].type, next |-> start[k + 1]]
                  ELSE l[k].data[o - start[k]]]

(* A block of the slot is written, or only confirmed.                      *)
WriteBlock(b, contents) ==
  \/ /\ slot' = [o \in DOMAIN slot |->
                   IF o \div BLOCK_SIZE = b THEN contents[o] ELSE slot[o]]
     /\ UNCHANGED faults
  \/ /\ faults < MaxFaults
     /\ faults' = faults + 1
     /\ UNCHANGED slot

Return(s) == pc' = "idle" /\ status' = s
-----------------------------------------------------------------------------
(* writeProvisionData()                                                    *)
WriteProvisionData ==
  /\ pc = "idle"
  /\ items' \in ItemList
  /\ pc' = "clear"
  /\ i' = 0
  /\ buffer' = NULL
  /\ UNCHANGED <<slot, payload, offset, type, size, status, history, faults>>

(* Mutant: only the blocks that the items need are cleared.                *)
BlocksToClear_Needed == PayloadSize(items) \div BLOCK_SIZE
BlocksToClear == SLOT_BLOCKS

(* The slot is cleared, "in case there is an edge case" where old items    *)
(* come to be in line with the new ones.                                   *)
ClearBlock ==
  /\ pc = "clear" /\ i < BlocksToClear
  /\ WriteBlock(i, [o \in DOMAIN slot |-> Zero])
  /\ i' = i + 1
  /\ newest' = items /\ torn' = TRUE
  /\ padded' = (padded /\ i > 0)
  /\ uncleared' = ((uncleared /\ i > 0) \/ faults' # faults)
  /\ UNCHANGED <<pc, items, payload, read, status>>

Fits(l) == PayloadSize(l) <= SLOT_SIZE

(* Only then are the sizes added up.                                       *)
Cleared ==
  /\ pc = "clear" /\ i = BlocksToClear
  /\ IF ~Fits(items)
     THEN Return("invalid_size") /\ UNCHANGED <<i, payload, padded>>
     ELSE /\ pc' = "write" /\ i' = 0
          /\ UNCHANGED status
          /\ \E padding \in Cell \union {Zero} :
               /\ payload' = Payload(items, padding)
               /\ padded' = (padding # Zero /\ PayloadSize(items)
                                               > Start(items)[Len(items) + 1])
  /\ UNCHANGED <<slot, items, read, newest, torn, uncleared, faults>>

WritePayload ==
  /\ pc = "write" /\ i * BLOCK_SIZE \in DOMAIN payload
  /\ WriteBlock(i, [o \in DOMAIN slot |-> IF o \in DOMAIN payload
                                          THEN payload[o] ELSE slot[o]])
  /\ i' = i + 1
  /\ UNCHANGED <<pc, items, payload, read, status, history>>

Written ==
  /\ pc = "write" /\ i * BLOCK_SIZE \notin DOMAIN payload
  /\ pc' = "verify" /\ i' = 1
  /\ UNCHANGED <<slot, items, payload, read, status, history, faults>>

(* Mutant: the last item is not verified.                                  *)
Unverified_NotLast == i < Len(items)
Unverified == i <= Len(items)

(* Each item is read back.                                                 *)
Verify ==
  /\ pc = "verify"
  /\ IF Unverified
     THEN /\ pc' = "verify_read"
          /\ type' = items[i].type /\ size' = Len(items[i].data) + 1
          /\ offset' = 0 /\ buffer' = NULL
          /\ UNCHANGED <<status, torn>>
     ELSE Return("success") /\ torn' = FALSE
            /\ UNCHANGED <<type, size, offset, buffer>>
  /\ UNCHANGED <<slot, write, newest, padded, uncleared, faults>>
-----------------------------------------------------------------------------
(* readProvisionItem()                                                     *)
ReadProvisionItem ==
  /\ pc = "idle"
  /\ pc' = "read"
  /\ type' \in Type /\ size' \in Size
  /\ offset' = 0 /\ buffer' = NULL
  /\ UNCHANGED <<slot, write, status, history, faults>>

(* A read is over: so is the call, or the verification of an item.         *)
ReadEnds(s, data) ==
  /\ buffer' = data
  /\ IF pc = "read" THEN Return(s) /\ UNCHANGED i
     ELSE IF s # "success" THEN Return(s) /\ UNCHANGED i
     ELSE IF data = items[i].data
     THEN pc' = "verify" /\ i' = i + 1 /\ UNCHANGED status
     ELSE Return("assert_failure") /\ UNCHANGED i
  /\ UNCHANGED offset

Reading == pc \in {"read", "verify_read"}

(* Mutant: an EMPTY header does not end the list.                          *)
EndsList_NotByEmpty(header) == header.next + 1 > SLOT_SIZE
(* Mutant: a header in the last cell is not looked at.                     *)
EndsList_Early(header) == header.type = EMPTY \/ header.next + 1 >= SLOT_SIZE
EndsList(header) == header.type = EMPTY \/ header.next + 1 > SLOT_SIZE

(* A turn of the loop.  An item that ends before it begins is one of a     *)
(* size that no buffer has, and reading beyond the slot is refused.        *)
ReadHeader ==
  /\ Reading
  /\ LET header == slot[offset]
         data_size == header.next - offset - 1
     IN  IF header.type = type
         THEN IF header.next <= offset
              THEN ReadEnds("failure", NULL)
              ELSE IF data_size + 1 > size
              THEN ReadEnds("small_buffer", NULL)
              ELSE IF header.next > SLOT_SIZE
              THEN ReadEnds("failure", NULL)
              ELSE ReadEnds("success", [j \in 1 .. data_size |->
                                          slot[offset + j]])
         ELSE IF EndsList(header)
         THEN ReadEnds("invalid_id", NULL)
         ELSE offset' = header.next /\ UNCHANGED <<pc, i, status, buffer>>
  /\ UNCHANGED <<slot, items, payload, type, size, history, faults>>

(* The element returns an error or the power goes: nothing is undone.      *)
Abort ==
  /\ pc # "idle"
  /\ Return("failure")
  /\ buffer' = NULL
  /\ UNCHANGED <<slot, write, offset, type, size, history, faults>>

Next ==
  \/ WriteProvisionData \/ ClearBlock \/ Cleared \/ WritePayload \/ Written
  \/ Verify \/ ReadProvisionItem \/ ReadHeader \/ Abort
Spec == Init /\ [][Next]_vars /\ WF_vars(ReadHeader)
-----------------------------------------------------------------------------
(* The offsets a list starting at offset 0 leads to: those in every set    *)
(* with offset 0 and whatever the headers in it lead to.                   *)
Closed(S) ==
  /\ 0 \in S
  /\ \A o \in S : (slot[o].type # EMPTY /\ slot[o].next \in DOMAIN slot) =>
                   slot[o].next \in S
Reached ==
  {o \in DOMAIN slot : \A S \in SUBSET DOMAIN slot : Closed(S) => o \in S}

Holds(o, item) ==
  /\ slot[o].type = item.type
  /\ slot[o].next = o + 1 + Len(item.data)
  /\ slot[o].next <= SLOT_SIZE
  /\ \A j \in DOMAIN item.data : slot[o + j] = item.data[j]

(* When writeProvisionData() returns success, every item is in the list in *)
(* the slot with its data, even if the element has confirmed writes that   *)
(* it has not carried out.                                                 *)
SuccessMeansStored ==
  ~torn => \A k \in DOMAIN newest : \E o \in Reached : Holds(o, newest[k])

UserRead == pc = "idle" /\ type # NULL /\ buffer # NULL /\ status = "success"
Ordinary == ~padded /\ ~uncleared

(* A reader gets what was last provisioned under that type.  If that write *)
(* was cut short, the reader may get it with its end missing (it is then   *)
(* all zeros, and nothing tells), but never what an earlier one had        *)
(* written.  Two things are excepted: the bytes behind the last item,      *)
(* which are whatever was on the stack, may look like an item; and a block *)
(* may still hold an old item when the element only confirmed to clear it, *)
(* which is not verified.                                                  *)
ReadIsNewest ==
  (UserRead /\ Ordinary) =>
    \E k \in DOMAIN newest :
      /\ newest[k].type = type
      /\ Len(buffer) = Len(newest[k].data)
      /\ \A j \in DOMAIN buffer :
           buffer[j] = newest[k].data[j] \/ (torn /\ buffer[j] = Zero)

(* A reader that says there is no such item is right: none is in the list, *)
(* not even one whose header is the last cell of the slot.                 *)
NotFoundIsAbsent ==
  (pc = "idle" /\ type # NULL /\ status = "invalid_id") =>
    \A o \in Reached : slot[o].type # type

(* readProvisionItem() ends: the list has no way back, with the same two   *)
(* exceptions.                                                             *)
ReadReturns == (Reading /\ Ordinary) ~> ~Reading
=============================================================================

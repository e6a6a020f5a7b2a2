--------------------------- MODULE ProvisionProofs ---------------------------
(***************************************************************************)
(* The provisioning items in the secure element, for every list of items,  *)
(* slot, size of its blocks and number of blocks confirmed and not         *)
(* written: what writeProvisionData() confirms is stored, and a reader     *)
(* gets an item that was written last, or is right that there is none.     *)
(***************************************************************************)
EXTENDS Provision, SequenceTheorems, WellFoundedInduction, TLAPS

(* A cell of f is a part of the items l as the payload lays them out: of   *)
(* the header of item k or of its data.                                    *)
IsOfItem(cell, o, l, k) ==
  LET start == Start(l)
  IN  \/ /\ o = start[k]
         /\ cell = [type |-> l[k].type, next |-> start[k + 1]]
      \/ /\ start[k] < o /\ o < start[k + 1]
         /\ cell = l[k].data[o - start[k]]
IsPartOf(f, l) ==
  \A o \in DOMAIN f : f[o] = Zero \/ \E k \in DOMAIN l : IsOfItem(f[o], o, l, k)
-----------------------------------------------------------------------------
Verifying == pc \in {"verify", "verify_read"}

ProvisionTypes ==
  /\ TypeOK
  /\ pc = "clear" => i <= SLOT_BLOCKS
  /\ Verifying => i \in 1 .. Len(items) + 1
  /\ pc = "verify_read" => i <= Len(items) /\ type = items[i].type
  /\ Reading => type \in Type /\ offset \in DOMAIN slot

(* From the first block on that is cleared, the items being written count  *)
(* as the newest, and as torn until all of them are verified.              *)
Replaced ==
  /\ (pc = "clear" /\ i > 0) \/ pc = "write" \/ Verifying =>
       torn /\ newest = items
  /\ pc = "clear" /\ i > 0 => ~padded

Verified ==
  Verifying =>
    \A k \in 1 .. i - 1 : \E o \in Reached : Holds(o, items[k])

(* A reader is in the list, and what it has passed is all of the list up   *)
(* to there, without an item of its type.                                  *)
Passed(V) ==
  /\ 0 \in V \union {offset}
  /\ \A v \in V :
       /\ slot[v].type # type
       /\ (slot[v].type # EMPTY /\ slot[v].next \in DOMAIN slot) =>
            slot[v].next \in V \union {offset}
Walking ==
  Reading => /\ offset \in Reached
             /\ \E V \in SUBSET DOMAIN slot : Passed(V)

(* What the buffer holds was read.                                         *)
BufferRead ==
  /\ pc \in {"clear", "write"} \/ Reading => buffer = NULL
  /\ pc = "verify" /\ buffer # NULL =>
       i > 1 /\ type = items[i - 1].type /\ buffer = items[i - 1].data

(* With the two exceptions aside the slot has been cleared up to where the *)
(* list begins, or has only parts of the newest items in it, or has never  *)
(* been written.                                                           *)
SlotKnown ==
  Ordinary =>
    /\ \/ torn /\ slot[0] = Zero
       \/ IsPartOf(slot, newest)
       \/ newest = <<>> /\ \A o \in DOMAIN slot : slot[o] = Blank
    /\ pc = "clear" =>
         \A o \in DOMAIN slot : o \div BLOCK_SIZE < i => slot[o] = Zero
    /\ pc = "write" => IsPartOf(slot, items) /\ IsPartOf(payload, items)
    /\ Verifying => IsPartOf(slot, items)

ProvisionInvariant ==
  /\ ProvisionTypes /\ Replaced /\ Verified /\ Walking /\ BufferRead
  /\ SlotKnown
  /\ SuccessMeansStored /\ NotFoundIsAbsent /\ ReadIsNewest
-----------------------------------------------------------------------------
LEMMA LeastOf ==
  ASSUME NEW S \in SUBSET Nat, S # {}
  PROVE  \E n \in S : \A m \in S : n <= m
<1> DEFINE R == OpToRel(<, Nat)
<1>1. IsWellFoundedOn(R, Nat)
  BY NatLessThanWellFounded
<1>2. PICK n \in S : \A m \in S : <<m, n>> \notin R
  BY <1>1, WFMin, Zenon
<1>3. ASSUME NEW m \in S PROVE n <= m
  <2>1. SUFFICES ASSUME ~(n <= m) PROVE FALSE
    OBVIOUS
  <2>2. n \in Nat /\ m \in Nat /\ m < n
    BY <2>1
  <2>3. <<m, n>> \in R
    BY <2>2 DEF OpToRel
  <2>4. QED
    BY <1>2, <2>3
<1>4. QED
  BY <1>3

Items == Seq([type : Type, data : Seq(Cell)])

(* The sum of the sizes before an item is a function that exists: so far   *)
(* as it is defined it can be defined for one item more.                   *)
LEMMA StartExists ==
  ASSUME NEW l \in Items
  PROVE  \E g \in [1 .. Len(l) + 1 -> Nat] :
           g = [k \in 1 .. Len(l) + 1 |->
                  IF k = 1 THEN 0 ELSE g[k - 1] + 1 + Len(l[k - 1].data)]
<1> DEFINE N == Len(l) + 1
           value(g, k) == IF k = 1 THEN 0 ELSE g[k - 1] + 1 + Len(l[k - 1].data)
           UpTo(n, g) == \A k \in 1 .. n : g[k] = value(g, k)
           Bad == {n \in 1 .. N : ~\E g \in [1 .. N -> Nat] : UpTo(n, g)}
<1>1. N \in Nat /\ N >= 1
  BY LenProperties DEF Items
<1>2. \A k \in 2 .. N : Len(l[k - 1].data) \in Nat
  <2>1. ASSUME NEW k \in 2 .. N PROVE Len(l[k - 1].data) \in Nat
    <3>1. k - 1 \in 1 .. Len(l)
      BY <1>1
    <3>2. l[k - 1] \in [type : Type, data : Seq(Cell)]
      BY <3>1, ElementOfSeq DEF Items
    <3>3. QED
      BY <3>2, LenProperties
  <2>2. QED
    BY <2>1
<1> HIDE DEF N
<1>3. Bad = {}
  <2>1. SUFFICES ASSUME Bad # {} PROVE FALSE
    OBVIOUS
  <2>2. PICK n \in Bad : \A m \in Bad : n <= m
    <3>1. Bad \in SUBSET Nat
      BY <1>1
    <3>2. QED
      BY <2>1, <3>1, LeastOf
  <2>3. CASE n = 1
    <3> DEFINE g == [k \in 1 .. N |-> 0]
    <3>1. g \in [1 .. N -> Nat] /\ UpTo(1, g)
      BY <1>1
    <3>2. QED
      BY <2>2, <2>3, <3>1
  <2>4. CASE n # 1
    <3>1. n \in 2 .. N /\ n - 1 \in 1 .. N /\ n - 1 \notin Bad
      <4>1. n \in 1 .. N
        BY <2>2
      <4>2. n \in 2 .. N /\ n - 1 \in 1 .. N /\ ~(n <= n - 1)
        BY <1>1, <2>4, <4>1
      <4> HIDE DEF Bad
      <4>3. QED
        BY <2>2, <4>2
    <3>2. PICK g \in [1 .. N -> Nat] : UpTo(n - 1, g)
      BY <3>1
    <3> DEFINE h == [g EXCEPT ![n] = g[n - 1] + 1 + Len(l[n - 1].data)]
    <3>3. h \in [1 .. N -> Nat]
      <4> DEFINE size_of == Len(l[n - 1].data)
      <4>1. size_of \in Nat
        BY <1>2, <3>1
      <4>2. g[n - 1] \in Nat
        BY <3>1
      <4> HIDE DEF size_of
      <4>3. g[n - 1] + 1 + size_of \in Nat
        BY <4>1, <4>2
      <4>4. [g EXCEPT ![n] = g[n - 1] + 1 + size_of] \in [1 .. N -> Nat]
        BY <4>3
      <4>5. QED
        BY <4>4 DEF size_of
    <3>4. /\ h[n] = g[n - 1] + 1 + Len(l[n - 1].data)
          /\ \A k \in 1 .. n - 1 : h[k] = g[k]
      BY <1>1, <3>1
    <3>5. ASSUME NEW k \in 1 .. n PROVE h[k] = value(h, k)
      <4>1. CASE k = n
        BY <3>1, <3>4, <4>1
      <4>2. CASE k = 1
        BY <3>1, <3>2, <3>4, <4>2
      <4>3. CASE k # n /\ k # 1
        <5>1. k \in 1 .. n - 1 /\ k - 1 \in 1 .. n - 1
          BY <3>1, <4>3
        <5>2. QED
          BY <3>2, <3>4, <4>3, <5>1
      <4>4. QED
        BY <4>1, <4>2, <4>3
    <3>6. UpTo(n, h)
      BY <3>5
    <3>7. QED
      BY <2>2, <3>3, <3>6
  <2>5. QED
    BY <2>3, <2>4
<1>4. N \in 1 .. N
  BY <1>1
<1>5. PICK g \in [1 .. N -> Nat] : UpTo(N, g)
  BY <1>3, <1>4
<1>6. g = [k \in 1 .. N |-> value(g, k)]
  BY <1>5
<1>7. QED
  BY <1>5, <1>6 DEF N

LEMMA StartIs ==
  ASSUME NEW l \in Items
  PROVE  /\ Start(l) \in [1 .. Len(l) + 1 -> Nat]
         /\ Start(l)[1] = 0
         /\ \A k \in 1 .. Len(l) :
              Start(l)[k + 1] = Start(l)[k] + 1 + Len(l[k].data)
<1>1. Start(l) = CHOOSE g : g = [k \in 1 .. Len(l) + 1 |->
                  IF k = 1 THEN 0 ELSE g[k - 1] + 1 + Len(l[k - 1].data)]
  BY DEF Start
<1> DEFINE N == Len(l) + 1
           F(g) == [k \in 1 .. N |->
                      IF k = 1 THEN 0 ELSE g[k - 1] + 1 + Len(l[k - 1].data)]
           start == CHOOSE g : g = F(g)
<1>2. \E g : g = F(g)
  BY StartExists
<1>3. start = F(start)
  BY <1>2
<1> HIDE DEF start
<1>4. start = Start(l)
  BY <1>1 DEF start
<1>5. N \in Nat /\ N = Len(l) + 1 /\ Len(l) \in Nat
  BY LenProperties DEF Items
<1>6. ASSUME NEW k \in 1 .. Len(l) PROVE Len(l[k].data) \in Nat
  <2>1. l[k] \in [type : Type, data : Seq(Cell)]
    BY ElementOfSeq DEF Items
  <2>2. QED
    BY <2>1, LenProperties
<1> HIDE DEF N
<1>7. /\ DOMAIN start = 1 .. N
      /\ start[1] = 0
      /\ \A k \in 1 .. N : start[k] =
           IF k = 1 THEN 0 ELSE start[k - 1] + 1 + Len(l[k - 1].data)
  <2>1. \A k \in 1 .. N : start[k] =
          IF k = 1 THEN 0 ELSE start[k - 1] + 1 + Len(l[k - 1].data)
    BY <1>3
  <2>2. DOMAIN start = 1 .. N
    BY <1>3
  <2>3. 1 \in 1 .. N
    BY <1>5
  <2>4. QED
    BY <2>1, <2>2, <2>3
<1>8. ASSUME NEW k \in 1 .. Len(l)
      PROVE  start[k + 1] = start[k] + 1 + Len(l[k].data)
  <2>1. k + 1 \in 1 .. N /\ k + 1 # 1 /\ (k + 1) - 1 = k
    BY <1>5
  <2>2. QED
    BY <1>7, <2>1
<1>9. \A k \in 1 .. N : start[k] \in Nat
  <2> DEFINE Bad == {k \in 1 .. N : start[k] \notin Nat}
  <2>1. SUFFICES ASSUME Bad # {} PROVE FALSE
    OBVIOUS
  <2>2. PICK k \in Bad : \A m \in Bad : k <= m
    <3>1. Bad \in SUBSET Nat
      BY <1>5
    <3>2. QED
      BY <2>1, <3>1, LeastOf
  <2>3. k \in 1 .. N /\ start[k] \notin Nat
    BY <2>2
  <2>4. k # 1
    BY <1>7, <2>3
  <2>5. k - 1 \in 1 .. Len(l) /\ k - 1 \in 1 .. N /\ ~(k <= k - 1)
        /\ (k - 1) + 1 = k
    BY <1>5, <2>3, <2>4
  <2>6. start[k - 1] \in Nat
    BY <2>2, <2>5
  <2>7. start[k] = start[k - 1] + 1 + Len(l[k - 1].data)
    BY <1>8, <2>5
  <2>8. QED
    BY <1>6, <2>3, <2>5, <2>6, <2>7
<1>10. start \in [1 .. N -> Nat]
  <2>1. start = [k \in 1 .. N |-> start[k]]
    BY <1>3
  <2>2. QED
    BY <1>9, <2>1
<1>11. QED
  BY <1>4, <1>7, <1>8, <1>10 DEF N

(* The items lie one behind the other.                                     *)
LEMMA StartGrows ==
  ASSUME NEW l \in Items, NEW j \in 1 .. Len(l) + 1, NEW k \in 1 .. Len(l) + 1,
         j < k
  PROVE  Start(l)[j + 1] <= Start(l)[k]
<1> DEFINE start == Start(l)
           Bad == {m \in j + 1 .. Len(l) + 1 : ~(start[j + 1] <= start[m])}
<1>1. Len(l) \in Nat
  BY LenProperties DEF Items
<1>2. \A m \in 1 .. Len(l) + 1 : start[m] \in Nat
  BY StartIs
<1>3. ASSUME NEW m \in 1 .. Len(l) PROVE start[m] < start[m + 1]
  <2>1. l[m] \in [type : Type, data : Seq(Cell)]
    BY ElementOfSeq DEF Items
  <2>2. Len(l[m].data) \in Nat
    BY <2>1, LenProperties
  <2>3. start[m + 1] = start[m] + 1 + Len(l[m].data)
    BY StartIs
  <2>4. start[m] \in Nat
    BY <1>1, <1>2
  <2>5. QED
    BY <2>2, <2>3, <2>4
<1> HIDE DEF start
<1>4. Bad = {}
  <2>1. SUFFICES ASSUME Bad # {} PROVE FALSE
    OBVIOUS
  <2>2. PICK m \in Bad : \A n \in Bad : m <= n
    <3>1. Bad \in SUBSET Nat
      BY <1>1
    <3>2. QED
      BY <2>1, <3>1, LeastOf
  <2>3. /\ m \in j + 1 .. Len(l) + 1 /\ ~(start[j + 1] <= start[m])
        /\ start[j + 1] \in Nat /\ start[m] \in Nat
    BY <1>1, <1>2, <2>2
  <2>4. m # j + 1
    BY <2>3
  <2>5. /\ m - 1 \in j + 1 .. Len(l) + 1 /\ ~(m <= m - 1)
        /\ m - 1 \in 1 .. Len(l) /\ (m - 1) + 1 = m
    BY <1>1, <2>3, <2>4
  <2>6. start[j + 1] <= start[m - 1] /\ start[m - 1] \in Nat
    BY <1>1, <1>2, <2>2, <2>5
  <2>7. start[m - 1] < start[m]
    BY <1>3, <2>5
  <2>8. QED
    BY <2>3, <2>6, <2>7
<1>5. k \in j + 1 .. Len(l) + 1
  BY <1>1
<1>6. QED
  BY <1>4, <1>5 DEF start
-----------------------------------------------------------------------------
(* What is in a list of items, and where.                                  *)
LEMMA ItemIs ==
  ASSUME NEW l \in Items, NEW k \in 1 .. Len(l)
  PROVE  /\ l[k].type \in Type /\ l[k].type \in Nat
         /\ l[k].data \in Seq(Cell) /\ Len(l[k].data) \in Nat
         /\ k \in 1 .. Len(l) + 1 /\ k + 1 \in 1 .. Len(l) + 1
         /\ Start(l)[k] \in Nat /\ Start(l)[k + 1] \in Nat
         /\ Start(l)[k + 1] = Start(l)[k] + 1 + Len(l[k].data)
         /\ Start(l)[k] < Start(l)[k + 1]
         /\ DOMAIN l = 1 .. Len(l) /\ Len(l) \in Nat
<1>1. l[k] \in [type : Type, data : Seq(Cell)]
  BY ElementOfSeq DEF Items
<1>2. DOMAIN l = 1 .. Len(l) /\ Len(l) \in Nat
  BY LenProperties DEF Items
<1>3. Len(l[k].data) \in Nat
  BY <1>1, LenProperties
<1>4. l[k].type \in Type /\ l[k].type \in Nat /\ l[k].data \in Seq(Cell)
  BY <1>1, CellAssumption
<1>5. k \in 1 .. Len(l) + 1 /\ k + 1 \in 1 .. Len(l) + 1
  BY <1>2
<1>6. /\ Start(l)[k] \in Nat /\ Start(l)[k + 1] \in Nat
      /\ Start(l)[k + 1] = Start(l)[k] + 1 + Len(l[k].data)
  BY <1>5, StartIs
<1> DEFINE s == Start(l)[k]
           t == Start(l)[k + 1]
           n == Len(l[k].data)
<1>7. s \in Nat /\ n \in Nat /\ t = s + 1 + n
  BY <1>3, <1>6
<1> HIDE DEF s, t, n
<1>8. s < t
  BY <1>7
<1>9. QED
  BY <1>2, <1>3, <1>4, <1>5, <1>6, <1>8 DEF s, t

LEMMA FindItem ==
  ASSUME NEW l \in Items, NEW o \in Nat, o < Start(l)[Len(l) + 1]
  PROVE  \E k \in DOMAIN l : Start(l)[k] <= o /\ o < Start(l)[k + 1]
<1> DEFINE start == Start(l)
           behind == {m \in 1 .. Len(l) + 1 : o < start[m]}
<1>1. DOMAIN l = 1 .. Len(l) /\ Len(l) \in Nat
  BY LenProperties DEF Items
<1>2. start[1] = 0 /\ \A m \in 1 .. Len(l) + 1 : start[m] \in Nat
  BY StartIs
<1> HIDE DEF start
<1>3. Len(l) + 1 \in behind
  BY <1>1 DEF start
<1>4. PICK m \in behind : \A n \in behind : m <= n
  <2>1. behind \in SUBSET Nat /\ behind # {}
    BY <1>1, <1>3
  <2>2. QED
    BY <2>1, LeastOf
<1>5. m \in 1 .. Len(l) + 1 /\ o < start[m]
  BY <1>4
<1>6. m # 1
  BY <1>2, <1>5
<1>7. m - 1 \in 1 .. Len(l) /\ m - 1 \in 1 .. Len(l) + 1 /\ ~(m <= m - 1)
      /\ (m - 1) + 1 = m
  BY <1>1, <1>5, <1>6
<1>8. ~(o < start[m - 1])
  BY <1>4, <1>7
<1>9. start[m - 1] <= o
  BY <1>2, <1>7, <1>8
<1>10. QED
  BY <1>1, <1>5, <1>7, <1>9 DEF start

(* A cell of the payload is of an item or behind the last.                 *)
LEMMA PayloadIs ==
  ASSUME NEW l \in Items, NEW padding, NEW o \in 0 .. PayloadSize(l) - 1,
         PayloadSize(l) \in Nat
  PROVE  \/ /\ Start(l)[Len(l) + 1] <= o
            /\ Payload(l, padding)[o] = padding
         \/ \E k \in DOMAIN l : IsOfItem(Payload(l, padding)[o], o, l, k)
<1> DEFINE start == Start(l)
           end == start[Len(l) + 1]
           Around(j) == start[j] <= o /\ o < start[j + 1]
           k == CHOOSE j \in DOMAIN l : Around(j)
           cell == Payload(l, padding)[o]
<1>1. cell = IF o >= end THEN padding
             ELSE IF o = start[k]
                  THEN [type |-> l[k].type, next |-> start[k + 1]]
                  ELSE l[k].data[o - start[k]]
  BY DEF Payload
<1>2. o \in Nat /\ Len(l) \in Nat
  BY LenProperties DEF Items
<1>3. end \in Nat
  BY <1>2, StartIs
<1> HIDE DEF end
<1>4. CASE end <= o
  <2>1. o >= end
    BY <1>2, <1>3, <1>4
  <2>2. QED
    BY <1>1, <1>4, <2>1 DEF end
<1>5. CASE ~(end <= o)
  <2>1. o < end /\ ~(o >= end)
    BY <1>2, <1>3, <1>5
  <2>2. \E j \in DOMAIN l : Around(j)
    BY <1>2, <2>1, FindItem DEF end
  <2>3. k \in DOMAIN l /\ Around(k)
    BY <2>2
  <2>4. start[k] \in Nat
    <3>1. k \in 1 .. Len(l)
      BY <2>3, LenProperties DEF Items
    <3>2. QED
      BY <3>1, ItemIs
  <2> HIDE DEF k, cell
  <2>5. CASE o = start[k]
    BY <1>1, <2>1, <2>3, <2>5 DEF IsOfItem, cell
  <2>6. CASE o # start[k]
    <3>1. start[k] < o
      BY <1>2, <2>3, <2>4, <2>6
    <3>2. QED
      BY <1>1, <2>1, <2>3, <2>6, <3>1 DEF IsOfItem, cell
  <2>7. QED
    BY <2>5, <2>6
<1>6. QED
  BY <1>4, <1>5

LEMMA ItemCell ==
  ASSUME NEW l \in Items, NEW o \in Nat, NEW k \in DOMAIN l, NEW cell,
         IsOfItem(cell, o, l, k)
  PROVE  cell \in Header
<1> DEFINE s == Start(l)[k]
           t == Start(l)[k + 1]
           data == l[k].data
<1>1. k \in 1 .. Len(l)
  BY LenProperties DEF Items
<1>2. /\ l[k].type \in Nat /\ data \in Seq(Cell) /\ Len(data) \in Nat
      /\ s \in Nat /\ t \in Nat /\ t = s + 1 + Len(data)
  BY <1>1, ItemIs
<1>3. CASE cell = [type |-> l[k].type, next |-> t]
  BY <1>2, <1>3 DEF Header
<1>4. CASE s < o /\ o < t /\ cell = data[o - s]
  <2>1. o - s \in 1 .. Len(data)
    BY <1>2, <1>4
  <2>2. data[o - s] \in Cell
    BY <1>2, <2>1, ElementOfSeq
  <2>3. QED
    BY <1>4, <2>2, CellAssumption
<1>5. QED
  BY <1>3, <1>4 DEF IsOfItem
-----------------------------------------------------------------------------
Cells == 0 .. SLOT_SIZE - 1

LEMMA Sizes ==
  /\ BLOCK_SIZE \in Nat /\ BLOCK_SIZE >= 1
  /\ SLOT_BLOCKS \in Nat /\ SLOT_BLOCKS >= 1
  /\ SLOT_SIZE \in Nat /\ SLOT_SIZE >= 1 /\ 0 \in Cells
  /\ Zero \in Header /\ Zero.type = EMPTY /\ Zero.type \notin Type
<1>1. /\ BLOCK_SIZE \in Nat /\ BLOCK_SIZE >= 1
      /\ SLOT_BLOCKS \in Nat /\ SLOT_BLOCKS >= 1
  BY SlotAssumption
<1>2. \A b, n \in Nat : b >= 1 /\ n >= 1 => b * n \in Nat /\ b * n >= 1
  OBVIOUS
<1>3. SLOT_SIZE \in Nat /\ SLOT_SIZE >= 1
  BY <1>1, <1>2 DEF SLOT_SIZE
<1>4. 0 \in Cells
  BY <1>3 DEF Cells
<1>5. QED
  BY <1>1, <1>3, <1>4, CellAssumption

(* A payload is of whole blocks, and of no more than the slot if it fits.  *)
LEMMA PayloadBlocks ==
  ASSUME NEW l \in Items, Fits(l)
  PROVE  \E n \in 0 .. SLOT_BLOCKS : PayloadSize(l) = n * BLOCK_SIZE
<1> DEFINE end == Start(l)[Len(l) + 1]
           n == (end + BLOCK_SIZE - 1) \div BLOCK_SIZE
<1>1. end \in Nat
  <2>1. Len(l) + 1 \in 1 .. Len(l) + 1
    BY LenProperties DEF Items
  <2>2. QED
    BY <2>1, StartIs
<1> HIDE DEF end
<1>2. n \in Nat
  <2>1. end + BLOCK_SIZE - 1 \in Nat
    BY <1>1, Sizes
  <2>2. \A a, b \in Nat : b >= 1 => a \div b \in Nat
    OBVIOUS
  <2>3. QED
    BY <2>1, <2>2, Sizes
<1>3. PayloadSize(l) = n * BLOCK_SIZE
  BY DEF PayloadSize, end
<1> HIDE DEF n
<1>4. n * BLOCK_SIZE <= BLOCK_SIZE * SLOT_BLOCKS
  BY <1>3 DEF Fits, SLOT_SIZE
<1>5. n <= SLOT_BLOCKS
  <2>1. \A a, b, c \in Nat : b >= 1 /\ a * b <= b * c => a <= c
    OBVIOUS
  <2>2. QED
    BY <1>2, <1>4, <2>1, Sizes
<1>6. QED
  BY <1>2, <1>3, <1>5, Sizes

LEMMA PayloadTypes ==
  ASSUME NEW l \in Items, Fits(l), NEW padding \in Header
  PROVE  /\ \E n \in 0 .. SLOT_BLOCKS :
              Payload(l, padding) \in [0 .. n * BLOCK_SIZE - 1 -> Header]
         /\ DOMAIN Payload(l, padding) = 0 .. PayloadSize(l) - 1
         /\ PayloadSize(l) \in Nat
<1> DEFINE p == Payload(l, padding)
<1>1. PICK n \in 0 .. SLOT_BLOCKS : PayloadSize(l) = n * BLOCK_SIZE
  BY PayloadBlocks
<1>2. PayloadSize(l) \in Nat
  <2>1. \A a, b \in Nat : a * b \in Nat
    OBVIOUS
  <2>2. QED
    BY <1>1, <2>1, Sizes
<1>3. ASSUME NEW o \in 0 .. PayloadSize(l) - 1
      PROVE  p[o] \in Header
  <2>1. o \in Nat
    BY <1>2
  <2>2. QED
    BY <1>2, <2>1, PayloadIs, ItemCell
<1>4. p = [o \in 0 .. PayloadSize(l) - 1 |-> p[o]]
  BY DEF Payload
<1> HIDE DEF p
<1>5. DOMAIN p = 0 .. PayloadSize(l) - 1
  BY <1>4
<1>6. p \in [0 .. PayloadSize(l) - 1 -> Header]
  BY <1>3, <1>4
<1>7. QED
  BY <1>1, <1>2, <1>5, <1>6 DEF p

LEMMA ListsAreItems ==
  TypeOK => items \in Items /\ newest \in Items
<1>1. <<>> \in Items
  BY DEF Items
<1>2. QED
  BY <1>1, ItemAssumption DEF TypeOK, Items

LEMMA InitTypes == Init => ProvisionTypes
<1> SUFFICES ASSUME Init PROVE ProvisionTypes
  OBVIOUS
<1>1. PICK c \in {Zero, Blank} : slot = [o \in 0 .. SLOT_SIZE - 1 |-> c]
  BY DEF Init
<1>2. slot \in [0 .. SLOT_SIZE - 1 -> Header]
  BY <1>1, CellAssumption
<1>3. \E n \in 0 .. SLOT_BLOCKS :
        payload \in [0 .. n * BLOCK_SIZE - 1 -> Header]
  <2>1. 0 \in 0 .. SLOT_BLOCKS /\ 0 .. 0 * BLOCK_SIZE - 1 = {}
    BY Sizes
  <2>2. payload \in [{} -> Header]
    BY DEF Init
  <2>3. QED
    BY <2>1, <2>2
<1>4. 0 \in 0 .. MaxFaults
  BY ItemAssumption
<1>5. TypeOK
  BY <1>2, <1>3, <1>4 DEF Init, TypeOK
<1>6. QED
  BY <1>5 DEF Init, ProvisionTypes, Verifying, Reading
-----------------------------------------------------------------------------
(* Writing a block leaves other blocks alone, and its own unless it is as  *)
(* it was confirmed.                                                       *)
LEMMA BlockIs ==
  ASSUME NEW b, NEW contents, WriteBlock(b, contents)
  PROVE  \/ faults' = faults /\ slot' = [o \in DOMAIN slot |->
                   IF o \div BLOCK_SIZE = b THEN contents[o] ELSE slot[o]]
         \/ /\ faults < MaxFaults /\ faults' = faults + 1
            /\ slot' = slot
BY DEF WriteBlock

LEMMA BlockTypes ==
  ASSUME TypeOK, NEW b, NEW contents, WriteBlock(b, contents),
         \A o \in DOMAIN slot : contents[o] \in Header
  PROVE  /\ slot' \in [0 .. SLOT_SIZE - 1 -> Header]
         /\ faults' \in 0 .. MaxFaults
<1>1. slot \in [0 .. SLOT_SIZE - 1 -> Header]
  BY DEF TypeOK
<1>2. faults \in 0 .. MaxFaults /\ MaxFaults \in Nat
  BY ItemAssumption DEF TypeOK
<1>3. CASE faults' = faults /\ slot' = [o \in DOMAIN slot |->
             IF o \div BLOCK_SIZE = b THEN contents[o] ELSE slot[o]]
  BY <1>1, <1>2, <1>3
<1>4. CASE faults < MaxFaults /\ faults' = faults + 1 /\ slot' = slot
  BY <1>1, <1>2, <1>4
<1>5. QED
  BY <1>3, <1>4, BlockIs

(* A header that a reader goes on from leads to another in the slot.       *)
LEMMA GoesOn ==
  ASSUME TypeOK, NEW o \in DOMAIN slot, ~EndsList(slot[o])
  PROVE  /\ slot[o].next \in DOMAIN slot
         /\ slot[o].type # EMPTY
<1>1. slot[o] \in Header /\ DOMAIN slot = 0 .. SLOT_SIZE - 1
  BY DEF TypeOK
<1>2. slot[o].next \in Nat
  BY <1>1 DEF Header
<1>3. QED
  BY <1>1, <1>2, Sizes DEF EndsList

(* What a turn of the reader's loop comes to.                              *)
ReadData(n) == [j \in 1 .. n |-> slot[offset + j]]
Ends(s, data) ==
  \/ pc = "read" /\ pc' = "idle" /\ status' = s /\ i' = i
  \/ pc = "verify_read" /\ s # "success" /\ pc' = "idle" /\ status' = s
       /\ i' = i
  \/ pc = "verify_read" /\ s = "success" /\ data = items[i].data
       /\ pc' = "verify" /\ i' = i + 1 /\ status' = status
  \/ pc = "verify_read" /\ s = "success" /\ pc' = "idle"
       /\ status' = "assert_failure" /\ i' = i

LEMMA TurnIs ==
  ASSUME ProvisionTypes, ReadHeader
  PROVE  LET header == slot[offset]
             n == header.next - offset - 1
         IN  /\ Reading
             /\ \/ /\ header.type # type /\ ~EndsList(header)
                   /\ offset' = header.next /\ buffer' = buffer
                   /\ pc' = pc /\ i' = i /\ status' = status
                \/ /\ header.type # type /\ EndsList(header)
                   /\ offset' = offset /\ buffer' = NULL
                   /\ Ends("invalid_id", NULL)
                \/ /\ header.type = type
                   /\ offset' = offset /\ buffer' = NULL
                   /\ Ends("failure", NULL) \/ Ends("small_buffer", NULL)
                \/ /\ header.type = type /\ n \in Nat
                   /\ header.next <= SLOT_SIZE
                   /\ offset' = offset /\ buffer' = ReadData(n)
                   /\ Ends("success", ReadData(n))
             /\ UNCHANGED <<slot, items, payload, type, size, history, faults>>
<1> DEFINE header == slot[offset]
           n == header.next - offset - 1
<1>1. ASSUME NEW s, NEW data, ReadEnds(s, data), Reading
      PROVE  buffer' = data /\ offset' = offset /\ Ends(s, data)
  BY <1>1 DEF ReadEnds, Reading, Return, Ends
<1>2. header.next \in Nat /\ offset \in Nat /\ SLOT_SIZE \in Nat
  BY Sizes DEF ReadHeader, ProvisionTypes, TypeOK, Header
<1>3. /\ Reading
      /\ UNCHANGED <<slot, items, payload, type, size, history, faults>>
  BY DEF ReadHeader
<1>4. CASE header.type # type
  <2>1. CASE EndsList(header)
    <3>1. ReadEnds("invalid_id", NULL)
      BY <1>4, <2>1 DEF ReadHeader
    <3>2. QED
      BY <1>1, <1>3, <1>4, <2>1, <3>1
  <2>2. CASE ~EndsList(header)
    <3>1. offset' = header.next /\ UNCHANGED <<pc, i, status, buffer>>
      BY <1>4, <2>2 DEF ReadHeader
    <3>2. QED
      BY <1>3, <1>4, <2>2, <3>1
  <2>3. QED
    BY <2>1, <2>2
<1>5. CASE header.type = type
  <2>1. CASE ReadEnds("failure", NULL) \/ ReadEnds("small_buffer", NULL)
    BY <1>1, <1>3, <1>5, <2>1
  <2>2. CASE /\ ~(header.next <= offset) /\ ~(header.next > SLOT_SIZE)
             /\ ReadEnds("success", [j \in 1 .. n |-> slot[offset + j]])
    <3>1. ReadEnds("success", ReadData(n))
      BY <2>2 DEF ReadData
    <3>2. n \in Nat /\ header.next <= SLOT_SIZE
      BY <1>2, <2>2
    <3>3. QED
      BY <1>1, <1>3, <1>5, <3>1, <3>2
  <2>3. QED
    BY <1>5, <2>1, <2>2 DEF ReadHeader
<1>6. QED
  BY <1>4, <1>5
-----------------------------------------------------------------------------
LEMMA TypesStep == ProvisionTypes /\ [Next]_vars => ProvisionTypes'
<1> SUFFICES ASSUME ProvisionTypes, [Next]_vars PROVE ProvisionTypes'
  OBVIOUS
<1> USE DEF Return, Verifying, Reading
<1>1. TypeOK /\ items \in Items /\ newest \in Items
  BY ListsAreItems DEF ProvisionTypes
<1>2. 0 \in DOMAIN slot
  BY Sizes DEF ProvisionTypes, TypeOK, Cells
<1>3. CASE WriteProvisionData
  BY <1>1, <1>3, Sizes
  DEF WriteProvisionData, ProvisionTypes, TypeOK, history
<1>4. CASE ClearBlock
  <2>1. slot' \in [0 .. SLOT_SIZE - 1 -> Header] /\ faults' \in 0 .. MaxFaults
    <3>1. \A o \in DOMAIN slot : [c \in DOMAIN slot |-> Zero][o] \in Header
      BY Sizes
    <3>2. QED
      BY <1>1, <1>4, <3>1, BlockTypes DEF ClearBlock
  <2>2. i' \in Nat /\ i' <= SLOT_BLOCKS
    BY <1>1, <1>4, Sizes DEF ClearBlock, BlocksToClear, TypeOK
  <2>3. TypeOK'
    BY <1>1, <1>4, <2>1, <2>2 DEF ClearBlock, TypeOK, read
  <2>4. QED
    BY <1>4, <2>2, <2>3 DEF ClearBlock, ProvisionTypes
<1>5. CASE Cleared
  <2>1. CASE ~Fits(items)
    BY <1>1, <1>5, <2>1 DEF Cleared, ProvisionTypes, TypeOK, read
  <2>2. CASE Fits(items)
    <3>1. PICK padding \in Cell \union {Zero} :
            /\ payload' = Payload(items, padding)
            /\ padded' = (padding # Zero /\ PayloadSize(items)
                                               > Start(items)[Len(items) + 1])
      BY <1>5, <2>2 DEF Cleared
    <3>2. padding \in Header
      BY CellAssumption
    <3>3. \E n \in 0 .. SLOT_BLOCKS :
            payload' \in [0 .. n * BLOCK_SIZE - 1 -> Header]
      BY <1>1, <2>2, <3>1, <3>2, PayloadTypes
    <3>4. pc' = "write" /\ i' = 0 /\ padded' \in BOOLEAN
      BY <1>5, <2>2, <3>1 DEF Cleared
    <3>5. UNCHANGED <<slot, items, read, newest, torn, uncleared, faults, status>>
      BY <1>5, <2>2 DEF Cleared
    <3>6. TypeOK'
      BY <1>1, <3>3, <3>4, <3>5 DEF TypeOK, read
    <3>7. QED
      BY <3>4, <3>6 DEF ProvisionTypes
  <2>3. QED
    BY <2>1, <2>2
<1>6. CASE WritePayload
  <2> DEFINE contents == [o \in DOMAIN slot |-> IF o \in DOMAIN payload
                                                THEN payload[o] ELSE slot[o]]
  <2>1. slot' \in [0 .. SLOT_SIZE - 1 -> Header] /\ faults' \in 0 .. MaxFaults
    <3>1. \A o \in DOMAIN slot : contents[o] \in Header
      BY <1>1 DEF TypeOK
    <3>2. WriteBlock(i, contents)
      BY <1>6 DEF WritePayload
    <3> HIDE DEF contents
    <3>3. QED
      BY <1>1, <3>1, <3>2, BlockTypes
  <2>2. TypeOK'
    BY <1>1, <1>6, <2>1 DEF WritePayload, TypeOK, read, history
  <2>3. QED
    BY <1>6, <2>2 DEF WritePayload, ProvisionTypes
<1>7. CASE Written
  <2>1. TypeOK'
    BY <1>1, <1>7 DEF Written, TypeOK, read, history
  <2>2. Len(items) \in Nat
    BY <1>1, LenProperties DEF Items
  <2>3. QED
    BY <1>7, <2>1, <2>2 DEF Written, ProvisionTypes
<1>8. CASE Verify
  <2>1. CASE Unverified
    <3>1. i \in 1 .. Len(items) /\ i \in Nat
      BY <1>8, <2>1, LenProperties, <1>1
      DEF Verify, Unverified, ProvisionTypes, Items
    <3>2. items[i].type \in Type /\ Len(items[i].data) \in Nat
      BY <1>1, <3>1, ItemIs
    <3>3. /\ type' = items[i].type /\ size' = Len(items[i].data) + 1
          /\ offset' = 0 /\ buffer' = NULL /\ pc' = "verify_read"
          /\ UNCHANGED <<status, torn, slot, write, newest, padded, uncleared,
                         faults>>
      BY <1>8, <2>1 DEF Verify
    <3>4. type' \in Type \union {NULL} /\ size' \in Nat /\ offset' \in Nat
      BY <3>2, <3>3
    <3>5. TypeOK'
      BY <1>1, <3>3, <3>4 DEF TypeOK, write
    <3>6. i' = i /\ items' = items /\ slot' = slot
      BY <3>3 DEF write
    <3>7. QED
      BY <1>2, <3>1, <3>2, <3>3, <3>5, <3>6 DEF ProvisionTypes
  <2>2. CASE ~Unverified
    BY <1>1, <1>8, <2>2 DEF Verify, ProvisionTypes, TypeOK, write
  <2>3. QED
    BY <2>1, <2>2
<1>9. CASE ReadProvisionItem
  <2>1. type' \in Type /\ size' \in Nat
    BY <1>9, ItemAssumption DEF ReadProvisionItem
  <2>2. TypeOK'
    BY <1>1, <1>9, <2>1 DEF ReadProvisionItem, TypeOK, write, history
  <2>3. QED
    BY <1>2, <1>9, <2>1, <2>2 DEF ReadProvisionItem, ProvisionTypes
<1>10. CASE ReadHeader
  <2> DEFINE header == slot[offset]
             n == header.next - offset - 1
  <2>1. offset \in DOMAIN slot /\ type \in Type /\ header.next \in Nat
        /\ offset \in 0 .. SLOT_SIZE - 1
    BY <1>10 DEF ReadHeader, ProvisionTypes, TypeOK, Header
  <2>2. /\ Reading
        /\ UNCHANGED <<slot, items, payload, type, size, history, faults>>
    BY <1>10, TurnIs
  <2>3. ASSUME NEW s \in {"success", "invalid_id", "small_buffer", "failure"},
               NEW data, Ends(s, data), offset' = offset,
               buffer' = NULL \/ \A j \in DOMAIN buffer' : buffer'[j] \in Header
        PROVE  ProvisionTypes'
    <3>1. i \in Nat /\ Len(items) \in Nat
      BY <1>1, LenProperties DEF TypeOK, Items
    <3>2. i' \in Nat /\ status' \in {"success", "invalid_id", "small_buffer",
                 "invalid_size", "assert_failure", "failure"}
      BY <1>1, <2>3, <3>1 DEF Ends, TypeOK
    <3>3. pc' \in {"idle", "verify"}
      BY <2>3 DEF Ends
    <3>4. TypeOK'
      BY <1>1, <2>2, <2>3, <3>2, <3>3 DEF TypeOK, history
    <3>5. pc' = "verify" => i' \in 1 .. Len(items') + 1
      <4>1. SUFFICES ASSUME pc' = "verify" PROVE i' \in 1 .. Len(items') + 1
        OBVIOUS
      <4>2. pc = "verify_read" /\ i' = i + 1 /\ items' = items
        BY <2>2, <2>3, <4>1 DEF Ends
      <4>3. i <= Len(items)
        BY <4>2 DEF ProvisionTypes
      <4>4. QED
        BY <3>1, <4>2, <4>3
    <3>6. QED
      BY <3>3, <3>4, <3>5 DEF ProvisionTypes
  <2>4. CASE /\ header.type # type /\ ~EndsList(header)
             /\ offset' = header.next /\ buffer' = buffer
             /\ pc' = pc /\ i' = i /\ status' = status
    <3>1. offset' \in DOMAIN slot
      BY <1>1, <2>1, <2>4, GoesOn
    <3>2. TypeOK'
      BY <1>1, <2>1, <2>2, <2>4 DEF TypeOK, history
    <3>3. QED
      BY <2>1, <2>2, <2>4, <3>1, <3>2 DEF ProvisionTypes
  <2>5. CASE /\ offset' = offset /\ buffer' = NULL
             /\ \/ Ends("failure", NULL) \/ Ends("small_buffer", NULL)
                \/ Ends("invalid_id", NULL)
    BY <2>3, <2>5
  <2>6. CASE /\ header.type = type /\ n \in Nat /\ header.next <= SLOT_SIZE
             /\ offset' = offset /\ buffer' = ReadData(n)
             /\ Ends("success", ReadData(n))
    <3>1. \A j \in 1 .. n : offset + j \in 0 .. SLOT_SIZE - 1
      BY <2>1, <2>6, Sizes
    <3> HIDE DEF n
    <3>2. \A j \in DOMAIN buffer' : buffer'[j] \in Header
      BY <1>1, <2>6, <3>1 DEF ReadData, TypeOK
    <3>3. QED
      BY <2>3, <2>6, <3>2
  <2>7. QED
    BY <1>10, <2>4, <2>5, <2>6, TurnIs
<1>11. CASE Abort
  BY <1>1, <1>11 DEF Abort, ProvisionTypes, TypeOK, write, history
<1>12. CASE UNCHANGED vars
  BY <1>1, <1>12
  DEF vars, write, read, history, ProvisionTypes, TypeOK
<1>13. QED
  BY <1>3, <1>4, <1>5, <1>6, <1>7, <1>8, <1>9, <1>10, <1>11, <1>12 DEF Next
-----------------------------------------------------------------------------
LEMMA ReplacedStep ==
  ProvisionTypes /\ Replaced /\ [Next]_vars => Replaced'
<1> SUFFICES ASSUME ProvisionTypes, Replaced, [Next]_vars PROVE Replaced'
  OBVIOUS
<1> USE DEF Return, Verifying, Replaced
<1>1. i \in Nat
  BY DEF ProvisionTypes, TypeOK
<1>2. CASE WriteProvisionData
  BY <1>2 DEF WriteProvisionData
<1>3. CASE ClearBlock
  BY <1>1, <1>3 DEF ClearBlock
<1>4. CASE Cleared
  <2>1. i > 0
    BY <1>4, Sizes DEF Cleared, BlocksToClear
  <2>2. CASE ~Fits(items)
    BY <1>4, <2>2 DEF Cleared
  <2>3. CASE Fits(items)
    BY <1>4, <2>1, <2>3 DEF Cleared
  <2>4. QED
    BY <2>2, <2>3
<1>5. CASE WritePayload
  BY <1>5 DEF WritePayload, history
<1>6. CASE Written
  BY <1>6 DEF Written, history
<1>7. CASE Verify
  BY <1>7 DEF Verify, write
<1>8. CASE ReadProvisionItem
  BY <1>8 DEF ReadProvisionItem
<1>9. CASE ReadHeader
  BY <1>9, TurnIs DEF Ends, Reading, history
<1>10. CASE Abort
  BY <1>10 DEF Abort
<1>11. CASE UNCHANGED vars
  BY <1>11 DEF vars, write, history
<1>12. QED
  BY <1>2, <1>3, <1>4, <1>5, <1>6, <1>7, <1>8, <1>9, <1>10, <1>11 DEF Next

LEMMA BufferReadStep ==
  ProvisionTypes /\ BufferRead /\ [Next]_vars => BufferRead'
<1> SUFFICES ASSUME ProvisionTypes, BufferRead, [Next]_vars PROVE BufferRead'
  OBVIOUS
<1> USE DEF Return, Reading, BufferRead
<1>1. CASE WriteProvisionData
  BY <1>1 DEF WriteProvisionData
<1>2. CASE ClearBlock
  BY <1>2 DEF ClearBlock, read
<1>3. CASE Cleared
  BY <1>3 DEF Cleared, read
<1>4. CASE WritePayload
  BY <1>4 DEF WritePayload, read
<1>5. CASE Written
  BY <1>5 DEF Written, read
<1>6. CASE Verify
  BY <1>6 DEF Verify
<1>7. CASE ReadProvisionItem
  BY <1>7 DEF ReadProvisionItem
<1>8. CASE ReadHeader
  <2>1. /\ Reading /\ buffer = NULL
        /\ UNCHANGED <<slot, items, payload, type, size, history, faults>>
    BY <1>8, TurnIs
  <2>2. CASE pc' = "verify"
    <3>1. /\ pc = "verify_read" /\ i' = i + 1
          /\ buffer' = NULL \/ buffer' = items[i].data
      BY <1>8, <2>1, <2>2, TurnIs DEF Ends
    <3>2. i \in Nat /\ i >= 1 /\ type = items[i].type /\ i' - 1 = i
      BY <3>1 DEF ProvisionTypes, Verifying, TypeOK
    <3>3. QED
      BY <2>1, <2>2, <3>1, <3>2
  <2>3. CASE pc' = "idle"
    BY <2>3
  <2>4. CASE pc' = pc /\ buffer' = buffer
    BY <2>1, <2>4
  <2>5. QED
    BY <1>8, <2>2, <2>3, <2>4, TurnIs DEF Ends
<1>9. CASE Abort
  BY <1>9 DEF Abort
<1>10. CASE UNCHANGED vars
  BY <1>10 DEF vars, read, write
<1>11. QED
  BY <1>1, <1>2, <1>3, <1>4, <1>5, <1>6, <1>7, <1>8, <1>9, <1>10 DEF Next
-----------------------------------------------------------------------------
(* Where the list in the slot leads.                                       *)
LEMMA ReachedStart ==
  ASSUME TypeOK
  PROVE  0 \in Reached
<1>1. 0 \in DOMAIN slot
  BY Sizes DEF TypeOK, Cells
<1>2. QED
  BY <1>1 DEF Reached, Closed

LEMMA ReachedNext ==
  ASSUME NEW o \in Reached, slot[o].type # EMPTY, slot[o].next \in DOMAIN slot
  PROVE  slot[o].next \in Reached
<1>1. o \in DOMAIN slot
  BY DEF Reached
<1>2. ASSUME NEW S \in SUBSET DOMAIN slot, Closed(S) PROVE slot[o].next \in S
  <2>1. o \in S
    BY <1>2 DEF Reached
  <2>2. QED
    BY <1>2, <2>1 DEF Closed
<1>3. QED
  BY <1>2 DEF Reached

LEMMA ReachedWithin ==
  ASSUME NEW S \in SUBSET DOMAIN slot, Closed(S)
  PROVE  Reached \subseteq S
BY DEF Reached

LEMMA ReachedSame ==
  slot' = slot => /\ Reached' = Reached
                  /\ \A o, item : Holds(o, item)' <=> Holds(o, item)
BY DEF Reached, Closed, Holds

LEMMA WalkingStep ==
  ProvisionTypes /\ Walking /\ [Next]_vars => Walking'
<1> SUFFICES ASSUME ProvisionTypes, Walking, [Next]_vars PROVE Walking'
  OBVIOUS
<1>1. ASSUME slot' = slot, offset' = 0 PROVE Walking'
  <2>1. offset' \in Reached'
    BY <1>1, ReachedStart, ReachedSame DEF ProvisionTypes
  <2>2. Passed({})'
    BY <1>1 DEF Passed
  <2>3. QED
    BY <2>1, <2>2 DEF Walking
<1>2. ASSUME ~Reading' PROVE Walking'
  BY <1>2 DEF Walking
<1>3. CASE ReadHeader
  <2>1. CASE pc' = pc
    <3> DEFINE header == slot[offset]
    <3>1. /\ Reading /\ header.type # type /\ ~EndsList(header)
          /\ offset' = header.next
          /\ slot' = slot /\ type' = type
      BY <1>3, <2>1, TurnIs DEF Ends, Reading
    <3>2. offset \in DOMAIN slot /\ TypeOK
      BY <3>1 DEF ProvisionTypes
    <3>3. header.next \in DOMAIN slot /\ header.type # EMPTY
      BY <3>1, <3>2, GoesOn
    <3>4. offset' \in Reached'
      BY <3>1, <3>3, ReachedNext, ReachedSame DEF Walking
    <3>5. PICK V \in SUBSET DOMAIN slot : Passed(V)
      BY <3>1 DEF Walking
    <3>6. PICK W \in SUBSET DOMAIN slot : W = V \union {offset}
      BY <3>2
    <3>7. Passed(W)'
      BY <3>1, <3>5, <3>6 DEF Passed
    <3>8. QED
      BY <3>1, <3>4, <3>7 DEF Walking
  <2>2. CASE pc' # pc
    BY <1>2, <1>3, <2>2, TurnIs DEF Ends, Reading
  <2>3. QED
    BY <2>1, <2>2
<1>4. CASE Verify \/ ReadProvisionItem
  <2>1. CASE offset' = 0
    BY <1>1, <1>4, <2>1 DEF Verify, ReadProvisionItem
  <2>2. CASE offset' # 0
    BY <1>2, <1>4, <2>2 DEF Verify, ReadProvisionItem, Return, Reading
  <2>3. QED
    BY <2>1, <2>2
<1>5. CASE WriteProvisionData \/ ClearBlock \/ Cleared
  BY <1>2, <1>5
  DEF WriteProvisionData, ClearBlock, Cleared, Return, Reading
<1>6. CASE WritePayload \/ Written \/ Abort
  BY <1>2, <1>6 DEF WritePayload, Written, Abort, Return, Reading
<1>7. CASE UNCHANGED vars
  <2>1. slot' = slot /\ offset' = offset /\ type' = type /\ pc' = pc
    BY <1>7 DEF vars, read
  <2>2. QED
    BY <2>1, ReachedSame DEF Walking, Passed, Reading
<1>8. QED
  BY <1>3, <1>4, <1>5, <1>6, <1>7 DEF Next
-----------------------------------------------------------------------------
(* An item that is read back with its data is in the list in the slot.     *)
LEMMA ReadBackHolds ==
  ASSUME ProvisionTypes, Walking, ReadHeader, pc' = "verify"
  PROVE  /\ i \in 1 .. Len(items) /\ i' = i + 1
         /\ slot' = slot /\ items' = items /\ torn' = torn /\ newest' = newest
         /\ offset \in Reached /\ Holds(offset, items[i])
<1> DEFINE header == slot[offset]
           n == header.next - offset - 1
           data == items[i].data
<1>1. /\ pc = "verify_read" /\ i' = i + 1
      /\ header.type = type /\ n \in Nat /\ header.next <= SLOT_SIZE
      /\ ReadData(n) = data
  BY TurnIs DEF Ends, Reading
<1>2. slot' = slot /\ items' = items /\ torn' = torn /\ newest' = newest
  BY TurnIs DEF history
<1>3. i \in 1 .. Len(items) /\ type = items[i].type
  BY <1>1 DEF ProvisionTypes, Verifying, TypeOK
<1>4. offset \in Reached /\ offset \in 0 .. SLOT_SIZE - 1
  BY <1>1 DEF Walking, Reading, ProvisionTypes, TypeOK
<1>5. data \in Seq(Cell) /\ Len(data) \in Nat
  BY <1>3, ListsAreItems, ItemIs DEF ProvisionTypes
<1>6. header.next \in Nat /\ offset \in Nat
  BY <1>4, Sizes DEF ProvisionTypes, TypeOK, Header
<1>7. DOMAIN data = 1 .. Len(data) /\ DOMAIN data = 1 .. n
      /\ \A j \in 1 .. n : data[j] = slot[offset + j]
  <2>1. DOMAIN data = 1 .. Len(data)
    BY <1>5, LenProperties
  <2> HIDE DEF data, n
  <2>2. QED
    BY <1>1, <2>1 DEF ReadData
<1> HIDE DEF data
<1>8. Len(data) = n
  <2>1. \A a, b \in Nat : 1 .. a = 1 .. b => a = b
    <3>1. SUFFICES ASSUME NEW a \in Nat, NEW b \in Nat, 1 .. a = 1 .. b, a < b
                   PROVE  FALSE
      OBVIOUS
    <3>2. b \in 1 .. b /\ b \notin 1 .. a
      BY <3>1
    <3>3. QED
      BY <3>1, <3>2
  <2>2. 1 .. Len(data) = 1 .. n /\ n \in Nat
    BY <1>1, <1>7
  <2> HIDE DEF n
  <2>3. QED
    BY <1>5, <2>1, <2>2
<1>9. header.next = offset + 1 + Len(data)
  BY <1>6, <1>8
<1>10. Holds(offset, items[i])
  BY <1>1, <1>3, <1>7, <1>9 DEF Holds, data
<1>11. QED
  BY <1>1, <1>2, <1>3, <1>4, <1>10

LEMMA VerifiedStep ==
  ProvisionTypes /\ Walking /\ Verified /\ [Next]_vars => Verified'
<1> SUFFICES ASSUME ProvisionTypes, Walking, Verified, [Next]_vars
             PROVE  Verified'
  OBVIOUS
<1>1. ASSUME ~Verifying' PROVE Verified'
  BY <1>1 DEF Verified
<1>2. ASSUME slot' = slot, items' = items, i' = i, Verifying
      PROVE  Verified'
  BY <1>2, ReachedSame DEF Verified
<1>3. CASE ReadHeader
  <2>1. CASE pc' = "verify"
    <3>1. /\ i \in 1 .. Len(items) /\ i' = i + 1
          /\ slot' = slot /\ items' = items
          /\ offset \in Reached /\ Holds(offset, items[i])
      BY <1>3, <2>1, ReadBackHolds
    <3>2. Verifying
      BY <1>3, <2>1, TurnIs DEF Ends, Reading, Verifying
    <3>3. ASSUME NEW k \in 1 .. i' - 1
          PROVE  \E o \in Reached : Holds(o, items[k])
      <4>1. k \in 1 .. i - 1 \/ k = i
        <5>1. i \in Nat
          BY <3>1 DEF ProvisionTypes, TypeOK
        <5>2. QED
          BY <3>1, <5>1
      <4>2. CASE k \in 1 .. i - 1
        BY <3>2, <4>2 DEF Verified
      <4>3. CASE k = i
        BY <3>1, <4>3
      <4>4. QED
        BY <4>1, <4>2, <4>3
    <3>4. QED
      BY <3>1, <3>3, ReachedSame DEF Verified, Holds
  <2>2. CASE pc' # "verify" /\ Verifying'
    <3>1. pc = pc' /\ i' = i /\ slot' = slot /\ items' = items
      BY <1>3, <2>2, TurnIs DEF Ends, Reading, Verifying
    <3>2. QED
      BY <1>2, <2>2, <3>1 DEF Verifying
  <2>3. QED
    BY <1>1, <2>1, <2>2
<1>4. CASE Verify
  BY <1>2, <1>4 DEF Verify, write, Verifying
<1>5. CASE Written
  BY <1>5 DEF Written, Verified
<1>6. CASE WriteProvisionData \/ ClearBlock \/ Cleared
  BY <1>1, <1>6
  DEF WriteProvisionData, ClearBlock, Cleared, Return, Verifying
<1>7. CASE WritePayload \/ ReadProvisionItem \/ Abort
  BY <1>1, <1>7
  DEF WritePayload, ReadProvisionItem, Abort, Return, Verifying
<1>8. CASE UNCHANGED vars
  <2>1. slot' = slot /\ items' = items /\ i' = i /\ pc' = pc
    BY <1>8 DEF vars, write
  <2>2. QED
    BY <1>1, <1>2, <2>1 DEF Verifying
<1>9. QED
  BY <1>3, <1>4, <1>5, <1>6, <1>7, <1>8 DEF Next

LEMMA StoredStep ==
  /\ ProvisionTypes /\ Replaced /\ Verified /\ SuccessMeansStored
  /\ [Next]_vars
  => SuccessMeansStored'
<1> SUFFICES ASSUME ProvisionTypes, Replaced, Verified, SuccessMeansStored,
                    [Next]_vars
             PROVE  SuccessMeansStored'
  OBVIOUS
<1>1. ASSUME torn' PROVE SuccessMeansStored'
  BY <1>1 DEF SuccessMeansStored
<1>2. ASSUME slot' = slot, newest' = newest, torn' = torn
      PROVE  SuccessMeansStored'
  BY <1>2, ReachedSame DEF SuccessMeansStored, Holds
<1>3. CASE Verify
  <2>1. CASE Unverified
    BY <1>2, <1>3, <2>1 DEF Verify
  <2>2. CASE ~Unverified
    <3>1. /\ pc = "verify" /\ slot' = slot /\ newest' = newest
          /\ newest = items
      BY <1>3, <2>2 DEF Verify, Replaced, Verifying
    <3>2. Len(items) \in Nat /\ DOMAIN items = 1 .. Len(items)
      BY ListsAreItems, LenProperties DEF ProvisionTypes, Items
    <3>3. i - 1 = Len(items)
      BY <2>2, <3>1, <3>2 DEF Unverified, ProvisionTypes, Verifying
    <3>4. \A k \in DOMAIN newest : \E o \in Reached : Holds(o, newest[k])
      BY <3>1, <3>2, <3>3 DEF Verified, Verifying
    <3>5. QED
      BY <3>1, <3>4, ReachedSame DEF SuccessMeansStored, Holds
  <2>3. QED
    BY <2>1, <2>2
<1>4. CASE ClearBlock
  BY <1>1, <1>4 DEF ClearBlock
<1>5. CASE WritePayload
  BY <1>1, <1>5 DEF WritePayload, Replaced, history
<1>6. CASE ReadHeader
  BY <1>2, <1>6, TurnIs DEF history
<1>7. CASE WriteProvisionData \/ Cleared \/ Written
  BY <1>2, <1>7 DEF WriteProvisionData, Cleared, Written, history
<1>8. CASE ReadProvisionItem \/ Abort
  BY <1>2, <1>8 DEF ReadProvisionItem, Abort, history
<1>9. CASE UNCHANGED vars
  BY <1>2, <1>9 DEF vars, history
<1>10. QED
  BY <1>3, <1>4, <1>5, <1>6, <1>7, <1>8, <1>9 DEF Next

(* Where a reader gives up, what it has passed is all of the list.         *)
LEMMA NotFoundStep ==
  ProvisionTypes /\ Walking /\ NotFoundIsAbsent /\ [Next]_vars
  => NotFoundIsAbsent'
<1> SUFFICES ASSUME ProvisionTypes, Walking, NotFoundIsAbsent, [Next]_vars
             PROVE  NotFoundIsAbsent'
  OBVIOUS
<1> USE DEF Return
<1>1. ASSUME ~(pc' = "idle" /\ status' = "invalid_id")
      PROVE  NotFoundIsAbsent'
  BY <1>1 DEF NotFoundIsAbsent
<1>2. CASE ReadHeader
  <2>1. CASE pc' = "idle" /\ status' = "invalid_id"
    <3> DEFINE header == slot[offset]
    <3>1. /\ Reading /\ header.type # type /\ EndsList(header)
          /\ slot' = slot /\ type' = type
      BY <1>2, <2>1, TurnIs DEF Ends, Reading
    <3>2. PICK V \in SUBSET DOMAIN slot : Passed(V)
      BY <3>1 DEF Walking
    <3>3. offset \in DOMAIN slot /\ DOMAIN slot = 0 .. SLOT_SIZE - 1
          /\ header \in Header
      BY <3>1 DEF ProvisionTypes, TypeOK
    <3>4. header.type = EMPTY \/ header.next \notin DOMAIN slot
      BY <3>1, <3>3, Sizes DEF EndsList, Header
    <3>5. Closed(V \union {offset})
      BY <3>2, <3>4 DEF Passed, Closed
    <3>6. Reached \subseteq V \union {offset}
      BY <3>2, <3>3, <3>5, ReachedWithin
    <3>7. \A o \in Reached : slot[o].type # type
      BY <3>1, <3>2, <3>6 DEF Passed
    <3>8. QED
      BY <3>1, <3>7, ReachedSame DEF NotFoundIsAbsent
  <2>2. QED
    BY <1>1, <2>1
<1>3. CASE WriteProvisionData \/ ClearBlock \/ WritePayload \/ Written
  BY <1>1, <1>3 DEF WriteProvisionData, ClearBlock, WritePayload, Written
<1>4. CASE Cleared \/ Verify
  BY <1>1, <1>4 DEF Cleared, Verify
<1>5. CASE ReadProvisionItem \/ Abort
  BY <1>1, <1>5 DEF ReadProvisionItem, Abort
<1>6. CASE UNCHANGED vars
  <2>1. slot' = slot /\ type' = type /\ pc' = pc /\ status' = status
    BY <1>6 DEF vars, read
  <2>2. QED
    BY <2>1, ReachedSame DEF NotFoundIsAbsent
<1>7. QED
  BY <1>2, <1>3, <1>4, <1>5, <1>6 DEF Next
-----------------------------------------------------------------------------
(* The clearing of the slot and the writing of the items, cell by cell.    *)
LEMMA ClearBlockKnown ==
  ProvisionTypes /\ Replaced /\ SlotKnown /\ ClearBlock => SlotKnown'
<1> SUFFICES ASSUME ProvisionTypes, SlotKnown, ClearBlock, Ordinary'
             PROVE  SlotKnown'
  BY DEF SlotKnown
<1>1. /\ pc = "clear" /\ pc' = "clear" /\ i \in Nat /\ i' = i + 1 /\ torn'
      /\ padded' = (padded /\ i > 0)
      /\ uncleared' = ((uncleared /\ i > 0) \/ faults' # faults)
  BY DEF ClearBlock, ProvisionTypes, TypeOK
<1>2. faults' = faults /\ (i > 0 => Ordinary)
  BY <1>1 DEF Ordinary
<1>3. DOMAIN slot = Cells /\ faults \in Nat
  <2>1. faults \in 0 .. MaxFaults
    BY DEF ProvisionTypes, TypeOK
  <2>2. QED
    BY <2>1, ItemAssumption DEF ProvisionTypes, TypeOK, Cells
<1>4. slot' = [o \in DOMAIN slot |->
                 IF o \div BLOCK_SIZE = i THEN Zero ELSE slot[o]]
  <2>1. WriteBlock(i, [o \in DOMAIN slot |-> Zero])
    BY DEF ClearBlock
  <2>2. faults' # faults + 1
    BY <1>2, <1>3
  <2>3. slot' = [o \in DOMAIN slot |-> IF o \div BLOCK_SIZE = i
                        THEN [c \in DOMAIN slot |-> Zero][o] ELSE slot[o]]
    BY <2>1, <2>2, BlockIs
  <2>4. QED
    BY <2>3
<1>5. ASSUME NEW o \in Cells, o \div BLOCK_SIZE < i' PROVE slot'[o] = Zero
  <2>1. o \div BLOCK_SIZE \in Nat
    <3>1. o \in Nat
      BY Sizes DEF Cells
    <3>2. \A a, b \in Nat : b >= 1 => a \div b \in Nat
      OBVIOUS
    <3>3. QED
      BY <3>1, <3>2, Sizes
  <2> DEFINE block == o \div BLOCK_SIZE
  <2> HIDE DEF block
  <2>2. block \in Nat /\ block < i + 1
    BY <1>1, <1>5, <2>1 DEF block
  <2>3. block = i \/ (block < i /\ i > 0)
    BY <1>1, <2>2
  <2>4. block < i /\ i > 0 => slot[o] = Zero
    BY <1>1, <1>2, <1>3 DEF SlotKnown, block
  <2>5. QED
    BY <1>3, <1>4, <2>3, <2>4 DEF block
<1>6. 0 \div BLOCK_SIZE = 0 /\ 0 < i'
  <2>1. \A b \in Nat : b >= 1 => 0 \div b = 0
    OBVIOUS
  <2>2. QED
    BY <1>1, <2>1, Sizes
<1>7. slot'[0] = Zero
  BY <1>5, <1>6, Sizes
<1>8. DOMAIN slot' = Cells
  BY <1>3, <1>4
<1>9. QED
  BY <1>1, <1>5, <1>7, <1>8 DEF SlotKnown, Verifying

LEMMA ClearedKnown ==
  ProvisionTypes /\ Replaced /\ SlotKnown /\ Cleared => SlotKnown'
<1> SUFFICES ASSUME ProvisionTypes, Replaced, SlotKnown, Cleared, Ordinary'
             PROVE  SlotKnown'
  BY DEF SlotKnown
<1>1. /\ pc = "clear" /\ i = SLOT_BLOCKS /\ i > 0
      /\ UNCHANGED <<slot, items, newest, torn, uncleared>>
  BY Sizes DEF Cleared, BlocksToClear
<1>2. ~padded /\ Ordinary
  BY <1>1 DEF Replaced, Ordinary
<1>3. CASE ~Fits(items)
  <2>1. pc' = "idle"
    BY <1>3 DEF Cleared, Return
  <2>2. QED
    BY <1>1, <1>2, <2>1 DEF SlotKnown, Verifying
<1>4. CASE Fits(items)
  <2>1. pc' = "write"
    BY <1>4 DEF Cleared
  <2>2. PICK padding \in Cell \union {Zero} :
          /\ payload' = Payload(items, padding)
          /\ padded' = (padding # Zero /\ PayloadSize(items)
                                             > Start(items)[Len(items) + 1])
    BY <1>4 DEF Cleared
  <2>3. items \in Items /\ padding \in Header
    BY ListsAreItems, CellAssumption DEF ProvisionTypes
  <2>4. /\ DOMAIN Payload(items, padding) = 0 .. PayloadSize(items) - 1
        /\ PayloadSize(items) \in Nat
    BY <1>4, <2>3, PayloadTypes
  <2>5. Start(items)[Len(items) + 1] \in Nat
    <3>1. Len(items) + 1 \in 1 .. Len(items) + 1
      BY <2>3, LenProperties DEF Items
    <3>2. QED
      BY <2>3, <3>1, StartIs
  <2>6. padding = Zero \/ PayloadSize(items) <= Start(items)[Len(items) + 1]
    <3>1. ~(padding # Zero /\ PayloadSize(items)
                                > Start(items)[Len(items) + 1])
      BY <2>2, Zenon DEF Ordinary
    <3> DEFINE whole == PayloadSize(items)
               end == Start(items)[Len(items) + 1]
    <3>2. whole \in Nat /\ end \in Nat
      BY <2>4, <2>5
    <3> HIDE DEF whole, end
    <3>3. ~(whole > end) => whole <= end
      BY <3>2
    <3>4. QED
      BY <3>1, <3>3 DEF whole, end
  <2> DEFINE p == Payload(items, padding)
             end == Start(items)[Len(items) + 1]
  <2>7. ASSUME NEW o \in DOMAIN p
        PROVE  p[o] = Zero \/ \E k \in DOMAIN items : IsOfItem(p[o], o, items, k)
    <3>1. o \in 0 .. PayloadSize(items) - 1
      BY <2>4
    <3>2. \/ end <= o /\ p[o] = padding
          \/ \E k \in DOMAIN items : IsOfItem(p[o], o, items, k)
      BY <2>3, <2>4, <3>1, PayloadIs
    <3> HIDE DEF p, end
    <3>3. end <= o => ~(PayloadSize(items) <= end)
      BY <2>4, <2>5, <3>1 DEF end
    <3>4. QED
      BY <2>6, <3>2, <3>3 DEF end
  <2>8. IsPartOf(p, items)
    BY <2>7 DEF IsPartOf
  <2>9. \A o \in DOMAIN slot : slot[o] = Zero
    <3>1. SUFFICES ASSUME NEW o \in DOMAIN slot PROVE o \div BLOCK_SIZE < i
      BY <1>1, <1>2 DEF SlotKnown
    <3>2. o \in Nat /\ o < BLOCK_SIZE * SLOT_BLOCKS
      BY Sizes DEF ProvisionTypes, TypeOK, SLOT_SIZE
    <3>3. \A a, b, c \in Nat : b >= 1 /\ a < b * c => a \div b < c
      OBVIOUS
    <3>4. QED
      BY <1>1, <3>2, <3>3, Sizes
  <2>10. IsPartOf(slot, items)
    BY <2>9 DEF IsPartOf
  <2>11. QED
    BY <1>1, <1>2, <2>1, <2>2, <2>8, <2>10 DEF SlotKnown, Verifying
<1>5. QED
  BY <1>3, <1>4

LEMMA WritePayloadKnown ==
  ProvisionTypes /\ Replaced /\ SlotKnown /\ WritePayload => SlotKnown'
<1> SUFFICES ASSUME ProvisionTypes, Replaced, SlotKnown, WritePayload, Ordinary'
             PROVE  SlotKnown'
  BY DEF SlotKnown
<1> DEFINE contents == [o \in DOMAIN slot |-> IF o \in DOMAIN payload
                                              THEN payload[o] ELSE slot[o]]
<1>1. /\ pc = "write" /\ pc' = "write" /\ WriteBlock(i, contents)
      /\ UNCHANGED <<items, payload, newest, torn, padded, uncleared>>
  BY DEF WritePayload, history
<1>2. IsPartOf(slot, items) /\ IsPartOf(payload, items) /\ newest = items
  BY <1>1 DEF SlotKnown, Replaced, Ordinary
<1>3. IsPartOf(contents, items)
  BY <1>2 DEF IsPartOf
<1>4. DOMAIN contents = DOMAIN slot
  OBVIOUS
<1> HIDE DEF contents
<1>5. IsPartOf(slot', items)
  <2>1. CASE slot' = [o \in DOMAIN slot |->
               IF o \div BLOCK_SIZE = i THEN contents[o] ELSE slot[o]]
    BY <1>2, <1>3, <1>4, <2>1 DEF IsPartOf
  <2>2. CASE slot' = slot
    BY <1>2, <2>2
  <2>3. QED
    BY <1>1, <2>1, <2>2, BlockIs
<1>6. QED
  BY <1>1, <1>2, <1>5 DEF SlotKnown, Verifying

LEMMA SlotKnownStep ==
  ProvisionTypes /\ Replaced /\ SlotKnown /\ [Next]_vars => SlotKnown'
<1> SUFFICES ASSUME ProvisionTypes, Replaced, SlotKnown, [Next]_vars
             PROVE  SlotKnown'
  OBVIOUS
<1>1. ASSUME UNCHANGED <<slot, newest, torn, padded, uncleared>>,
             pc' = "clear" => i' = 0,
             pc' # "write",
             Verifying' => (Verifying \/ pc = "write") /\ items' = items
      PROVE  SlotKnown'
  <2>1. SUFFICES ASSUME Ordinary PROVE SlotKnown'
    BY <1>1 DEF SlotKnown, Ordinary
  <2>2. ASSUME NEW o \in DOMAIN slot PROVE ~(o \div BLOCK_SIZE < 0)
    <3>1. o \in Nat
      BY DEF ProvisionTypes, TypeOK
    <3>2. \A a, b \in Nat : b >= 1 => ~(a \div b < 0)
      OBVIOUS
    <3>3. QED
      BY <3>1, <3>2, Sizes
  <2>3. QED
    BY <1>1, <2>1, <2>2 DEF SlotKnown
<1>2. CASE WriteProvisionData
  BY <1>1, <1>2 DEF WriteProvisionData, Verifying, history
<1>3. CASE Written
  BY <1>1, <1>3 DEF Written, Verifying, history
<1>4. CASE ReadProvisionItem \/ Abort
  BY <1>1, <1>4 DEF ReadProvisionItem, Abort, Return, Verifying, history
<1>5. CASE ReadHeader
  BY <1>1, <1>5, TurnIs DEF Ends, Reading, Verifying, history
<1>6. CASE Verify
  <2>1. CASE Unverified
    BY <1>1, <1>6, <2>1 DEF Verify, Verifying, write
  <2>2. CASE ~Unverified
    BY <1>6, <2>2 DEF Verify, Verifying, Replaced, Return, SlotKnown, Ordinary
  <2>3. QED
    BY <2>1, <2>2
<1>7. CASE UNCHANGED vars
  BY <1>7 DEF vars, history, write, SlotKnown, Ordinary, Verifying
<1>8. QED
  BY <1>2, <1>3, <1>4, <1>5, <1>6, <1>7, ClearBlockKnown, ClearedKnown,
     WritePayloadKnown DEF Next
-----------------------------------------------------------------------------
(* No item begins inside another.                                          *)
LEMMA NoneInside ==
  ASSUME NEW l \in Items, NEW j \in 1 .. Len(l) + 1, NEW k \in 1 .. Len(l)
  PROVE  ~(Start(l)[k] < Start(l)[j] /\ Start(l)[j] < Start(l)[k + 1])
<1> DEFINE s(n) == Start(l)[n]
<1>1. Len(l) \in Nat
  BY LenProperties DEF Items
<1>2. k \in 1 .. Len(l) + 1 /\ k + 1 \in 1 .. Len(l) + 1
  BY <1>1
<1>3. s(j) \in Nat /\ s(k) \in Nat /\ s(k + 1) \in Nat
  BY <1>2, StartIs
<1>4. k + 1 < j => s(k + 1) <= s(j)
  <2>1. SUFFICES ASSUME k + 1 < j PROVE s(k + 1) <= s(j)
    OBVIOUS
  <2>2. k + 1 \in 1 .. Len(l)
    BY <1>1, <2>1
  <2>3. s(k + 1) < s(k + 1 + 1) /\ s(k + 1 + 1) \in Nat
    BY <2>2, ItemIs
  <2>4. s(k + 1 + 1) <= s(j)
    BY <1>2, <2>1, StartGrows
  <2> HIDE DEF s
  <2>5. QED
    BY <1>3, <2>3, <2>4
<1>5. j < k => s(j) <= s(k)
  <2>1. SUFFICES ASSUME j < k PROVE s(j) <= s(k)
    OBVIOUS
  <2>2. j \in 1 .. Len(l)
    BY <1>1, <2>1
  <2>3. s(j) < s(j + 1) /\ s(j + 1) \in Nat
    BY <2>2, ItemIs
  <2>4. s(j + 1) <= s(k)
    BY <1>2, <2>1, StartGrows
  <2> HIDE DEF s
  <2>5. QED
    BY <1>3, <2>3, <2>4
<1> HIDE DEF s
<1>6. ~(s(k) < s(j) /\ s(j) < s(k + 1))
  <2>1. CASE k + 1 < j
    BY <1>3, <1>4, <2>1
  <2>2. CASE j < k
    BY <1>3, <1>5, <2>2
  <2>3. CASE j = k
    BY <1>3, <2>3
  <2>4. CASE j = k + 1
    BY <1>3, <2>4
  <2>5. QED
    BY <1>1, <2>1, <2>2, <2>3, <2>4
<1>7. QED
  BY <1>6 DEF s

(* A cell lies inside one item at most.                                    *)
LEMMA InsideOne ==
  ASSUME NEW l \in Items, NEW j \in 1 .. Len(l), NEW k \in 1 .. Len(l),
         NEW o \in Nat,
         Start(l)[j] < o, o < Start(l)[j + 1],
         Start(l)[k] < o, o < Start(l)[k + 1]
  PROVE  j = k
<1> DEFINE s(n) == Start(l)[n]
<1>1. ASSUME NEW m \in 1 .. Len(l), NEW n \in 1 .. Len(l),
             s(n) < o, o < s(m + 1), m < n
      PROVE  FALSE
  <2>1. s(m + 1) <= s(n) /\ s(m + 1) \in Nat /\ s(n) \in Nat
    BY <1>1, StartGrows, ItemIs
  <2> HIDE DEF s
  <2>2. QED
    BY <1>1, <2>1
<1>2. ~(j < k) /\ ~(k < j)
  BY <1>1
<1>3. j \in Nat /\ k \in Nat
  OBVIOUS
<1>4. QED
  BY <1>2, <1>3

(* In a slot with parts of the items l only, the list leads to nothing but *)
(* where an item begins or the last ends.                                  *)
LEMMA ReachedIsStart ==
  ASSUME TypeOK, NEW l \in Items, IsPartOf(slot, l), NEW o \in Reached
  PROVE  \E k \in 1 .. Len(l) + 1 : o = Start(l)[k]
<1> DEFINE C == {c \in DOMAIN slot : \E k \in 1 .. Len(l) + 1 : c = Start(l)[k]}
<1>1. Len(l) \in Nat /\ DOMAIN l = 1 .. Len(l)
  BY LenProperties DEF Items
<1>2. 0 \in C
  <2>1. 0 \in DOMAIN slot
    BY Sizes DEF TypeOK, Cells
  <2>2. 1 \in 1 .. Len(l) + 1 /\ Start(l)[1] = 0
    BY <1>1, StartIs
  <2>3. QED
    BY <2>1, <2>2
<1>3. ASSUME NEW c \in C, slot[c].type # EMPTY, slot[c].next \in DOMAIN slot
      PROVE  slot[c].next \in C
  <2>1. PICK j \in 1 .. Len(l) + 1 : c = Start(l)[j]
    OBVIOUS
  <2>2. slot[c] # Zero
    BY <1>3, Sizes
  <2>3. PICK k \in 1 .. Len(l) : IsOfItem(slot[c], c, l, k)
    BY <1>1, <2>2 DEF IsPartOf
  <2>4. ~(Start(l)[k] < c /\ c < Start(l)[k + 1])
    BY <2>1, NoneInside
  <2>5. slot[c] = [type |-> l[k].type, next |-> Start(l)[k + 1]]
    BY <2>3, <2>4 DEF IsOfItem
  <2>6. slot[c].next = Start(l)[k + 1]
    BY <2>5
  <2>7. k + 1 \in 1 .. Len(l) + 1
    BY <1>1
  <2>8. QED
    BY <1>3, <2>6, <2>7
<1>4. Closed(C)
  BY <1>2, <1>3 DEF Closed
<1>5. o \in C
  BY <1>4, ReachedWithin
<1>6. QED
  BY <1>5

(* So a header in the list that has a type is the header of an item.       *)
LEMMA ReachedIsItem ==
  ASSUME TypeOK, NEW l \in Items, IsPartOf(slot, l),
         NEW o \in Reached, slot[o].type \in Type
  PROVE  \E k \in 1 .. Len(l) :
           /\ o = Start(l)[k]
           /\ slot[o].type = l[k].type
           /\ slot[o].next = Start(l)[k + 1]
<1>1. PICK j \in 1 .. Len(l) + 1 : o = Start(l)[j]
  BY ReachedIsStart
<1>2. o \in DOMAIN slot /\ slot[o] # Zero
  BY Sizes DEF Reached
<1>3. PICK k \in 1 .. Len(l) : IsOfItem(slot[o], o, l, k)
  BY <1>2, LenProperties DEF IsPartOf, Items
<1>4. ~(Start(l)[k] < o /\ o < Start(l)[k + 1])
  BY <1>1, NoneInside
<1>5. o = Start(l)[k] /\ slot[o] = [type |-> l[k].type, next |-> Start(l)[k + 1]]
  BY <1>3, <1>4 DEF IsOfItem
<1>6. QED
  BY <1>5

(* What stands behind the header of item k is its data, or was not written.*)
LEMMA DataIs ==
  ASSUME TypeOK, NEW l \in Items, IsPartOf(slot, l), NEW k \in 1 .. Len(l),
         NEW j \in 1 .. Len(l[k].data), Start(l)[k] + j \in DOMAIN slot
  PROVE  slot[Start(l)[k] + j] \in {l[k].data[j], Zero}
<1> DEFINE s == Start(l)[k]
           t == Start(l)[k + 1]
           n == Len(l[k].data)
           o == s + j
<1>1. s \in Nat /\ t \in Nat /\ t = s + 1 + n
      /\ n \in Nat /\ j \in 1 .. n /\ DOMAIN l = 1 .. Len(l)
  BY ItemIs
<1> HIDE DEF s, t, n
<1>2. o \in Nat /\ s < o /\ o < t /\ o - s = j
  BY <1>1
<1> HIDE DEF o
<1>3. o \in DOMAIN slot
  BY DEF o, s
<1>4. CASE slot[o] # Zero
  <2>1. PICK m \in 1 .. Len(l) : IsOfItem(slot[o], o, l, m)
    BY <1>1, <1>3, <1>4 DEF IsPartOf
  <2>2. o # Start(l)[m]
    <3>1. SUFFICES ASSUME o = Start(l)[m] PROVE FALSE
      OBVIOUS
    <3>2. m \in 1 .. Len(l) + 1
      BY ItemIs
    <3>3. QED
      BY <1>2, <3>1, <3>2, NoneInside DEF s, t
  <2>3. /\ Start(l)[m] < o /\ o < Start(l)[m + 1]
        /\ slot[o] = l[m].data[o - Start(l)[m]]
    BY <2>1, <2>2 DEF IsOfItem
  <2>4. m = k
    BY <1>2, <2>3, InsideOne DEF s, t
  <2>5. slot[o] = l[k].data[j]
    BY <1>2, <2>3, <2>4 DEF s
  <2>6. QED
    BY <2>5 DEF o, s
<1>5. QED
  BY <1>4 DEF o, s

(* What a read comes to in a slot with parts of the newest items only.     *)
LEMMA ReadIs ==
  ASSUME ProvisionTypes, SuccessMeansStored, IsPartOf(slot, newest),
         offset \in Reached, slot[offset].type \in Type,
         slot[offset].next <= SLOT_SIZE,
         NEW n, n = slot[offset].next - offset - 1
  PROVE  \E k \in DOMAIN newest :
           /\ newest[k].type = slot[offset].type
           /\ n = Len(newest[k].data)
           /\ \A j \in 1 .. n : slot[offset + j] = newest[k].data[j]
                                \/ (torn /\ slot[offset + j] = Zero)
<1>1. TypeOK /\ newest \in Items
  BY ListsAreItems DEF ProvisionTypes
<1>2. PICK k \in 1 .. Len(newest) :
        /\ offset = Start(newest)[k]
        /\ slot[offset].type = newest[k].type
        /\ slot[offset].next = Start(newest)[k + 1]
  BY <1>1, ReachedIsItem
<1> DEFINE s == Start(newest)[k]
           t == Start(newest)[k + 1]
           data == newest[k].data
           length == Len(data)
<1>3. /\ s \in Nat /\ t \in Nat /\ t = s + 1 + length /\ length \in Nat
      /\ DOMAIN newest = 1 .. Len(newest)
  BY <1>1, ItemIs
<1>4. offset = s /\ n = t - s - 1 /\ t <= SLOT_SIZE
  BY <1>2
<1> HIDE DEF s, t, length
<1>5. n = length
  BY <1>3, <1>4
<1>6. ASSUME NEW j \in 1 .. n
      PROVE  slot[offset + j] = data[j] \/ (torn /\ slot[offset + j] = Zero)
  <2>1. offset + j \in DOMAIN slot
    <3>1. j \in 1 .. length
      BY <1>5
    <3>2. /\ SLOT_SIZE \in Nat /\ s \in Nat /\ length \in Nat
          /\ s + 1 + length <= SLOT_SIZE
      BY <1>3, <1>4, Sizes
    <3>3. s + j \in 0 .. SLOT_SIZE - 1
      BY <3>1, <3>2
    <3>4. offset + j \in 0 .. SLOT_SIZE - 1
      BY <1>4, <3>3
    <3>5. QED
      BY <1>1, <3>4 DEF TypeOK
  <2>2. slot[offset + j] = data[j] \/ slot[offset + j] = Zero
    <3>1. j \in 1 .. Len(newest[k].data)
      BY <1>5 DEF length
    <3>2. Start(newest)[k] + j \in DOMAIN slot
      BY <1>2, <2>1
    <3>3. slot[Start(newest)[k] + j] \in {newest[k].data[j], Zero}
      BY <1>1, <3>1, <3>2, DataIs
    <3>4. QED
      BY <1>2, <3>3
  <2>3. CASE torn
    BY <2>2, <2>3
  <2>4. CASE ~torn
    <3>1. PICK o \in Reached : Holds(o, newest[k])
      BY <1>3, <2>4 DEF SuccessMeansStored
    <3>2. slot[o].type = newest[k].type
      BY <3>1 DEF Holds
    <3>3. PICK m \in 1 .. Len(newest) :
            o = Start(newest)[m] /\ slot[o].type = newest[m].type
      BY <1>1, <1>2, <3>2, ReachedIsItem
    <3>4. m = k
      <4>1. newest[m].type = newest[k].type
        BY <3>2, <3>3
      <4>2. newest \in ItemList \union {<<>>}
        BY <1>1 DEF TypeOK
      <4>3. newest # <<>>
        BY <1>2
      <4>4. QED
        BY <1>3, <4>1, <4>2, <4>3, ItemAssumption
    <3>5. o = offset
      BY <1>2, <3>3, <3>4
    <3>6. j \in DOMAIN newest[k].data
      <4>1. newest[k].data \in Seq(Cell)
        BY <1>1, ItemIs
      <4>2. j \in 1 .. Len(newest[k].data)
        BY <1>5 DEF length
      <4>3. QED
        BY <4>1, <4>2, LenProperties
    <3>7. QED
      BY <3>1, <3>5, <3>6 DEF Holds
  <2>5. QED
    BY <2>3, <2>4
<1>7. QED
  BY <1>2, <1>3, <1>5, <1>6 DEF length

LEMMA NewestStep ==
  ProvisionInvariant /\ [Next]_vars => ReadIsNewest'
<1> SUFFICES ASSUME ProvisionInvariant, [Next]_vars PROVE ReadIsNewest'
  OBVIOUS
<1> USE DEF Return
<1>1. ProvisionTypes /\ TypeOK /\ SuccessMeansStored
  BY DEF ProvisionInvariant, ProvisionTypes
<1>2. ASSUME ~(pc' = "idle" /\ buffer' # NULL /\ status' = "success")
      PROVE  ReadIsNewest'
  BY <1>2 DEF ReadIsNewest, UserRead
<1>3. CASE ReadHeader
  <2> DEFINE header == slot[offset]
             n == header.next - offset - 1
  <2>1. CASE pc' = "idle" /\ buffer' # NULL /\ status' = "success"
    <3>1. /\ pc = "read" /\ header.type = type /\ n \in Nat
          /\ header.next <= SLOT_SIZE /\ buffer' = ReadData(n)
      BY <1>1, <1>3, <2>1, TurnIs DEF Ends, Reading
    <3>2. /\ UNCHANGED <<slot, type, newest, torn, padded, uncleared>>
          /\ Reading
      BY <1>1, <1>3, TurnIs DEF history
    <3>3. type \in Type /\ offset \in Reached
      BY <1>1, <3>2 DEF ProvisionInvariant, ProvisionTypes, Walking
    <3>4. SUFFICES ASSUME Ordinary PROVE ReadIsNewest'
      BY <3>2 DEF ReadIsNewest, Ordinary
    <3>5. IsPartOf(slot, newest)
      <4>1. slot[0] # Zero
        <5>1. SUFFICES ASSUME slot[0] = Zero PROVE FALSE
          OBVIOUS
        <5>2. 0 \in DOMAIN slot /\ slot[0].type = EMPTY
          BY <1>1, <5>1, Sizes DEF TypeOK, Cells
        <5>3. Closed({0})
          BY <5>2 DEF Closed
        <5>4. offset = 0
          BY <3>3, <5>2, <5>3, ReachedWithin
        <5>5. QED
          BY <3>1, <3>3, <5>2, <5>4, CellAssumption
      <4>2. slot[offset] # Blank
        BY <3>1, <3>3, CellAssumption
      <4>3. offset \in DOMAIN slot
        BY <3>3 DEF Reached
      <4>4. QED
        BY <3>4, <4>1, <4>2, <4>3 DEF ProvisionInvariant, SlotKnown
    <3>6. PICK k \in DOMAIN newest :
            /\ newest[k].type = type
            /\ n = Len(newest[k].data)
            /\ \A j \in 1 .. n : slot[offset + j] = newest[k].data[j]
                                 \/ (torn /\ slot[offset + j] = Zero)
      BY <1>1, <3>1, <3>3, <3>5, ReadIs
    <3> HIDE DEF n
    <3>7. /\ DOMAIN buffer' = 1 .. n /\ Len(buffer') = n
          /\ \A j \in 1 .. n : buffer'[j] = slot[offset + j]
      <4>1. ReadData(n) = [j \in 1 .. n |-> slot[offset + j]]
        BY DEF ReadData
      <4>2. DOMAIN ReadData(n) = 1 .. n
            /\ \A j \in 1 .. n : ReadData(n)[j] = slot[offset + j]
        BY <4>1
      <4>3. ReadData(n) \in Seq(Header)
        <5>1. \A j \in 1 .. n : slot[offset + j] \in Header
          <6>1. offset \in 0 .. SLOT_SIZE - 1 /\ header.next \in Nat
            BY <1>1, <3>3 DEF TypeOK, Reached, Header
          <6>2. \A j \in 1 .. n : offset + j \in 0 .. SLOT_SIZE - 1
            BY <3>1, <6>1, Sizes DEF n
          <6>3. QED
            BY <1>1, <6>2 DEF TypeOK
        <5>2. [j \in 1 .. n |-> slot[offset + j]] \in [1 .. n -> Header]
          BY <5>1
        <5>3. QED
          BY <3>1, <4>1, <5>2
      <4>4. Len(ReadData(n)) = n
        BY <3>1, <4>2, <4>3
      <4>5. QED
        BY <3>1, <4>2, <4>4
    <3>8. QED
      BY <3>2, <3>6, <3>7 DEF ReadIsNewest
  <2>2. QED
    BY <1>2, <2>1
<1>4. CASE Verify
  <2>1. CASE pc' = "idle" /\ buffer' # NULL
    <3>1. /\ pc = "verify" /\ buffer # NULL /\ i \in 1 .. Len(items) + 1
          /\ UNCHANGED <<buffer, newest, type>> /\ newest = items
      BY <1>4, <2>1
      DEF Verify, ProvisionInvariant, ProvisionTypes, Replaced, Verifying
    <3>2. /\ i > 1 /\ type = newest[i - 1].type
          /\ buffer = newest[i - 1].data
      BY <3>1 DEF ProvisionInvariant, BufferRead
    <3>3. i - 1 \in DOMAIN newest
      <4>1. DOMAIN newest = 1 .. Len(newest) /\ Len(newest) \in Nat
        BY <1>1, ListsAreItems, LenProperties DEF Items
      <4>2. QED
        BY <3>1, <3>2, <4>1
    <3>4. QED
      BY <3>1, <3>2, <3>3 DEF ReadIsNewest
  <2>2. QED
    BY <1>2, <2>1
<1>5. CASE WriteProvisionData \/ ClearBlock \/ WritePayload \/ Written
  BY <1>2, <1>5 DEF WriteProvisionData, ClearBlock, WritePayload, Written
<1>6. CASE Cleared \/ ReadProvisionItem \/ Abort
  BY <1>2, <1>6 DEF Cleared, ReadProvisionItem, Abort
<1>7. CASE UNCHANGED vars
  BY <1>7
  DEF vars, read, history, ProvisionInvariant, ReadIsNewest, UserRead, Ordinary
<1>8. QED
  BY <1>3, <1>4, <1>5, <1>6, <1>7 DEF Next
-----------------------------------------------------------------------------
LEMMA InitInvariant == Init => ProvisionInvariant
<1> SUFFICES ASSUME Init PROVE ProvisionInvariant
  OBVIOUS
<1>1. ProvisionTypes
  BY InitTypes
<1>2. PICK c \in {Zero, Blank} : slot = [o \in 0 .. SLOT_SIZE - 1 |-> c]
  BY DEF Init
<1>3. newest = <<>> /\ DOMAIN newest = {}
  BY DEF Init
<1>4. SlotKnown
  <2>1. CASE c = Zero
    BY <1>2, <2>1 DEF Init, SlotKnown, Verifying, IsPartOf
  <2>2. CASE c = Blank
    BY <1>2, <2>2 DEF Init, SlotKnown, Verifying
  <2>3. QED
    BY <2>1, <2>2
<1>5. Replaced /\ Verified /\ Walking /\ BufferRead
  BY DEF Init, Replaced, Verified, Walking, BufferRead, Verifying, Reading
<1>6. SuccessMeansStored /\ NotFoundIsAbsent /\ ReadIsNewest
  BY <1>3 DEF Init, SuccessMeansStored, NotFoundIsAbsent, ReadIsNewest, UserRead
<1>7. QED
  BY <1>1, <1>4, <1>5, <1>6 DEF ProvisionInvariant

LEMMA InvariantStep == ProvisionInvariant /\ [Next]_vars => ProvisionInvariant'
<1> SUFFICES ASSUME ProvisionInvariant, [Next]_vars PROVE ProvisionInvariant'
  OBVIOUS
<1>1. /\ ProvisionTypes /\ Replaced /\ Verified /\ Walking /\ BufferRead
      /\ SlotKnown /\ SuccessMeansStored /\ NotFoundIsAbsent
  BY DEF ProvisionInvariant
<1>2. ProvisionTypes' /\ Replaced' /\ BufferRead' /\ SlotKnown'
  BY <1>1, TypesStep, ReplacedStep, BufferReadStep, SlotKnownStep
<1>3. Walking' /\ Verified'
  BY <1>1, WalkingStep, VerifiedStep
<1>4. SuccessMeansStored' /\ NotFoundIsAbsent' /\ ReadIsNewest'
  BY <1>1, StoredStep, NotFoundStep, NewestStep
<1>5. QED
  BY <1>2, <1>3, <1>4 DEF ProvisionInvariant

LEMMA ProvisionInvariantHolds == Spec => []ProvisionInvariant
<1>1. QED
  BY InitInvariant, InvariantStep, PTL DEF Spec

(* The slot, the payload and what the calls keep have their types; a       *)
(* reader's offset stays within the slot and a verified item within those  *)
(* written.                                                                *)
THEOREM ProvisionTypeCorrect == Spec => [](TypeOK /\ ProvisionTypes)
<1>1. ProvisionInvariant => TypeOK /\ ProvisionTypes
  BY DEF ProvisionInvariant, ProvisionTypes
<1>2. QED
  BY <1>1, ProvisionInvariantHolds, PTL

(* What writeProvisionData() confirms is in the list in the slot, item by  *)
(* item, however many of its writes the element has confirmed and not done *)
(* and wherever an earlier call was cut short.                             *)
THEOREM SuccessMeansStoredTheorem == Spec => []SuccessMeansStored
<1>1. ProvisionInvariant => SuccessMeansStored
  BY DEF ProvisionInvariant
<1>2. QED
  BY <1>1, ProvisionInvariantHolds, PTL

(* readProvisionItem() returns an item of the last write, whole if that    *)
(* write was confirmed, and never one of an earlier write.                 *)
THEOREM ReadIsNewestTheorem == Spec => []ReadIsNewest
<1>1. ProvisionInvariant => ReadIsNewest
  BY DEF ProvisionInvariant
<1>2. QED
  BY <1>1, ProvisionInvariantHolds, PTL

(* When readProvisionItem() says that there is no item of that type, there *)
(* is none anywhere in the list in the slot.                               *)
THEOREM NotFoundIsAbsentTheorem == Spec => []NotFoundIsAbsent
<1>1. ProvisionInvariant => NotFoundIsAbsent
  BY DEF ProvisionInvariant
<1>2. QED
  BY <1>1, ProvisionInvariantHolds, PTL
=============================================================================

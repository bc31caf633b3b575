--------------------------- MODULE TileBuffersProofs ---------------------------
(***************************************************************************)
(* Proofs about TileBuffers, for any image, any areas of it and any number *)
(* of calls: its buffers are sound.  First the invariant, then what each   *)
(* operation does to one component, then what each action keeps.           *)
(***************************************************************************)
EXTENDS TileBuffers, FiniteSetTheorems, TLAPS

(* A component: its buffers, and a pointer of each kind to them or to none. *)
Buffer == [size : Nat, of : SUBSET Nat]
Heaps == UNION {[S -> Buffer] : S \in SUBSET (Nat \ {0})}
Component ==
  [heap : Heaps, data : Nat, owns : BOOLEAN, size : Nat, win : Nat, slot : Nat,
   slotSize : Nat, out : Nat, user : Nat, priv : Nat]

(* The pointers that own are distinct, and what they hold is what is       *)
(* allocated: nothing is leaked and nothing is freed twice.                *)
Own(m) == IF m.owns THEN m.data ELSE NULL
Owned(m) ==
  /\ Own(m) # NULL => Own(m) \notin {m.win, m.slot, m.out, m.user, m.priv}
  /\ m.win # NULL => m.win \notin {m.slot, m.out, m.user, m.priv}
  /\ m.slot # NULL => m.slot \notin {m.out, m.user, m.priv}
  /\ m.out # NULL => m.out \notin {m.user, m.priv}
  /\ m.user # NULL => m.user # m.priv
  /\ DOMAIN m.heap = {Own(m), m.win, m.slot, m.out, m.user, m.priv} \ {NULL}

(* The size the tile counts with is not more than what was allocated.      *)
Sized(m) == Own(m) # NULL => m.size <= m.heap[m.data].size

(* The slot of the pool is always empty.                                   *)
Sound(m) == m \in Component /\ Owned(m) /\ Sized(m) /\ m.slot = NULL

------------------------------------------------------------------------------
InPlace == image.encode /\ Single /\ image.plain
Decoding == {"header", "alloc", "t1", "window", "dwt", "update"}
States == Decoding \cup {"idle", "move", "returned", "failed", "encode", "destroyed"}

TypeOK ==
  /\ image \in Images /\ chosen \in SUBSET Comps /\ whole \in BOOLEAN
  /\ stage \in States /\ todo \in SUBSET Tiles
  /\ mem = [c \in Comps |-> mem[c]]

(* What the codec does decides which pointers are used: an encoder has the *)
(* data of the image, a tile borrows it only to encode in place.           *)
Modes ==
  /\ image.encode => stage \in {"idle", "encode", "failed", "destroyed"}
  /\ stage = "encode" => image.encode
  /\ InPlace => \A c \in Comps : ~mem[c].owns
  /\ \A c \in Comps :
       /\ mem[c].priv # NULL => image.encode /\ stage \in {"encode", "failed"}
       /\ (stage # "destroyed" /\ mem[c].data # NULL /\ ~mem[c].owns) =>
             InPlace /\ mem[c].data = mem[c].priv

(* What the buffers of a call hold so far: those of the image the samples  *)
(* of the tiles done, that of the tile its own once it is transformed.     *)
AreaFits == area \in AreasOf(image)

Done == area.tiles \ (todo \cup {tile})
Holds(c, b, tiles) ==
  IF b = NULL THEN Asked(c, tiles) = {} ELSE mem[c].heap[b].of = Asked(c, tiles)

InCall ==
  stage \in Decoding =>
    /\ AreaFits /\ tile \in area.tiles /\ todo \subseteq area.tiles /\ tile \notin todo
    /\ Done = {} => \A c \in Comps : mem[c].out = NULL
    /\ \A c \in Used : Holds(c, mem[c].out, Done)
    /\ stage \in {"t1", "window", "dwt", "update"} => whole = IsWhole
    /\ stage = "window" => ~whole
    /\ stage \in {"dwt", "update"} /\ ~whole =>
         \A c \in Used : mem[c].win = NULL <=> area.kind[tile][c] = "empty"
    /\ stage = "update" => \A c \in Used : Holds(c, Source(mem[c]), {tile})

(* The call is done with its tiles, and every component has its data.      *)
Decoded ==
  stage = "move" =>
    AreaFits /\ \A c \in Used : mem[c].out # NULL /\ Holds(c, mem[c].out, area.tiles)

(* The inductive invariant.                                                *)
IInv ==
  /\ TypeOK /\ (\A c \in Comps : Sound(mem[c])) /\ Modes /\ InCall /\ Decoded
  /\ Delivered /\ RoomForTile

------------------------------------------------------------------------------
\* A heap is a function from some buffers.
LEMMA HeapIsFunction ==
  ASSUME NEW h \in Heaps
  PROVE  /\ DOMAIN h \in SUBSET (Nat \ {0}) /\ h \in [DOMAIN h -> Buffer]
         /\ \A b \in DOMAIN h : h[b] \in Buffer
BY DEF Heaps

\* And such a function is a heap.
LEMMA FunctionIsHeap ==
  ASSUME NEW S \in SUBSET (Nat \ {0}), NEW h \in [S -> Buffer]
  PROVE  h \in Heaps
BY DEF Heaps

\* There is always a buffer that is not allocated yet.
LEMMA NewBufferIsNew ==
  ASSUME NEW m \in Component, Owned(m)
  PROVE  NewBuffer(m) \in Nat \ {0} /\ NewBuffer(m) \notin DOMAIN m.heap
<1> DEFINE H == DOMAIN m.heap
           n == Cardinality(H)
<1>1. IsFiniteSet({Own(m), m.win, m.slot, m.out, m.user, m.priv})
  <2>1. IsFiniteSet({}) /\ IsFiniteSet({} \cup {Own(m)})
    BY FS_AddElement, FS_EmptySet
  <2>2. IsFiniteSet({Own(m)} \cup {m.win})
    BY <2>1, FS_AddElement
  <2>3. IsFiniteSet({Own(m), m.win} \cup {m.slot})
    BY <2>2, FS_AddElement
  <2>4. IsFiniteSet({Own(m), m.win, m.slot} \cup {m.out})
    BY <2>3, FS_AddElement
  <2>5. IsFiniteSet({Own(m), m.win, m.slot, m.out} \cup {m.user})
    BY <2>4, FS_AddElement
  <2>6. IsFiniteSet({Own(m), m.win, m.slot, m.out, m.user} \cup {m.priv})
    BY <2>5, FS_AddElement
  <2> QED
    BY <2>6
<1>2. IsFiniteSet(H) /\ n \in Nat
  BY <1>1, FS_Subset, FS_CardinalityType DEF Owned
<1>3. IsFiniteSet(1..(n + 1)) /\ Cardinality(1..(n + 1)) = n + 1
  <2>1. 1 \in Int /\ n + 1 \in Int /\ 1 <= n + 1 /\ (n + 1) - 1 + 1 = n + 1
    BY <1>2
  <2> QED
    BY <2>1, FS_Interval
<1>4. ~(1..(n + 1) \subseteq H)
  <2>1. SUFFICES ASSUME 1..(n + 1) \subseteq H PROVE FALSE
    OBVIOUS
  <2>2. n + 1 <= n
    BY <2>1, <1>2, <1>3, FS_Subset
  <2> QED
    BY <2>2, <1>2
<1>5. NewBuffer(m) \in 1..(n + 1) /\ NewBuffer(m) \notin H
  BY <1>4 DEF NewBuffer
<1> QED
  BY <1>2, <1>5

\* What malloc and free do to the buffers of a component, and nothing else.
LEMMA FreeGives ==
  ASSUME NEW m \in Component, NEW b \in Nat
  PROVE  /\ Free(m, b) \in Component
         /\ DOMAIN Free(m, b).heap = DOMAIN m.heap \ {b}
         /\ \A x \in DOMAIN m.heap \ {b} : Free(m, b).heap[x] = m.heap[x]
         /\ Free(m, b).data = m.data /\ Free(m, b).owns = m.owns
         /\ Free(m, b).size = m.size /\ Free(m, b).win = m.win
         /\ Free(m, b).slot = m.slot /\ Free(m, b).slotSize = m.slotSize
         /\ Free(m, b).out = m.out /\ Free(m, b).user = m.user /\ Free(m, b).priv = m.priv
<1>1. m.heap \in Heaps
  BY DEF Component
<1> DEFINE h == [x \in DOMAIN m.heap \ {b} |-> m.heap[x]]
<1>2. h \in Heaps
  <2>1. h \in [DOMAIN m.heap \ {b} -> Buffer] /\ DOMAIN m.heap \ {b} \in SUBSET (Nat \ {0})
    BY <1>1, HeapIsFunction
  <2> QED
    BY <2>1, FunctionIsHeap
<1>3. Free(m, b) = [m EXCEPT !.heap = h]
  BY DEF Free
<1>4. DOMAIN h = DOMAIN m.heap \ {b} /\ \A x \in DOMAIN m.heap \ {b} : h[x] = m.heap[x]
  OBVIOUS
<1> HIDE DEF h
<1> QED
  BY <1>2, <1>3, <1>4 DEF Component

\* malloc adds one buffer, of which nothing points yet.
LEMMA AllocGives ==
  ASSUME NEW m \in Component, Owned(m), NEW size \in Nat
  PROVE  /\ Alloc(m, size) \in Component
         /\ DOMAIN Alloc(m, size).heap = DOMAIN m.heap \cup {NewBuffer(m)}
         /\ \A x \in DOMAIN m.heap : Alloc(m, size).heap[x] = m.heap[x]
         /\ Alloc(m, size).heap[NewBuffer(m)] = [size |-> size, of |-> {}]
         /\ Alloc(m, size).data = m.data /\ Alloc(m, size).owns = m.owns
         /\ Alloc(m, size).size = m.size /\ Alloc(m, size).win = m.win
         /\ Alloc(m, size).slot = m.slot /\ Alloc(m, size).slotSize = m.slotSize
         /\ Alloc(m, size).out = m.out /\ Alloc(m, size).user = m.user
         /\ Alloc(m, size).priv = m.priv
<1>1. m.heap \in Heaps
  BY DEF Component
<1>2. NewBuffer(m) \in Nat \ {0} /\ NewBuffer(m) \notin DOMAIN m.heap
  BY NewBufferIsNew
<1> DEFINE n == NewBuffer(m)
           h == [x \in DOMAIN m.heap \cup {n} |->
                   IF x \in DOMAIN m.heap THEN m.heap[x] ELSE [size |-> size, of |-> {}]]
<1>3. h \in Heaps
  <2>1. [size |-> size, of |-> {}] \in Buffer
    BY DEF Buffer
  <2>2. h \in [DOMAIN m.heap \cup {n} -> Buffer]
    BY <1>1, <2>1, HeapIsFunction
  <2>3. DOMAIN m.heap \cup {n} \in SUBSET (Nat \ {0})
    BY <1>1, <1>2, HeapIsFunction
  <2> QED
    BY <2>2, <2>3, FunctionIsHeap
<1>4. Alloc(m, size) = [m EXCEPT !.heap = h]
  BY DEF Alloc
<1>5. /\ DOMAIN h = DOMAIN m.heap \cup {n} /\ \A x \in DOMAIN m.heap : h[x] = m.heap[x]
      /\ h[n] = [size |-> size, of |-> {}]
  BY <1>2
<1> HIDE DEF h
<1> QED
  BY <1>3, <1>4, <1>5 DEF Component

\* Writing samples changes what one buffer holds.
LEMMA FilledGives ==
  ASSUME NEW m \in Component, NEW b \in DOMAIN m.heap, NEW samples \in SUBSET Nat
  PROVE  /\ Filled(m, b, samples) \in Component
         /\ DOMAIN Filled(m, b, samples).heap = DOMAIN m.heap
         /\ \A x \in DOMAIN m.heap :
              /\ Filled(m, b, samples).heap[x].size = m.heap[x].size
              /\ Filled(m, b, samples).heap[x].of = IF x = b THEN samples ELSE m.heap[x].of
         /\ Filled(m, b, samples).data = m.data /\ Filled(m, b, samples).owns = m.owns
         /\ Filled(m, b, samples).size = m.size /\ Filled(m, b, samples).win = m.win
         /\ Filled(m, b, samples).slot = m.slot /\ Filled(m, b, samples).slotSize = m.slotSize
         /\ Filled(m, b, samples).out = m.out /\ Filled(m, b, samples).user = m.user
         /\ Filled(m, b, samples).priv = m.priv
<1>1. m.heap \in Heaps
  BY DEF Component
<1>2. b # NULL /\ m.heap \in [DOMAIN m.heap -> Buffer] /\ DOMAIN m.heap \in SUBSET (Nat \ {0})
  BY <1>1, HeapIsFunction DEF NULL
<1> DEFINE h == [m.heap EXCEPT ![b].of = samples]
<1>3. h \in [DOMAIN m.heap -> Buffer]
  <2>1. [m.heap[b] EXCEPT !.of = samples] \in Buffer
    BY <1>2 DEF Buffer
  <2> QED
    BY <1>2, <2>1
<1>4. h \in Heaps
  BY <1>2, <1>3, FunctionIsHeap
<1>5. /\ DOMAIN h = DOMAIN m.heap
      /\ \A x \in DOMAIN m.heap : /\ h[x].size = m.heap[x].size
                                  /\ h[x].of = IF x = b THEN samples ELSE m.heap[x].of
  BY <1>2 DEF Buffer
<1>6. Filled(m, b, samples) = [m EXCEPT !.heap = h]
  <2>1. Filled(m, b, samples) = [m EXCEPT !.heap[b].of = samples]
    BY <1>2 DEF Filled
  <2> QED
    BY <2>1 DEF Component
<1> HIDE DEF h
<1> QED
  BY <1>4, <1>5, <1>6 DEF Component

------------------------------------------------------------------------------
\* The buffers that are in two heaps are the same in both.
Agree(m, n) == \A b \in DOMAIN m.heap \cap DOMAIN n.heap : n.heap[b] = m.heap[b]

\* What the operations on pointers leave alone.
SameTile(m, n) == n.data = m.data /\ n.owns = m.owns /\ n.size = m.size
SameSlot(m, n) == n.slot = m.slot /\ n.slotSize = m.slotSize

\* The window of a tile-component, freed by opj_tcd_init_tile.
LEMMA FreeWindowGives ==
  ASSUME NEW m \in Component, Owned(m)
  PROVE  /\ FreeWindow(m) \in Component /\ Owned(FreeWindow(m)) /\ Agree(m, FreeWindow(m))
         /\ SameTile(m, FreeWindow(m)) /\ SameSlot(m, FreeWindow(m))
         /\ FreeWindow(m).win = NULL /\ FreeWindow(m).out = m.out
         /\ FreeWindow(m).user = m.user /\ FreeWindow(m).priv = m.priv
<1>1. m.win \in Nat
  BY DEF Component
<1>2. PICK f : f = Free(m, m.win)
  OBVIOUS
<1>3. PICK n : n = FreeWindow(m)
  OBVIOUS
<1>4. n = [f EXCEPT !.win = NULL]
  BY <1>2, <1>3 DEF FreeWindow
<1>5. /\ f \in Component /\ DOMAIN f.heap = DOMAIN m.heap \ {m.win}
      /\ \A x \in DOMAIN m.heap \ {m.win} : f.heap[x] = m.heap[x]
      /\ f.data = m.data /\ f.owns = m.owns /\ f.size = m.size /\ f.win = m.win
      /\ f.slot = m.slot /\ f.slotSize = m.slotSize /\ f.out = m.out /\ f.user = m.user
      /\ f.priv = m.priv
  BY <1>1, <1>2, FreeGives
<1>6. /\ n \in Component /\ n.heap = f.heap /\ n.win = NULL /\ n.data = f.data
      /\ n.owns = f.owns /\ n.size = f.size /\ n.slot = f.slot /\ n.slotSize = f.slotSize
      /\ n.out = f.out /\ n.user = f.user /\ n.priv = f.priv
  BY <1>4, <1>5 DEF Component, NULL
<1>7. Owned(n)
  BY <1>5, <1>6 DEF Owned, Own, NULL
<1> QED
  BY <1>3, <1>5, <1>6, <1>7 DEF Agree, SameTile, SameSlot

\* opj_copy_image_header leaves the codec's image without data.
LEMMA FreshHeaderGives ==
  ASSUME NEW m \in Component, Owned(m)
  PROVE  /\ FreshHeader(m) \in Component /\ Owned(FreshHeader(m)) /\ Agree(m, FreshHeader(m))
         /\ SameTile(m, FreshHeader(m)) /\ SameSlot(m, FreshHeader(m))
         /\ FreshHeader(m).out = NULL /\ FreshHeader(m).win = m.win
         /\ FreshHeader(m).user = m.user /\ FreshHeader(m).priv = m.priv
<1>1. m.out \in Nat
  BY DEF Component
<1>2. PICK f : f = Free(m, m.out)
  OBVIOUS
<1>3. PICK n : n = FreshHeader(m)
  OBVIOUS
<1>4. n = [f EXCEPT !.out = NULL]
  BY <1>2, <1>3 DEF FreshHeader
<1>5. /\ f \in Component /\ DOMAIN f.heap = DOMAIN m.heap \ {m.out}
      /\ \A x \in DOMAIN m.heap \ {m.out} : f.heap[x] = m.heap[x]
      /\ f.data = m.data /\ f.owns = m.owns /\ f.size = m.size /\ f.win = m.win
      /\ f.slot = m.slot /\ f.slotSize = m.slotSize /\ f.out = m.out /\ f.user = m.user
      /\ f.priv = m.priv
  BY <1>1, <1>2, FreeGives
<1>6. /\ n \in Component /\ n.heap = f.heap /\ n.win = f.win /\ n.data = f.data
      /\ n.owns = f.owns /\ n.size = f.size /\ n.slot = f.slot /\ n.slotSize = f.slotSize
      /\ n.out = NULL /\ n.user = f.user /\ n.priv = f.priv
  BY <1>4, <1>5 DEF Component, NULL
<1>7. Owned(n)
  BY <1>5, <1>6 DEF Owned, Own, NULL
<1> QED
  BY <1>3, <1>5, <1>6, <1>7 DEF Agree, SameTile, SameSlot

\* The caller's image gets the data of the codec's.
LEMMA ToUserGives ==
  ASSUME NEW m \in Component, Owned(m)
  PROVE  /\ ToUser(m) \in Component /\ Owned(ToUser(m)) /\ Agree(m, ToUser(m))
         /\ SameTile(m, ToUser(m)) /\ SameSlot(m, ToUser(m))
         /\ ToUser(m).user = m.out /\ ToUser(m).out = NULL
         /\ ToUser(m).win = m.win /\ ToUser(m).priv = m.priv
<1>1. m.user \in Nat /\ m.out \in Nat
  BY DEF Component
<1>2. PICK f : f = Free(m, m.user)
  OBVIOUS
<1>3. PICK n : n = ToUser(m)
  OBVIOUS
<1>4. n = [f EXCEPT !.user = m.out, !.out = NULL]
  BY <1>2, <1>3 DEF ToUser
<1>5. /\ f \in Component /\ DOMAIN f.heap = DOMAIN m.heap \ {m.user}
      /\ \A x \in DOMAIN m.heap \ {m.user} : f.heap[x] = m.heap[x]
      /\ f.data = m.data /\ f.owns = m.owns /\ f.size = m.size /\ f.win = m.win
      /\ f.slot = m.slot /\ f.slotSize = m.slotSize /\ f.out = m.out /\ f.user = m.user
      /\ f.priv = m.priv
  BY <1>1, <1>2, FreeGives
<1>6. /\ n \in Component /\ n.heap = f.heap /\ n.win = f.win /\ n.data = f.data
      /\ n.owns = f.owns /\ n.size = f.size /\ n.slot = f.slot /\ n.slotSize = f.slotSize
      /\ n.out = NULL /\ n.user = m.out /\ n.priv = f.priv
  BY <1>1, <1>4, <1>5 DEF Component, NULL
<1>7. Owned(n)
  BY <1>5, <1>6 DEF Owned, Own, NULL
<1> QED
  BY <1>3, <1>5, <1>6, <1>7 DEF Agree, SameTile, SameSlot

\* A component that was not chosen is freed in both images.
LEMMA LeftToDecoderGives ==
  ASSUME NEW m \in Component, Owned(m)
  PROVE  /\ LeftToDecoder(m) \in Component /\ Owned(LeftToDecoder(m))
         /\ Agree(m, LeftToDecoder(m))
         /\ SameTile(m, LeftToDecoder(m)) /\ SameSlot(m, LeftToDecoder(m))
         /\ LeftToDecoder(m).user = NULL /\ LeftToDecoder(m).out = NULL
         /\ LeftToDecoder(m).win = m.win /\ LeftToDecoder(m).priv = m.priv
<1>1. m.user \in Nat /\ m.out \in Nat
  BY DEF Component
<1>2. PICK f : f = Free(m, m.user)
  OBVIOUS
<1>3. /\ f \in Component /\ DOMAIN f.heap = DOMAIN m.heap \ {m.user}
      /\ \A x \in DOMAIN m.heap \ {m.user} : f.heap[x] = m.heap[x]
      /\ f.data = m.data /\ f.owns = m.owns /\ f.size = m.size /\ f.win = m.win
      /\ f.slot = m.slot /\ f.slotSize = m.slotSize /\ f.out = m.out /\ f.user = m.user
      /\ f.priv = m.priv
  BY <1>1, <1>2, FreeGives
<1>4. PICK g : g = Free(f, f.out)
  OBVIOUS
<1>11. f.out \in Nat
  BY <1>1, <1>3
<1>5. /\ g \in Component /\ DOMAIN g.heap = DOMAIN f.heap \ {f.out}
      /\ \A x \in DOMAIN f.heap \ {f.out} : g.heap[x] = f.heap[x]
      /\ g.data = f.data /\ g.owns = f.owns /\ g.size = f.size /\ g.win = f.win
      /\ g.slot = f.slot /\ g.slotSize = f.slotSize /\ g.out = f.out /\ g.user = f.user
      /\ g.priv = f.priv
  BY <1>11, <1>3, <1>4, FreeGives
<1>6. PICK n : n = LeftToDecoder(m)
  OBVIOUS
<1>7. n = [g EXCEPT !.user = NULL, !.out = NULL]
  BY <1>2, <1>4, <1>6 DEF LeftToDecoder
<1>8. /\ n \in Component /\ n.heap = g.heap /\ n.win = g.win /\ n.data = g.data
      /\ n.owns = g.owns /\ n.size = g.size /\ n.slot = g.slot /\ n.slotSize = g.slotSize
      /\ n.out = NULL /\ n.user = NULL /\ n.priv = g.priv
  BY <1>5, <1>7 DEF Component, NULL
<1>9. DOMAIN n.heap = DOMAIN m.heap \ {m.user, m.out} /\ \A x \in DOMAIN n.heap : n.heap[x] = m.heap[x]
  BY <1>3, <1>5, <1>8
<1>10. Owned(n)
  BY <1>3, <1>5, <1>8, <1>9 DEF Owned, Own, NULL
<1> QED
  BY <1>3, <1>5, <1>6, <1>8, <1>9, <1>10 DEF Agree, SameTile, SameSlot

\* The slot of the pool is emptied.
LEMMA EmptySlotGives ==
  ASSUME NEW m \in Component, Owned(m)
  PROVE  /\ EmptySlot(m) \in Component /\ Owned(EmptySlot(m)) /\ Agree(m, EmptySlot(m))
         /\ SameTile(m, EmptySlot(m)) /\ EmptySlot(m).slot = NULL
         /\ EmptySlot(m).win = m.win /\ EmptySlot(m).out = m.out
         /\ EmptySlot(m).user = m.user /\ EmptySlot(m).priv = m.priv
<1>1. m.slot \in Nat
  BY DEF Component
<1>2. PICK f : f = Free(m, m.slot)
  OBVIOUS
<1>3. PICK n : n = EmptySlot(m)
  OBVIOUS
<1>4. n = [f EXCEPT !.slot = NULL, !.slotSize = 0]
  BY <1>2, <1>3 DEF EmptySlot
<1>5. /\ f \in Component /\ DOMAIN f.heap = DOMAIN m.heap \ {m.slot}
      /\ \A x \in DOMAIN m.heap \ {m.slot} : f.heap[x] = m.heap[x]
      /\ f.data = m.data /\ f.owns = m.owns /\ f.size = m.size /\ f.win = m.win
      /\ f.slot = m.slot /\ f.slotSize = m.slotSize /\ f.out = m.out /\ f.user = m.user
      /\ f.priv = m.priv
  BY <1>1, <1>2, FreeGives
<1>6. /\ n \in Component /\ n.heap = f.heap /\ n.win = f.win /\ n.data = f.data
      /\ n.owns = f.owns /\ n.size = f.size /\ n.slot = NULL
      /\ n.out = f.out /\ n.user = f.user /\ n.priv = f.priv
  BY <1>4, <1>5 DEF Component, NULL
<1>7. Owned(n)
  BY <1>5, <1>6 DEF Owned, Own, NULL
<1> QED
  BY <1>3, <1>5, <1>6, <1>7 DEF Agree, SameTile

\* The tile's own buffer is given back.
LEMMA DropTileData ==
  ASSUME NEW m \in Component, Owned(m), m.owns, m.data # NULL,
         NEW n, n = [Free(m, m.data) EXCEPT !.data = NULL, !.owns = FALSE, !.size = 0]
  PROVE  /\ n \in Component /\ Owned(n) /\ Agree(m, n) /\ SameSlot(m, n)
         /\ n.data = NULL /\ n.owns = FALSE /\ n.win = m.win /\ n.out = m.out
         /\ n.user = m.user /\ n.priv = m.priv
<1>1. m.data \in Nat
  BY DEF Component
<1>2. PICK f : f = Free(m, m.data)
  OBVIOUS
<1>3. n = [f EXCEPT !.data = NULL, !.owns = FALSE, !.size = 0]
  BY <1>2
<1>4. /\ f \in Component /\ DOMAIN f.heap = DOMAIN m.heap \ {m.data}
      /\ \A x \in DOMAIN m.heap \ {m.data} : f.heap[x] = m.heap[x]
      /\ f.data = m.data /\ f.owns = m.owns /\ f.size = m.size /\ f.win = m.win
      /\ f.slot = m.slot /\ f.slotSize = m.slotSize /\ f.out = m.out /\ f.user = m.user
      /\ f.priv = m.priv
  BY <1>1, <1>2, FreeGives
<1>5. /\ n \in Component /\ n.heap = f.heap /\ n.win = f.win /\ n.data = NULL
      /\ n.owns = FALSE /\ n.slot = f.slot /\ n.slotSize = f.slotSize
      /\ n.out = f.out /\ n.user = f.user /\ n.priv = f.priv
  <2>1. n.heap = f.heap /\ n.win = f.win /\ n.data = NULL
        /\ n.slot = f.slot /\ n.slotSize = f.slotSize
        /\ n.out = f.out /\ n.user = f.user /\ n.priv = f.priv
    BY <1>3, <1>4 DEF Component, NULL
  <2>2. n.owns = FALSE
    BY <1>3, <1>4 DEF Component
  <2>3. n \in Component
    <3>1. [f EXCEPT !.data = NULL] \in Component
      BY <1>4 DEF Component, NULL
    <3>2. [[f EXCEPT !.data = NULL] EXCEPT !.owns = FALSE] \in Component
      BY <3>1 DEF Component
    <3>3. [[[f EXCEPT !.data = NULL] EXCEPT !.owns = FALSE] EXCEPT !.size = 0] \in Component
      BY <3>2 DEF Component
    <3> QED
      BY <1>3, <3>3
  <2> QED
    BY <2>1, <2>2, <2>3
<1>6. Owned(n)
  BY <1>4, <1>5 DEF Owned, Own, NULL
<1> QED
  BY <1>4, <1>5, <1>6 DEF Agree, SameSlot

\* The buffers of a component that are not the tile's, nor in the pool.
Others(m) == {m.win, m.out, m.user, m.priv} \ {NULL}

\* Of a tile's buffer: it is there and large enough, or malloc has failed.
LEMMA AllocTileDataGives ==
  ASSUME NEW m, Sound(m), m.data # NULL => m.owns, NEW need \in Nat \ {0}, NEW ok \in BOOLEAN
  PROVE  /\ Sound(AllocTileData(m, need, ok))
         /\ \A b \in Others(m) : AllocTileData(m, need, ok).heap[b] = m.heap[b]
         /\ AllocTileData(m, need, ok).data # NULL =>
              /\ AllocTileData(m, need, ok).owns
              /\ AllocTileData(m, need, ok).heap[AllocTileData(m, need, ok).data].size >= need
         /\ ok => AllocTileData(m, need, ok).data # NULL
         /\ AllocTileData(m, need, ok).win = m.win /\ AllocTileData(m, need, ok).out = m.out
         /\ AllocTileData(m, need, ok).user = m.user /\ AllocTileData(m, need, ok).priv = m.priv
<1>1. PICK n : n = AllocTileData(m, need, ok)
  OBVIOUS
<1> DEFINE Goal == /\ Sound(n) /\ (\A b \in Others(m) : n.heap[b] = m.heap[b])
                   /\ n.data # NULL => n.owns /\ n.heap[n.data].size >= need
                   /\ ok => n.data # NULL
                   /\ n.win = m.win /\ n.out = m.out /\ n.user = m.user /\ n.priv = m.priv
<1>2. m \in Component /\ Owned(m) /\ Sized(m) /\ m.slot = NULL
  BY DEF Sound
<1>3. CASE m.data # NULL /\ need <= m.size
  <2>1. n = m
    BY <1>1, <1>3 DEF AllocTileData
  <2>2. m.owns /\ Own(m) = m.data /\ m.size <= m.heap[m.data].size
    BY <1>2, <1>3 DEF Sized, Own
  <2>3. m.data \in DOMAIN m.heap
    BY <1>2, <1>3, <2>2 DEF Owned
  <2>4. m.heap[m.data].size \in Nat /\ m.size \in Nat
    BY <1>2, <2>3, HeapIsFunction DEF Component, Buffer
  <2>5. m.heap[m.data].size >= need
    BY <1>3, <2>2, <2>4
  <2>6. Goal
    BY <2>1, <2>2, <2>5, <1>3
  <2> QED
    BY <2>6, <1>1
<1>4. CASE ~(m.data # NULL /\ need <= m.size)
  <2>1. PICK d : d = IF m.owns /\ m.data # NULL
                       THEN [Free(m, m.data) EXCEPT !.data = NULL, !.owns = FALSE, !.size = 0]
                       ELSE m
    OBVIOUS
  <2>2. /\ d \in Component /\ Owned(d) /\ Agree(m, d) /\ d.slot = NULL
        /\ d.data = NULL /\ d.win = m.win /\ d.out = m.out
        /\ d.user = m.user /\ d.priv = m.priv
    <3>1. CASE m.owns /\ m.data # NULL
      <4>1. d = [Free(m, m.data) EXCEPT !.data = NULL, !.owns = FALSE, !.size = 0]
        BY <2>1, <3>1
      <4> QED
        BY <4>1, <3>1, <1>2, DropTileData DEF SameSlot
    <3>2. CASE ~(m.owns /\ m.data # NULL)
      <4>1. d = m /\ m.data = NULL
        BY <2>1, <3>2
      <4> QED
        BY <4>1, <1>2 DEF Agree
    <3> QED
      BY <3>1, <3>2
  <2>3. PICK e : e = EmptySlot(d)
    OBVIOUS
  <2>4. /\ e \in Component /\ Owned(e) /\ Agree(d, e) /\ e.slot = NULL
        /\ e.data = NULL /\ e.win = m.win /\ e.out = m.out
        /\ e.user = m.user /\ e.priv = m.priv
    BY <2>2, <2>3, EmptySlotGives DEF SameTile
  <2>5. n = IF ok THEN [Alloc(e, need) EXCEPT !.data = NewBuffer(e), !.size = need, !.owns = TRUE]
                  ELSE [e EXCEPT !.data = NULL]
    BY <1>1, <1>4, <2>1, <2>2, <2>3 DEF AllocTileData
  <2>6. DOMAIN e.heap = {e.win, e.out, e.user, e.priv} \ {NULL}
    BY <2>4 DEF Owned, Own
  <2>7. DOMAIN d.heap = {d.win, d.out, d.user, d.priv} \ {NULL}
    BY <2>2 DEF Owned, Own
  <2>8. DOMAIN e.heap = DOMAIN d.heap /\ DOMAIN d.heap \subseteq DOMAIN m.heap
    BY <2>2, <2>4, <2>6, <2>7, <1>2 DEF Owned
  <2>9. \A b \in DOMAIN e.heap : e.heap[b] = m.heap[b]
    BY <2>2, <2>4, <2>8 DEF Agree
  <2>10. CASE ok
    <3>1. PICK a : a = Alloc(e, need)
      OBVIOUS
    <3>2. PICK x : x = NewBuffer(e)
      OBVIOUS
    <3>3. /\ a \in Component /\ DOMAIN a.heap = DOMAIN e.heap \cup {x}
          /\ \A b \in DOMAIN e.heap : a.heap[b] = e.heap[b]
          /\ a.heap[x] = [size |-> need, of |-> {}]
          /\ a.data = e.data /\ a.owns = e.owns /\ a.win = e.win
          /\ a.slot = e.slot /\ a.out = e.out /\ a.user = e.user /\ a.priv = e.priv
      BY <2>4, <3>1, <3>2, AllocGives
    <3>4. x \in Nat \ {0} /\ x \notin DOMAIN e.heap
      BY <2>4, <3>2, NewBufferIsNew
    <3>5. n = [a EXCEPT !.data = x, !.size = need, !.owns = TRUE]
      BY <2>5, <2>10, <3>1, <3>2
    <3>6. n \in Component
      <4>1. [a EXCEPT !.data = x] \in Component
        BY <3>3, <3>4 DEF Component
      <4>2. [[a EXCEPT !.data = x] EXCEPT !.size = need] \in Component
        BY <4>1 DEF Component
      <4>3. [[[a EXCEPT !.data = x] EXCEPT !.size = need] EXCEPT !.owns = TRUE] \in Component
        BY <4>2 DEF Component
      <4> QED
        BY <3>5, <4>3
    <3>7. /\ n.heap = a.heap /\ n.data = x /\ n.size = need /\ n.win = e.win
          /\ n.slot = e.slot /\ n.out = e.out /\ n.user = e.user /\ n.priv = e.priv
      BY <3>3, <3>5 DEF Component
    <3>8. n.owns = TRUE
      BY <3>3, <3>5 DEF Component
    <3>9. Own(n) = x /\ x # NULL
      BY <3>4, <3>7, <3>8 DEF Own, NULL
    <3>10. Owned(n)
      BY <2>4, <2>6, <3>3, <3>4, <3>7, <3>9 DEF Owned
    <3>11. n.heap[n.data].size = need
      BY <3>3, <3>7
    <3>12. Sound(n)
      BY <2>4, <3>6, <3>7, <3>10, <3>11 DEF Sound, Sized
    <3>13. \A b \in Others(m) : n.heap[b] = m.heap[b]
      BY <3>3, <3>7, <2>4, <2>6, <2>9 DEF Others
    <3> QED
      BY <1>1, <2>4, <3>7, <3>8, <3>9, <3>11, <3>12, <3>13
  <2>11. CASE ~ok
    <3>1. n = [e EXCEPT !.data = NULL]
      BY <2>5, <2>11
    <3>2. /\ n \in Component /\ n.heap = e.heap /\ n.data = NULL /\ n.win = e.win
          /\ n.slot = e.slot /\ n.out = e.out /\ n.user = e.user /\ n.priv = e.priv
      BY <2>4, <3>1 DEF Component, NULL
    <3>3. Own(n) = NULL /\ Own(e) = NULL
      BY <3>2, <2>4 DEF Own
    <3>4. Owned(n)
      BY <2>4, <3>2, <3>3 DEF Owned
    <3>5. Sound(n) /\ \A b \in Others(m) : n.heap[b] = m.heap[b]
      BY <2>4, <2>6, <2>9, <3>2, <3>3, <3>4 DEF Sound, Sized, Others
    <3> QED
      BY <1>1, <2>4, <2>11, <3>2, <3>5
  <2> QED
    BY <2>10, <2>11
<1> QED
  BY <1>3, <1>4

\* What the image has of the tiles before stays.
LEMMA AllocTileDataKeepsOut ==
  ASSUME NEW m, Sound(m), m.data # NULL => m.owns, NEW need \in Nat \ {0}, NEW ok \in BOOLEAN,
         m.out # NULL
  PROVE  AllocTileData(m, need, ok).heap[m.out] = m.heap[m.out]
<1>1. m.out \in Others(m)
  BY DEF Others
<1> QED
  BY <1>1, AllocTileDataGives

\* The tile's data becomes the image's.
LEMMA TransferGives ==
  ASSUME NEW m, Sound(m), m.data # NULL => m.owns, m.out = NULL, NEW size
  PROVE  /\ Sound(Transfer(m, size)) /\ Transfer(m, size).heap = m.heap
         /\ Transfer(m, size).out = m.data /\ Transfer(m, size).data = NULL
         /\ Transfer(m, size).priv = m.priv
<1>1. PICK n : n = Transfer(m, size)
  OBVIOUS
<1>2. m \in Component /\ Owned(m) /\ Sized(m) /\ m.slot = NULL
  BY DEF Sound
<1>3. n = [m EXCEPT !.out = m.data, !.data = NULL]
  BY <1>1 DEF Transfer, Recycle
<1>4. /\ n \in Component /\ n.heap = m.heap /\ n.out = m.data /\ n.data = NULL
      /\ n.win = m.win /\ n.slot = m.slot /\ n.user = m.user /\ n.priv = m.priv
  BY <1>2, <1>3 DEF Component, NULL
<1>5. Own(n) = NULL
  BY <1>4 DEF Own
<1>6. m.data = Own(m)
  BY DEF Own, NULL
<1>7. Owned(n)
  BY <1>2, <1>4, <1>5, <1>6 DEF Owned
<1> QED
  BY <1>1, <1>2, <1>4, <1>5, <1>7 DEF Sound, Sized

\* The image gets the tile's buffer instead of a copy.
LEMMA LendGives ==
  ASSUME NEW m, Sound(m), m.data # NULL => m.owns, m.out = NULL, whole \in BOOLEAN
  PROVE  /\ Sound(Lend(m)) /\ Lend(m).heap = m.heap /\ Lend(m).out = Source(m)
         /\ (Lend(m).data # NULL => Lend(m).owns) /\ Lend(m).priv = m.priv
<1>1. PICK n : n = Lend(m)
  OBVIOUS
<1>2. m \in Component /\ Owned(m) /\ Sized(m) /\ m.slot = NULL
  BY DEF Sound
<1>3. CASE whole
  <2>1. n = [m EXCEPT !.out = m.data, !.data = NULL]
    BY <1>1, <1>3 DEF Lend
  <2>2. /\ n \in Component /\ n.heap = m.heap /\ n.out = m.data /\ n.data = NULL
        /\ n.win = m.win /\ n.slot = m.slot /\ n.user = m.user /\ n.priv = m.priv
    BY <1>2, <2>1 DEF Component, NULL
  <2>3. Own(n) = NULL
    BY <2>2 DEF Own
  <2>4. m.data = Own(m)
    BY DEF Own, NULL
  <2>5. Owned(n)
    BY <1>2, <2>2, <2>3, <2>4 DEF Owned
  <2> QED
    BY <1>1, <1>2, <1>3, <2>2, <2>3, <2>5 DEF Sound, Sized, Source
<1>4. CASE ~whole
  <2>1. n = [m EXCEPT !.out = m.win, !.win = NULL]
    BY <1>1, <1>4 DEF Lend
  <2>2. /\ n \in Component /\ n.heap = m.heap /\ n.out = m.win /\ n.data = m.data
        /\ n.win = NULL /\ n.slot = m.slot /\ n.user = m.user /\ n.priv = m.priv
        /\ n.owns = m.owns /\ n.size = m.size
    BY <1>2, <2>1 DEF Component, NULL
  <2>3. Own(n) = Own(m)
    BY <2>2 DEF Own
  <2>5. Owned(n)
    BY <1>2, <2>2, <2>3 DEF Owned, NULL
  <2> QED
    BY <1>1, <1>2, <1>4, <2>2, <2>3, <2>5 DEF Sound, Sized, Source
<1> QED
  BY <1>3, <1>4

\* Filling a buffer changes neither who owns it nor its size.
LEMMA FilledSound ==
  ASSUME NEW m, Sound(m), NEW b \in DOMAIN m.heap, NEW samples \in SUBSET Nat
  PROVE  /\ Sound(Filled(m, b, samples))
         /\ DOMAIN Filled(m, b, samples).heap = DOMAIN m.heap
         /\ \A x \in DOMAIN m.heap :
              /\ Filled(m, b, samples).heap[x].size = m.heap[x].size
              /\ Filled(m, b, samples).heap[x].of = IF x = b THEN samples ELSE m.heap[x].of
         /\ SameTile(m, Filled(m, b, samples))
         /\ Filled(m, b, samples).win = m.win /\ Filled(m, b, samples).out = m.out
         /\ Filled(m, b, samples).user = m.user /\ Filled(m, b, samples).priv = m.priv
<1>1. PICK n : n = Filled(m, b, samples)
  OBVIOUS
<1>2. m \in Component /\ Owned(m) /\ Sized(m) /\ m.slot = NULL
  BY DEF Sound
<1>3. /\ n \in Component /\ DOMAIN n.heap = DOMAIN m.heap
      /\ \A x \in DOMAIN m.heap :
           /\ n.heap[x].size = m.heap[x].size
           /\ n.heap[x].of = IF x = b THEN samples ELSE m.heap[x].of
      /\ n.data = m.data /\ n.owns = m.owns /\ n.size = m.size /\ n.win = m.win
      /\ n.slot = m.slot /\ n.out = m.out /\ n.user = m.user /\ n.priv = m.priv
  BY <1>1, <1>2, FilledGives
<1>4. Own(n) = Own(m)
  BY <1>3 DEF Own
<1>5. Owned(n)
  BY <1>2, <1>3, <1>4 DEF Owned
<1>6. Sized(n)
  <2>1. Own(m) # NULL => m.data \in DOMAIN m.heap
    BY <1>2 DEF Owned, Own
  <2> QED
    BY <1>2, <1>3, <1>4, <2>1 DEF Sized
<1> QED
  BY <1>1, <1>2, <1>3, <1>5, <1>6 DEF Sound, SameTile

\* A new buffer of a component.
LEMMA AllocSound ==
  ASSUME NEW m, Sound(m), NEW size \in Nat
  PROVE  /\ NewBuffer(m) \in Nat \ {0} /\ NewBuffer(m) \notin DOMAIN m.heap
         /\ Alloc(m, size) \in Component /\ Sized(Alloc(m, size))
         /\ DOMAIN Alloc(m, size).heap = DOMAIN m.heap \cup {NewBuffer(m)}
         /\ \A x \in DOMAIN m.heap : Alloc(m, size).heap[x] = m.heap[x]
         /\ Alloc(m, size).heap[NewBuffer(m)].of = {}
         /\ SameTile(m, Alloc(m, size)) /\ SameSlot(m, Alloc(m, size))
         /\ Alloc(m, size).win = m.win /\ Alloc(m, size).out = m.out
         /\ Alloc(m, size).user = m.user /\ Alloc(m, size).priv = m.priv
<1>1. m \in Component /\ Owned(m) /\ Sized(m) /\ m.slot = NULL
  BY DEF Sound
<1>2. PICK a : a = Alloc(m, size)
  OBVIOUS
<1>3. PICK x : x = NewBuffer(m)
  OBVIOUS
<1>4. x \in Nat \ {0} /\ x \notin DOMAIN m.heap
  BY <1>1, <1>3, NewBufferIsNew
<1>5. /\ a \in Component /\ DOMAIN a.heap = DOMAIN m.heap \cup {x}
      /\ \A b \in DOMAIN m.heap : a.heap[b] = m.heap[b]
      /\ a.heap[x] = [size |-> size, of |-> {}]
      /\ a.data = m.data /\ a.owns = m.owns /\ a.size = m.size /\ a.win = m.win
      /\ a.slot = m.slot /\ a.slotSize = m.slotSize /\ a.out = m.out /\ a.user = m.user
      /\ a.priv = m.priv
  BY <1>1, <1>2, <1>3, AllocGives
<1>6. Own(m) # NULL => m.data \in DOMAIN m.heap
  BY <1>1 DEF Owned, Own
<1>7. Sized(a)
  BY <1>1, <1>5, <1>6 DEF Sized, Own
<1> QED
  BY <1>2, <1>3, <1>4, <1>5, <1>7 DEF SameTile, SameSlot

\* A buffer that a component points to is allocated.
LEMMA PointersAllocated ==
  ASSUME NEW m, Sound(m)
  PROVE  /\ \A b \in Others(m) : b \in DOMAIN m.heap
         /\ Own(m) # NULL => m.data \in DOMAIN m.heap
         /\ \A b \in DOMAIN m.heap : m.heap[b].size \in Nat /\ m.heap[b].of \in SUBSET Nat
<1>1. m \in Component /\ Owned(m)
  BY DEF Sound
<1>2. \A b \in DOMAIN m.heap : m.heap[b].size \in Nat /\ m.heap[b].of \in SUBSET Nat
  BY <1>1, HeapIsFunction DEF Component, Buffer
<1> QED
  BY <1>1, <1>2 DEF Owned, Others, Own

\* The samples of the tile are copied to the image's.
LEMMA CopyGives ==
  ASSUME NEW m, Sound(m), m.data # NULL => m.owns, m.out # NULL, Source(m) # NULL,
         whole \in BOOLEAN
  PROVE  /\ Sound(Copy(m)) /\ SameTile(m, Copy(m)) /\ Copy(m).out = m.out
         /\ Copy(m).priv = m.priv
         /\ Copy(m).heap[m.out].of = m.heap[m.out].of \cup m.heap[Source(m)].of
<1>1. m.out \in DOMAIN m.heap
  BY PointersAllocated DEF Others
<1>2. Source(m) \in DOMAIN m.heap
  BY PointersAllocated DEF Others, Source, Own
<1>3. PICK s : s = m.heap[m.out].of \cup m.heap[Source(m)].of
  OBVIOUS
<1>4. s \in SUBSET Nat
  BY <1>1, <1>2, <1>3, PointersAllocated
<1>5. PICK b : b = m.out
  OBVIOUS
<1>6. Copy(m) = Filled(m, b, s)
  BY <1>3, <1>5 DEF Copy
<1>7. /\ Sound(Filled(m, b, s)) /\ Filled(m, b, s).heap[b].of = s
      /\ SameTile(m, Filled(m, b, s)) /\ Filled(m, b, s).out = m.out
      /\ Filled(m, b, s).priv = m.priv
  BY <1>1, <1>4, <1>5, FilledSound
<1> QED
  BY <1>3, <1>5, <1>6, <1>7

\* opj_j2k_update_image_data: after what it copies, lends or cannot allocate,
\* the image has the samples it had and those of the tile.
LEMMA UpdateGives ==
  ASSUME NEW m, Sound(m), m.data # NULL => m.owns, Source(m) # NULL, whole \in BOOLEAN,
         NEW c, NEW ok \in BOOLEAN
  PROVE  /\ Sound(Update(c, m, ok)) /\ (Update(c, m, ok).data # NULL => Update(c, m, ok).owns)
         /\ Update(c, m, ok).priv = m.priv
         /\ ok => Update(c, m, ok).out # NULL
         /\ Update(c, m, ok).out # NULL =>
              Update(c, m, ok).heap[Update(c, m, ok).out].of =
                (IF m.out = NULL THEN {} ELSE m.heap[m.out].of) \cup m.heap[Source(m)].of
<1>1. CASE m.out # NULL
  <2>1. Update(c, m, ok) = Copy(m)
    BY <1>1 DEF Update
  <2> QED
    BY <1>1, <2>1, CopyGives DEF SameTile
<1>2. CASE m.out = NULL /\ Fits(c)
  <2>1. Update(c, m, ok) = Lend(m)
    BY <1>2 DEF Update
  <2>2. /\ Sound(Lend(m)) /\ Lend(m).heap = m.heap /\ Lend(m).out = Source(m)
        /\ (Lend(m).data # NULL => Lend(m).owns) /\ Lend(m).priv = m.priv
    BY <1>2, LendGives
  <2> QED
    BY <1>2, <2>1, <2>2
<1>3. CASE m.out = NULL /\ ~Fits(c) /\ ok
  <2>1. PICK x : x = NewBuffer(m)
    OBVIOUS
  <2>2. PICK a : a = Alloc(m, 1)
    OBVIOUS
  <2>3. PICK e : e = [a EXCEPT !.out = x]
    OBVIOUS
  <2>4. Update(c, m, ok) = Copy(e)
    BY <1>3, <2>1, <2>2, <2>3 DEF Update
  <2>5. /\ x \in Nat \ {0} /\ x \notin DOMAIN m.heap
        /\ a \in Component /\ Sized(a) /\ DOMAIN a.heap = DOMAIN m.heap \cup {x}
        /\ \A b \in DOMAIN m.heap : a.heap[b] = m.heap[b]
        /\ a.heap[x].of = {}
        /\ a.data = m.data /\ a.owns = m.owns /\ a.size = m.size
        /\ a.slot = m.slot /\ a.win = m.win /\ a.out = m.out
        /\ a.user = m.user /\ a.priv = m.priv
    BY <2>1, <2>2, AllocSound DEF SameTile, SameSlot
  <2>6. /\ e \in Component /\ e.heap = a.heap /\ e.out = x /\ e.data = m.data
        /\ e.owns = m.owns /\ e.size = m.size /\ e.slot = m.slot /\ e.win = m.win
        /\ e.user = m.user /\ e.priv = m.priv
    BY <2>3, <2>5 DEF Component
  <2>7. Own(e) = Own(m) /\ Own(a) = Own(m)
    BY <2>5, <2>6 DEF Own
  <2>8. m \in Component /\ Owned(m) /\ m.slot = NULL
    BY DEF Sound
  <2>9. Owned(e)
    BY <1>3, <2>5, <2>6, <2>7, <2>8 DEF Owned, NULL
  <2>10. Sound(e)
    BY <2>5, <2>6, <2>7, <2>8, <2>9 DEF Sound, Sized
  <2>11. Source(e) = Source(m)
    BY <2>6 DEF Source
  <2>12. Source(m) \in DOMAIN m.heap
    BY PointersAllocated DEF Others, Source, Own
  <2>13. e.out # NULL
    BY <2>5, <2>6 DEF NULL
  <2>14. /\ Sound(Copy(e)) /\ SameTile(e, Copy(e)) /\ Copy(e).out = e.out
         /\ Copy(e).priv = e.priv
         /\ Copy(e).heap[e.out].of = e.heap[e.out].of \cup e.heap[Source(e)].of
    BY <2>6, <2>10, <2>11, <2>13, CopyGives
  <2>15. e.heap[e.out].of = {} /\ e.heap[Source(e)] = m.heap[Source(m)]
    BY <2>5, <2>6, <2>11, <2>12
  <2> QED
    BY <1>3, <2>4, <2>6, <2>13, <2>14, <2>15 DEF SameTile
<1>4. CASE m.out = NULL /\ ~Fits(c) /\ ~ok
  <2>1. Update(c, m, ok) = m
    BY <1>4 DEF Update
  <2> QED
    BY <1>4, <2>1
<1> QED
  BY <1>1, <1>2, <1>3, <1>4

\* A window gets a new buffer, or none.
LEMMA NewWindowGives ==
  ASSUME NEW m, Sound(m), NEW n,
         n = [Alloc(FreeWindow(m), 1) EXCEPT !.win = NewBuffer(FreeWindow(m))]
  PROVE  /\ Sound(n) /\ SameTile(m, n) /\ n.win # NULL /\ n.out = m.out
         /\ n.user = m.user /\ n.priv = m.priv
         /\ m.out # NULL => n.heap[m.out] = m.heap[m.out]
<1>1. m \in Component /\ Owned(m) /\ Sized(m) /\ m.slot = NULL
  BY DEF Sound
<1>2. PICK f : f = FreeWindow(m)
  OBVIOUS
<1>3. /\ f \in Component /\ Owned(f) /\ Agree(m, f) /\ SameTile(m, f) /\ f.slot = m.slot
      /\ f.win = NULL /\ f.out = m.out /\ f.user = m.user /\ f.priv = m.priv
  BY <1>1, <1>2, FreeWindowGives DEF SameSlot
<1>4. Sound(f)
  <2>1. Own(f) = Own(m) /\ f.data = m.data /\ f.size = m.size
    BY <1>3 DEF SameTile, Own
  <2>2. Own(m) # NULL => m.data \in DOMAIN m.heap /\ m.data \in DOMAIN f.heap
    BY <2>1, <1>1, <1>3 DEF Owned, Own
  <2>3. Sized(f)
    BY <2>1, <2>2, <1>1, <1>3 DEF Sized, Agree
  <2> QED
    BY <1>1, <1>3, <2>3 DEF Sound
<1>5. PICK x : x = NewBuffer(f)
  OBVIOUS
<1>6. PICK a : a = Alloc(f, 1)
  OBVIOUS
<1>7. /\ x \in Nat \ {0} /\ x \notin DOMAIN f.heap
      /\ a \in Component /\ Sized(a) /\ DOMAIN a.heap = DOMAIN f.heap \cup {x}
      /\ \A b \in DOMAIN f.heap : a.heap[b] = f.heap[b]
      /\ a.data = f.data /\ a.owns = f.owns /\ a.size = f.size
      /\ a.slot = f.slot /\ a.win = f.win /\ a.out = f.out
      /\ a.user = f.user /\ a.priv = f.priv
  BY <1>4, <1>5, <1>6, AllocSound DEF SameTile, SameSlot
<1>8. n = [a EXCEPT !.win = x]
  BY <1>2, <1>5, <1>6
<1>9. /\ n \in Component /\ n.heap = a.heap /\ n.win = x /\ n.data = f.data
      /\ n.owns = f.owns /\ n.size = f.size /\ n.slot = f.slot /\ n.out = f.out
      /\ n.user = f.user /\ n.priv = f.priv
  BY <1>7, <1>8 DEF Component
<1>10. Own(n) = Own(f) /\ Own(a) = Own(f)
  BY <1>7, <1>9 DEF Own
<1>11. Owned(n)
  BY <1>3, <1>7, <1>9, <1>10 DEF Owned, NULL
<1>12. Sound(n)
  BY <1>1, <1>3, <1>7, <1>9, <1>10, <1>11 DEF Sound, Sized
<1>13. \A b \in Others(n) \ {n.win} : b \in DOMAIN f.heap /\ b \in DOMAIN m.heap
  BY <1>1, <1>3, <1>9 DEF Others, Owned
<1>14. \A b \in Others(n) \ {n.win} : n.heap[b] = m.heap[b]
  BY <1>3, <1>7, <1>9, <1>13 DEF Agree
<1>15. m.out # NULL => m.out \in Others(n) \ {n.win}
  BY <1>3, <1>7, <1>9, <1>11 DEF Others, Owned
<1> QED
  BY <1>3, <1>7, <1>9, <1>12, <1>14, <1>15 DEF SameTile, NULL

\* The window is freed, and no other buffer.
LEMMA NoWindowGives ==
  ASSUME NEW m, Sound(m)
  PROVE  /\ Sound(FreeWindow(m)) /\ SameTile(m, FreeWindow(m)) /\ FreeWindow(m).win = NULL
         /\ FreeWindow(m).out = m.out /\ FreeWindow(m).user = m.user
         /\ FreeWindow(m).priv = m.priv
         /\ \A b \in Others(FreeWindow(m)) : FreeWindow(m).heap[b] = m.heap[b]
<1>1. m \in Component /\ Owned(m) /\ Sized(m) /\ m.slot = NULL
  BY DEF Sound
<1>2. PICK f : f = FreeWindow(m)
  OBVIOUS
<1>3. /\ f \in Component /\ Owned(f) /\ Agree(m, f) /\ SameTile(m, f) /\ f.slot = m.slot
      /\ f.win = NULL /\ f.out = m.out /\ f.user = m.user /\ f.priv = m.priv
  BY <1>1, <1>2, FreeWindowGives DEF SameSlot
<1>4. Sound(f)
  <2>1. Own(f) = Own(m) /\ f.data = m.data /\ f.size = m.size
    BY <1>3 DEF SameTile, Own
  <2>2. Own(m) # NULL => m.data \in DOMAIN m.heap /\ m.data \in DOMAIN f.heap
    BY <2>1, <1>1, <1>3 DEF Owned, Own
  <2>3. Sized(f)
    BY <2>1, <2>2, <1>1, <1>3 DEF Sized, Agree
  <2> QED
    BY <1>1, <1>3, <2>3 DEF Sound
<1>5. \A b \in Others(f) : b \in DOMAIN f.heap /\ b \in DOMAIN m.heap
  BY <1>1, <1>3 DEF Others, Owned
<1> QED
  BY <1>2, <1>3, <1>4, <1>5 DEF Agree

\* What the image has of the tiles before stays.
LEMMA NoWindowKeepsOut ==
  ASSUME NEW m, Sound(m), m.out # NULL
  PROVE  FreeWindow(m).heap[m.out] = m.heap[m.out]
<1>1. PICK n : n = FreeWindow(m)
  OBVIOUS
<1>2. n.out = m.out /\ \A b \in Others(n) : n.heap[b] = m.heap[b]
  BY <1>1, NoWindowGives
<1> QED
  BY <1>1, <1>2 DEF Others

\* What a decode begins with: nothing in the codec's image, nothing counted.
LEMMA OldGives ==
  ASSUME NEW m \in Component
  PROVE  /\ Old(m) \in Component /\ DOMAIN Old(m).heap = DOMAIN m.heap
         /\ \A b \in DOMAIN m.heap : Old(m).heap[b].size = m.heap[b].size
         /\ SameTile(m, Old(m)) /\ SameSlot(m, Old(m)) /\ Old(m).win = m.win
         /\ Old(m).out = m.out /\ Old(m).user = m.user /\ Old(m).priv = m.priv
<1>1. m.heap \in Heaps
  BY DEF Component
<1> DEFINE h == [b \in DOMAIN m.heap |-> [m.heap[b] EXCEPT !.of = {}]]
<1>2. h \in [DOMAIN m.heap -> Buffer] /\ DOMAIN m.heap \in SUBSET (Nat \ {0})
  BY <1>1, HeapIsFunction DEF Buffer
<1>3. h \in Heaps
  BY <1>2, FunctionIsHeap
<1>4. \A b \in DOMAIN m.heap : h[b].size = m.heap[b].size
  BY <1>1, HeapIsFunction DEF Buffer
<1>5. Old(m) = [m EXCEPT !.heap = h] /\ DOMAIN h = DOMAIN m.heap
  BY DEF Old
<1> HIDE DEF h
<1> QED
  BY <1>3, <1>4, <1>5 DEF Component, SameTile, SameSlot

\* A call begins with a sound component whose image has no data.
LEMMA BegunGives ==
  ASSUME NEW m, Sound(m)
  PROVE  /\ Sound(Begun(m)) /\ SameTile(m, Begun(m)) /\ Begun(m).out = NULL
         /\ Begun(m).priv = m.priv
<1>1. m \in Component /\ Owned(m) /\ Sized(m) /\ m.slot = NULL /\ m.user \in Nat
  BY DEF Sound, Component
<1>2. PICK f : f = Free(m, m.user)
  OBVIOUS
<1>3. /\ f \in Component /\ DOMAIN f.heap = DOMAIN m.heap \ {m.user}
      /\ \A x \in DOMAIN m.heap \ {m.user} : f.heap[x] = m.heap[x]
      /\ f.data = m.data /\ f.owns = m.owns /\ f.size = m.size /\ f.win = m.win
      /\ f.slot = m.slot /\ f.slotSize = m.slotSize /\ f.out = m.out /\ f.user = m.user
      /\ f.priv = m.priv
  BY <1>1, <1>2, FreeGives
<1>4. PICK e : e = IF shown = Comps THEN Old(m) ELSE [Old(f) EXCEPT !.user = NULL]
  OBVIOUS
<1>5. /\ e \in Component /\ e.data = m.data /\ e.owns = m.owns /\ e.size = m.size
      /\ e.win = m.win /\ e.slot = m.slot /\ e.out = m.out /\ e.priv = m.priv
      /\ IF shown = Comps THEN e.user = m.user /\ DOMAIN e.heap = DOMAIN m.heap
                          ELSE e.user = NULL /\ DOMAIN e.heap = DOMAIN m.heap \ {m.user}
      /\ \A b \in DOMAIN e.heap : b \in DOMAIN m.heap /\ e.heap[b].size = m.heap[b].size
  <2>1. CASE shown = Comps
    BY <2>1, <1>1, <1>4, OldGives DEF SameTile, SameSlot
  <2>2. CASE shown # Comps
    <3>1. PICK o : o = Old(f)
      OBVIOUS
    <3>2. /\ o \in Component /\ DOMAIN o.heap = DOMAIN f.heap
          /\ \A b \in DOMAIN f.heap : o.heap[b].size = f.heap[b].size
          /\ o.data = f.data /\ o.owns = f.owns /\ o.size = f.size /\ o.slot = f.slot
          /\ o.win = f.win /\ o.out = f.out /\ o.user = f.user /\ o.priv = f.priv
      BY <1>3, <3>1, OldGives DEF SameTile, SameSlot
    <3>3. e = [o EXCEPT !.user = NULL]
      BY <1>4, <2>2, <3>1
    <3>4. /\ e \in Component /\ e.heap = o.heap /\ e.data = o.data /\ e.owns = o.owns
          /\ e.size = o.size /\ e.win = o.win /\ e.slot = o.slot /\ e.out = o.out
          /\ e.user = NULL /\ e.priv = o.priv
      BY <3>2, <3>3 DEF Component, NULL
    <3> QED
      BY <1>3, <2>2, <3>2, <3>4
  <2> QED
    BY <2>1, <2>2
<1>6. Own(e) = Own(m)
  BY <1>5 DEF Own
<1>7. Owned(e)
  BY <1>1, <1>5, <1>6 DEF Owned, NULL
<1>8. PICK n : n = FreshHeader(e)
  OBVIOUS
<1>9. /\ n \in Component /\ Owned(n) /\ Agree(e, n) /\ SameTile(e, n) /\ n.slot = e.slot
      /\ n.out = NULL /\ n.priv = e.priv
  BY <1>5, <1>7, <1>8, FreshHeaderGives DEF SameSlot
<1>10. Begun(m) = n
  BY <1>2, <1>4, <1>8 DEF Begun
<1>11. Own(n) = Own(m) /\ n.data = m.data /\ n.size = m.size /\ SameTile(m, n)
  BY <1>5, <1>9 DEF SameTile, Own
<1>12. Own(m) # NULL => m.data \in DOMAIN n.heap /\ m.data \in DOMAIN e.heap
  BY <1>7, <1>9, <1>11, <1>6 DEF Owned, Own
<1>13. Sized(n)
  BY <1>1, <1>5, <1>9, <1>11, <1>12 DEF Sized, Agree
<1> QED
  BY <1>1, <1>5, <1>9, <1>10, <1>11, <1>13 DEF Sound

\* What the caller gets, and what is left to the decoder.
LEMMA ToUserSound ==
  ASSUME NEW m, Sound(m)
  PROVE  /\ Sound(ToUser(m)) /\ SameTile(m, ToUser(m)) /\ ToUser(m).priv = m.priv
         /\ ToUser(m).user = m.out
         /\ m.out # NULL => ToUser(m).heap[m.out] = m.heap[m.out]
<1>1. m \in Component /\ Owned(m) /\ Sized(m) /\ m.slot = NULL
  BY DEF Sound
<1>2. PICK n : n = ToUser(m)
  OBVIOUS
<1>3. /\ n \in Component /\ Owned(n) /\ Agree(m, n) /\ SameTile(m, n) /\ n.slot = m.slot
      /\ n.user = m.out /\ n.out = NULL /\ n.priv = m.priv
  BY <1>1, <1>2, ToUserGives DEF SameSlot
<1>4. Own(n) = Own(m) /\ n.data = m.data /\ n.size = m.size
  BY <1>3 DEF SameTile, Own
<1>5. Own(m) # NULL => m.data \in DOMAIN n.heap /\ m.data \in DOMAIN m.heap
  BY <1>1, <1>3, <1>4 DEF Owned, Own
<1>6. m.out # NULL => m.out \in DOMAIN n.heap /\ m.out \in DOMAIN m.heap
  BY <1>1, <1>3 DEF Owned
<1>7. Sized(n)
  BY <1>1, <1>3, <1>4, <1>5 DEF Sized, Agree
<1> QED
  BY <1>1, <1>2, <1>3, <1>6, <1>7 DEF Sound, Agree

\* What was not chosen stays sound when it is freed.
LEMMA LeftToDecoderSound ==
  ASSUME NEW m, Sound(m)
  PROVE  /\ Sound(LeftToDecoder(m)) /\ SameTile(m, LeftToDecoder(m))
         /\ LeftToDecoder(m).priv = m.priv
<1>1. m \in Component /\ Owned(m) /\ Sized(m) /\ m.slot = NULL
  BY DEF Sound
<1>2. PICK n : n = LeftToDecoder(m)
  OBVIOUS
<1>3. /\ n \in Component /\ Owned(n) /\ Agree(m, n) /\ SameTile(m, n) /\ n.slot = m.slot
      /\ n.priv = m.priv
  BY <1>1, <1>2, LeftToDecoderGives DEF SameSlot
<1>4. Own(n) = Own(m) /\ n.data = m.data /\ n.size = m.size
  BY <1>3 DEF SameTile, Own
<1>5. Own(m) # NULL => m.data \in DOMAIN n.heap /\ m.data \in DOMAIN m.heap
  BY <1>1, <1>3, <1>4 DEF Owned, Own
<1>6. Sized(n)
  BY <1>1, <1>3, <1>4, <1>5 DEF Sized, Agree
<1> QED
  BY <1>1, <1>2, <1>3, <1>6 DEF Sound

\* The codec is destroyed, and then the caller's image: no buffer is left.
LEMMA DestroyGives ==
  ASSUME NEW m, Sound(m)
  PROVE  LET n == FreeImages(EmptySlot(FreeTile(m)))
         IN  /\ Sound(n) /\ n.priv = NULL /\ (m.owns = FALSE => n.owns = FALSE)
             /\ DOMAIN n.heap = {}
<1>1. m \in Component /\ Owned(m) /\ m.slot = NULL
  BY DEF Sound
<1>2. PICK d : d = IF m.owns /\ m.data # NULL
                     THEN [Free(m, m.data) EXCEPT !.data = NULL, !.owns = FALSE, !.size = 0]
                     ELSE m
  OBVIOUS
<1>3. d \in Component /\ Owned(d) /\ Own(d) = NULL /\ d.slot = NULL /\ (m.owns = FALSE => d.owns = FALSE)
  <2>1. CASE m.owns /\ m.data # NULL
    <3>1. d = [Free(m, m.data) EXCEPT !.data = NULL, !.owns = FALSE, !.size = 0]
      BY <1>2, <2>1
    <3> QED
      BY <3>1, <2>1, <1>1, DropTileData DEF SameSlot, Own
  <2>2. CASE ~(m.owns /\ m.data # NULL)
    <3>1. d = m
      BY <1>2, <2>2
    <3>2. Own(m) = NULL
      BY <2>2 DEF Own
    <3> QED
      BY <3>1, <3>2, <1>1
  <2> QED
    BY <2>1, <2>2
<1>4. PICK e : e = FreeWindow(d)
  OBVIOUS
<1>5. /\ e \in Component /\ Owned(e) /\ Own(e) = NULL /\ e.win = NULL
      /\ (m.owns = FALSE => e.owns = FALSE)
  BY <1>3, <1>4, FreeWindowGives DEF SameTile, Own
<1>6. PICK f : f = EmptySlot(e)
  OBVIOUS
<1>7. /\ f \in Component /\ Owned(f) /\ Own(f) = NULL /\ f.win = NULL /\ f.slot = NULL
      /\ (m.owns = FALSE => f.owns = FALSE)
  BY <1>5, <1>6, EmptySlotGives DEF SameTile, Own
<1>8. PICK o : o = FreshHeader(f)
  OBVIOUS
<1>9. /\ o \in Component /\ Owned(o) /\ Own(o) = NULL /\ o.win = NULL /\ o.slot = NULL
      /\ o.out = NULL /\ (m.owns = FALSE => o.owns = FALSE)
  BY <1>7, <1>8, FreshHeaderGives DEF SameTile, SameSlot, Own
<1>10. PICK g : g = Free(o, o.priv)
  OBVIOUS
<1>11. PICK p : p = [g EXCEPT !.priv = NULL]
  OBVIOUS
<1>12. o.priv \in Nat /\ o.user \in Nat
  BY <1>9 DEF Component
<1>13. /\ g \in Component /\ DOMAIN g.heap = DOMAIN o.heap \ {o.priv}
       /\ g.data = o.data /\ g.owns = o.owns /\ g.size = o.size /\ g.win = o.win
       /\ g.slot = o.slot /\ g.out = o.out /\ g.user = o.user /\ g.priv = o.priv
  BY <1>9, <1>10, <1>12, FreeGives
<1>14. /\ p \in Component /\ p.heap = g.heap /\ p.data = g.data /\ p.owns = g.owns
       /\ p.win = g.win /\ p.slot = g.slot /\ p.out = g.out /\ p.user = g.user
       /\ p.priv = NULL
  BY <1>11, <1>13 DEF Component, NULL
<1>15. PICK q : q = Free(p, p.user)
  OBVIOUS
<1>16. p.user \in Nat
  BY <1>12, <1>13, <1>14
<1>17. /\ q \in Component /\ DOMAIN q.heap = DOMAIN p.heap \ {p.user}
       /\ q.data = p.data /\ q.owns = p.owns /\ q.size = p.size /\ q.win = p.win
       /\ q.slot = p.slot /\ q.out = p.out /\ q.user = p.user /\ q.priv = p.priv
  BY <1>14, <1>15, <1>16, FreeGives
<1>18. PICK n : n = [q EXCEPT !.user = NULL]
  OBVIOUS
<1>19. /\ n \in Component /\ n.heap = q.heap /\ n.data = q.data /\ n.owns = q.owns
       /\ n.win = q.win /\ n.slot = q.slot /\ n.out = q.out /\ n.user = NULL
       /\ n.priv = q.priv
  BY <1>17, <1>18 DEF Component, NULL
<1>20. n = FreeImages(EmptySlot(FreeTile(m)))
  BY <1>2, <1>4, <1>6, <1>8, <1>10, <1>11, <1>15, <1>18 DEF FreeImages, FreeTile
<1>21. DOMAIN o.heap = {o.user, o.priv} \ {NULL}
  BY <1>9 DEF Owned
<1>22. DOMAIN n.heap = {}
  BY <1>13, <1>14, <1>17, <1>19, <1>21
<1>23. Own(n) = NULL
  BY <1>9, <1>13, <1>14, <1>17, <1>19 DEF Own
<1>24. n.win = NULL /\ n.slot = NULL /\ n.out = NULL /\ n.priv = NULL /\ n.user = NULL
  BY <1>9, <1>13, <1>14, <1>17, <1>19
<1>25. Sound(n)
  BY <1>19, <1>22, <1>23, <1>24 DEF Sound, Owned, Sized
<1>26. m.owns = FALSE => n.owns = FALSE
  BY <1>9, <1>13, <1>14, <1>17, <1>19
<1> QED
  BY <1>20, <1>22, <1>24, <1>25, <1>26

\* Encoding: the image's data, and a tile that works on it.
LEMMA StartCompressGives ==
  ASSUME NEW m, Sound(m), m.priv = NULL, NEW n, n = [m EXCEPT !.priv = m.user, !.user = NULL]
  PROVE  Sound(n) /\ SameTile(m, n)
<1>1. m \in Component /\ Owned(m) /\ Sized(m) /\ m.slot = NULL
  BY DEF Sound
<1>2. /\ n \in Component /\ n.heap = m.heap /\ n.data = m.data /\ n.owns = m.owns
      /\ n.size = m.size /\ n.win = m.win /\ n.slot = m.slot /\ n.out = m.out
      /\ n.user = NULL /\ n.priv = m.user
  BY <1>1 DEF Component, NULL
<1>3. Own(n) = Own(m)
  BY <1>2 DEF Own
<1>4. Owned(n)
  BY <1>1, <1>2, <1>3 DEF Owned
<1> QED
  BY <1>1, <1>2, <1>3, <1>4 DEF Sound, Sized, SameTile

\* An only tile that is encoded works on the data of the image.
LEMMA InPlaceGives ==
  ASSUME NEW m, Sound(m), m.owns = FALSE, NEW n, n = [m EXCEPT !.data = m.priv, !.owns = FALSE]
  PROVE  Sound(n) /\ n.data = m.priv /\ n.owns = FALSE /\ n.priv = m.priv
<1>1. m \in Component /\ Owned(m) /\ Sized(m) /\ m.slot = NULL
  BY DEF Sound
<1>2. n = [m EXCEPT !.data = m.priv]
  BY <1>1 DEF Component
<1>3. /\ n \in Component /\ n.heap = m.heap /\ n.data = m.priv /\ n.owns = m.owns
      /\ n.win = m.win /\ n.slot = m.slot /\ n.out = m.out
      /\ n.user = m.user /\ n.priv = m.priv
  BY <1>1, <1>2 DEF Component
<1>4. Own(n) = NULL /\ Own(m) = NULL
  BY <1>3 DEF Own
<1>5. Owned(n)
  BY <1>1, <1>3, <1>4 DEF Owned
<1> QED
  BY <1>1, <1>3, <1>4, <1>5 DEF Sound, Sized

\* The buffers there are at first.
LEMMA BlankSound == Sound(Blank) /\ Blank.owns = FALSE /\ Blank.data = NULL /\ Blank.priv = NULL
                    /\ Blank.user = NULL /\ DOMAIN Blank.heap = {}
<1>1. <<>> \in Heaps /\ DOMAIN <<>> = {}
  <2>1. DOMAIN <<>> = {}
    OBVIOUS
  <2>2. <<>> \in [{} -> Buffer]
    OBVIOUS
  <2> QED
    BY <2>1, <2>2, FunctionIsHeap
<1>2. /\ Blank.heap = <<>> /\ Blank.data = NULL /\ Blank.owns = FALSE /\ Blank.size = 0
      /\ Blank.win = NULL /\ Blank.slot = NULL /\ Blank.slotSize = 0
      /\ Blank.out = NULL /\ Blank.user = NULL /\ Blank.priv = NULL
  BY DEF Blank
<1>3. Blank \in Component
  BY <1>1 DEF Blank, Component, NULL
<1>4. Own(Blank) = NULL
  BY <1>2 DEF Own
<1>5. Owned(Blank)
  BY <1>1, <1>2, <1>4 DEF Owned
<1> QED
  BY <1>1, <1>2, <1>3, <1>4, <1>5 DEF Sound, Sized

\* An image to encode owns its data.
LEMMA LoadedSound ==
  ASSUME NEW size \in Nat
  PROVE  /\ Sound(Loaded(size)) /\ Loaded(size).owns = FALSE /\ Loaded(size).data = NULL
         /\ Loaded(size).priv = NULL
<1>1. PICK a : a = Alloc(Blank, size)
  OBVIOUS
<1>9. /\ Blank.data = NULL /\ Blank.owns = FALSE /\ Blank.slot = NULL
      /\ Blank.win = NULL /\ Blank.out = NULL /\ Blank.priv = NULL
  BY DEF Blank
<1>10. Sound(Blank) /\ DOMAIN Blank.heap = {}
  BY BlankSound
<1>2. /\ NewBuffer(Blank) \in Nat \ {0}
      /\ a \in Component /\ Sized(a) /\ DOMAIN a.heap = {NewBuffer(Blank)}
      /\ a.data = NULL /\ a.owns = FALSE /\ a.slot = NULL /\ a.win = NULL /\ a.out = NULL
      /\ a.priv = NULL
  BY <1>1, <1>9, <1>10, AllocSound DEF SameTile, SameSlot
<1>3. NewBuffer(Blank) = 1
  <2>1. Cardinality(DOMAIN Blank.heap) = 0
    BY BlankSound, FS_EmptySet
  <2>2. NewBuffer(Blank) \in 1..1
    <3>1. 1 \in 1..1 /\ 1 \notin {} /\ 0 + 1 = 1
      OBVIOUS
    <3>2. \E b \in 1..1 : b \notin {}
      BY <3>1
    <3>3. NewBuffer(Blank) = CHOOSE b \in 1..1 : b \notin {}
      BY <2>1, <3>1, BlankSound DEF NewBuffer
    <3> QED
      BY <3>2, <3>3
  <2> QED
    BY <2>2
<1>4. PICK n : n = [a EXCEPT !.user = 1]
  OBVIOUS
<1>5. /\ n \in Component /\ n.heap = a.heap /\ n.data = a.data /\ n.owns = a.owns
      /\ n.win = a.win /\ n.slot = a.slot /\ n.out = a.out /\ n.user = 1
      /\ n.priv = a.priv
  BY <1>2, <1>4 DEF Component
<1>6. n = Loaded(size)
  BY <1>1, <1>4 DEF Loaded
<1>7. Own(n) = NULL
  BY <1>2, <1>5 DEF Own
<1>8. Owned(n)
  BY <1>2, <1>3, <1>5, <1>7 DEF Owned, NULL
<1> QED
  BY <1>2, <1>5, <1>6, <1>7, <1>8 DEF Sound, Sized

------------------------------------------------------------------------------
\* The parts of the invariant that several steps keep for the same reasons.
LEMMA DecodeModes ==
  ASSUME Modes, ~image.encode, stage # "destroyed", NEW c \in Comps
  PROVE  mem[c].priv = NULL /\ (mem[c].data # NULL => mem[c].owns)
BY DEF Modes, InPlace

\* Modes, InCall and Decoded depend on some variables only.
LEMMA ModesKept ==
  ASSUME TypeOK, ~image.encode, image' = image, stage' \in States \ {"encode"},
         \A c \in Comps : mem'[c].priv = NULL /\ (mem'[c].data # NULL => mem'[c].owns)
  PROVE  Modes'
BY DEF Modes, InPlace

\* So does what a call has done so far.
LEMMA InCallKept ==
  ASSUME TypeOK, InCall, stage \in Decoding, UNCHANGED <<image, chosen, area, todo, tile>>,
         \A c \in Comps :
           /\ mem'[c].out = mem[c].out
           /\ mem[c].out # NULL =>
                mem'[c].heap[mem[c].out].of = mem[c].heap[mem[c].out].of,
         stage' \in {"t1", "window", "dwt", "update"} => whole' = IsWhole,
         stage' = "window" => ~whole',
         stage' \in {"dwt", "update"} /\ ~whole' =>
           \A c \in Used : mem'[c].win = NULL <=> area.kind[tile][c] = "empty",
         stage' = "update" => \A c \in Used : Holds(c, Source(mem[c]), {tile})'
  PROVE  InCall'
<1>1. SUFFICES ASSUME stage' \in Decoding PROVE InCall'
  BY DEF InCall
<1>2. Used' = Used /\ Done' = Done /\ AreaFits' = AreaFits /\ IsWhole' = IsWhole
  BY DEF Used, Done, AreaFits, IsWhole
<1>3. Used \subseteq Comps
  BY DEF Used, TypeOK
<1>4. ASSUME NEW c \in Used PROVE Holds(c, mem[c].out, Done)'
  <2>1. Holds(c, mem[c].out, Done)
    BY DEF InCall
  <2>2. mem'[c].out = mem[c].out /\ (mem[c].out # NULL =>
                mem'[c].heap[mem[c].out].of = mem[c].heap[mem[c].out].of)
    BY <1>3
  <2> QED
    BY <2>1, <2>2, <1>2 DEF Holds, Asked
<1>5. /\ AreaFits' /\ tile' \in area'.tiles /\ todo' \subseteq area'.tiles /\ tile' \notin todo'
      /\ Done' = {} => \A c \in Comps : mem'[c].out = NULL
  BY <1>2 DEF InCall
<1>6. /\ stage' \in {"t1", "window", "dwt", "update"} => whole' = IsWhole'
      /\ stage' = "window" => ~whole'
      /\ stage' \in {"dwt", "update"} /\ ~whole' =>
           \A c \in Used' : mem'[c].win = NULL <=> area'.kind[tile'][c] = "empty"
  BY <1>2
<1>7. \A c \in Used' : Holds(c, mem[c].out, Done)'
  BY <1>2, <1>4
<1>8. stage' = "update" => \A c \in Used' : Holds(c, Source(mem[c]), {tile})'
  BY <1>2
<1> QED
  BY <1>5, <1>6, <1>7, <1>8 DEF InCall

\* Each component is sound.
AllSound == \A c \in Comps : Sound(mem[c])

\* Where no call is under way and none has just succeeded, there is little to show.
LEMMA OutsideCalls ==
  ASSUME stage' \in {"idle", "failed", "encode", "destroyed"}
  PROVE  InCall' /\ Decoded' /\ Delivered' /\ RoomForTile'
BY DEF InCall, Decoded, Delivered, RoomForTile, Decoding

\* opj_j2k_set_decoded_components.
LEMMA SetDecodedComponentsKeeps == IInv /\ SetDecodedComponents => IInv'
<1>1. SUFFICES ASSUME IInv, SetDecodedComponents PROVE IInv'
  OBVIOUS
<1>2. /\ ~image.encode /\ image' = image /\ mem' = mem /\ whole' = whole /\ todo' = todo
      /\ stage' = "idle" /\ stage \in {"idle", "returned"} /\ chosen' \in SUBSET Comps
  BY <1>1 DEF SetDecodedComponents, Ready
<1>3. TypeOK /\ AllSound /\ Modes
  BY <1>1 DEF IInv, AllSound
<1>4. TypeOK'
  BY <1>2, <1>3 DEF TypeOK, States, Decoding, Tiles
<1>5. AllSound'
  BY <1>2, <1>3 DEF AllSound
<1>6. Modes'
  BY <1>2, <1>3, DecodeModes, ModesKept DEF States, Decoding
<1>7. InCall' /\ Decoded' /\ Delivered' /\ RoomForTile'
  BY <1>2, OutsideCalls
<1> QED
  BY <1>4, <1>5, <1>6, <1>7 DEF IInv, AllSound

\* A call that begins has nothing in the codec's image yet.
LEMMA BeginKeeps ==
  ASSUME IInv, ~image.encode, image' = image, chosen' = chosen, whole' = whole,
         area' \in AreasOf(image), tile' \in area'.tiles, todo' = area'.tiles \ {tile'},
         mem' = [c \in Comps |-> Begun(mem[c])], stage' = "header", stage \in {"idle", "returned"}
  PROVE  IInv'
<1>1. TypeOK /\ AllSound /\ Modes
  BY DEF IInv, AllSound
<1>2. area'.tiles \in SUBSET Tiles
  BY DEF AreasOf, Tiles
<1>3. TypeOK'
  BY <1>1, <1>2 DEF TypeOK, States, Decoding, Tiles
<1>4. ASSUME NEW c \in Comps
      PROVE  /\ Sound(mem'[c]) /\ mem'[c].out = NULL /\ mem'[c].priv = NULL
             /\ (mem'[c].data # NULL => mem'[c].owns)
  <2>1. Sound(mem[c])
    BY <1>1 DEF AllSound
  <2>2. mem'[c] = Begun(mem[c])
    OBVIOUS
  <2>3. mem[c].priv = NULL /\ (mem[c].data # NULL => mem[c].owns)
    BY <1>1, DecodeModes
  <2> QED
    BY <2>1, <2>2, <2>3, BegunGives DEF SameTile
<1>5. AllSound'
  BY <1>4 DEF AllSound
<1>6. Modes'
  BY <1>1, <1>4, ModesKept DEF States, Decoding
<1>7. InCall'
  <2>1. Done' = {}
    BY DEF Done
  <2>2. Used' \subseteq Comps
    BY <1>3 DEF TypeOK, Used
  <2>3. \A c \in Used' : Holds(c, mem[c].out, Done)'
    <3>1. ASSUME NEW c \in Used' PROVE Holds(c, mem[c].out, Done)'
      <4>1. mem'[c].out = NULL
        BY <1>4, <2>2
      <4> QED
        BY <4>1, <2>1 DEF Holds, Asked
    <3> QED
      BY <3>1
  <2>4. AreaFits' /\ tile' \in area'.tiles /\ todo' \subseteq area'.tiles /\ tile' \notin todo'
    BY DEF AreaFits
  <2> QED
    BY <1>4, <2>3, <2>4 DEF InCall
<1>8. Decoded' /\ Delivered' /\ RoomForTile'
  BY DEF Decoded, Delivered, RoomForTile
<1> QED
  BY <1>3, <1>5, <1>6, <1>7, <1>8 DEF IInv, AllSound

\* opj_j2k_decode, up to the header of its first tile.
LEMMA DecodeKeeps == ImagesFit /\ IInv /\ Decode => IInv'
<1>1. SUFFICES ASSUME ImagesFit, IInv, Decode PROVE IInv'
  OBVIOUS
<1>2. PICK a \in image.areas : area' = a /\ tile' \in a.tiles /\ todo' = a.tiles \ {tile'}
  BY <1>1 DEF Decode
<1>3. /\ ~image.encode /\ image' = image /\ chosen' = chosen /\ whole' = whole
      /\ mem' = [c \in Comps |-> Begun(mem[c])] /\ stage' = "header"
      /\ stage \in {"idle", "returned"}
  BY <1>1 DEF Decode, Ready
<1>4. a \in AreasOf(image)
  BY <1>1, <1>2 DEF ImagesFit, IInv, TypeOK
<1> QED
  BY <1>1, <1>2, <1>3, <1>4, BeginKeeps

\* opj_j2k_get_tile, up to the header of the tile.
LEMMA GetTileKeeps == IInv /\ GetTile => IInv'
<1>1. SUFFICES ASSUME IInv, GetTile PROVE IInv'
  OBVIOUS
<1>2. PICK t \in Tiles : /\ tile' = t /\ todo' = {}
                         /\ area' = [tiles |-> {t},
                                     kind |-> [u \in Tiles |-> [c \in Comps |-> "exact"]]]
  BY <1>1 DEF GetTile
<1>3. /\ ~image.encode /\ image' = image /\ chosen' = chosen /\ whole' = whole
      /\ mem' = [c \in Comps |-> Begun(mem[c])] /\ stage' = "header"
      /\ stage \in {"idle", "returned"}
  BY <1>1 DEF GetTile, Ready
<1>4. area' \in AreasOf(image)
  <2>1. {t} \in (SUBSET Tiles) \ {{}}
    BY <1>2
  <2>2. [u \in Tiles |-> [c \in Comps |-> "exact"]] \in [Tiles -> [Comps -> AreaKinds]]
    BY DEF AreaKinds
  <2> QED
    BY <1>2, <2>1, <2>2 DEF AreasOf, Tiles
<1>5. tile' \in area'.tiles /\ todo' = area'.tiles \ {tile'}
  BY <1>2
<1> QED
  BY <1>1, <1>3, <1>4, <1>5, BeginKeeps

\* opj_tcd_init_tile.
LEMMA InitTileKeeps == IInv /\ InitTile => IInv'
<1>1. SUFFICES ASSUME IInv, InitTile PROVE IInv'
  OBVIOUS
<1>2. /\ UNCHANGED <<image, chosen, area, todo, tile, whole>> /\ stage = "header" /\ stage' = "alloc"
      /\ mem' = IF used = "kept" /\ ~Fast THEN mem ELSE [c \in Comps |-> FreeWindow(mem[c])]
  BY <1>1 DEF InitTile, Goes
<1>3. TypeOK /\ AllSound /\ Modes /\ InCall /\ ~image.encode
  BY <1>1, <1>2 DEF IInv, AllSound, Modes
<1>4. TypeOK'
  BY <1>2, <1>3 DEF TypeOK, States, Decoding, Tiles
<1>5. ASSUME NEW c \in Comps
      PROVE  /\ Sound(mem'[c]) /\ mem'[c].priv = NULL /\ (mem'[c].data # NULL => mem'[c].owns)
             /\ mem'[c].out = mem[c].out
             /\ mem[c].out # NULL =>
                  mem'[c].heap[mem[c].out].of = mem[c].heap[mem[c].out].of
  <2>1. Sound(mem[c]) /\ mem[c].priv = NULL /\ (mem[c].data # NULL => mem[c].owns)
    BY <1>2, <1>3, DecodeModes DEF AllSound
  <2>2. CASE mem' = mem
    BY <2>1, <2>2
  <2>3. CASE mem' = [d \in Comps |-> FreeWindow(mem[d])]
    <3>1. mem'[c] = FreeWindow(mem[c])
      BY <2>3
    <3> QED
      BY <2>1, <3>1, NoWindowGives DEF SameTile, Others
  <2> QED
    BY <1>2, <2>2, <2>3
<1>6. AllSound'
  BY <1>5 DEF AllSound
<1>7. Modes'
  BY <1>2, <1>3, <1>5, ModesKept DEF States, Decoding
<1>8. InCall'
  BY <1>2, <1>3, <1>5, InCallKept DEF Decoding
<1>9. Decoded' /\ Delivered' /\ RoomForTile'
  BY <1>2 DEF Decoded, Delivered, RoomForTile
<1> QED
  BY <1>4, <1>6, <1>7, <1>8, <1>9 DEF IInv, AllSound

\* opj_tcd_decode_tile, for a tile decoded as a whole: the components before
\* the one that malloc has no room for get a buffer.
LEMMA AllocWholeKeeps == ImagesFit /\ IInv /\ AllocWhole => IInv'
<1>1. SUFFICES ASSUME ImagesFit, IInv, AllocWhole PROVE IInv'
  OBVIOUS
<1> DEFINE try(c, m, ok) == IF c \in Used THEN AllocTileData(m, image.sizes[tile], ok) ELSE m
<1>2. PICK bad \in Used \cup {Nobody} :
        /\ mem' = [c \in Comps |-> IF c \in Reached(bad) THEN try(c, mem[c], c # bad) ELSE mem[c]]
        /\ stage' = IF bad # Nobody THEN "failed" ELSE "t1"
  BY <1>1 DEF AllocWhole
<1>3. /\ UNCHANGED <<image, chosen, area, todo, tile>> /\ stage = "alloc" /\ IsWhole /\ whole' = TRUE
  BY <1>1 DEF AllocWhole
<1>4. TypeOK /\ AllSound /\ Modes /\ InCall /\ ~image.encode
  BY <1>1, <1>3 DEF IInv, AllSound, Modes
<1>5. image.sizes[tile] \in Nat \ {0}
  <2>1. tile \in area.tiles /\ area \in AreasOf(image)
    BY <1>3, <1>4 DEF InCall, AreaFits, Decoding
  <2>2. tile \in DOMAIN image.sizes /\ image.sizes \in Seq(Nat \ {0})
    BY <1>1, <1>4, <2>1 DEF AreasOf, ImagesFit, TypeOK
  <2> QED
    BY <2>2
<1>6. TypeOK'
  BY <1>2, <1>3, <1>4 DEF TypeOK, States, Decoding, Tiles
<1>7. ASSUME NEW c \in Comps
      PROVE  /\ Sound(mem'[c]) /\ mem'[c].priv = NULL /\ (mem'[c].data # NULL => mem'[c].owns)
             /\ mem'[c].out = mem[c].out
             /\ mem[c].out # NULL =>
                  mem'[c].heap[mem[c].out].of = mem[c].heap[mem[c].out].of
             /\ bad = Nobody /\ c \in Used =>
                  mem'[c].data # NULL /\ mem'[c].heap[mem'[c].data].size >= image.sizes[tile]
  <2>1. Sound(mem[c]) /\ mem[c].priv = NULL /\ (mem[c].data # NULL => mem[c].owns)
    BY <1>3, <1>4, DecodeModes DEF AllSound
  <2>2. CASE c \in Reached(bad) /\ c \in Used
    <3>1. mem'[c] = AllocTileData(mem[c], image.sizes[tile], c # bad)
      BY <1>2, <2>2
    <3>2. bad = Nobody => c # bad
      BY <1>1 DEF ImagesFit, Nobody
    <3>3. (c # bad) \in BOOLEAN
      OBVIOUS
    <3>4. PICK m : m = mem[c]
      OBVIOUS
    <3>5. PICK ok \in BOOLEAN : ok = (c # bad)
      BY <3>3
    <3>10. PICK need \in Nat \ {0} : need = image.sizes[tile]
      BY <1>5
    <3>6. PICK n : n = AllocTileData(m, need, ok)
      OBVIOUS
    <3>11. Sound(m) /\ (m.data # NULL => m.owns)
      BY <2>1, <3>4
    <3>7. /\ Sound(n) /\ (m.out # NULL => n.heap[m.out] = m.heap[m.out])
          /\ n.data # NULL => n.owns /\ n.heap[n.data].size >= need
          /\ ok => n.data # NULL
          /\ n.out = m.out /\ n.priv = m.priv
      <4>1. Sound(n)
        BY <3>5, <3>6, <3>10, <3>11, AllocTileDataGives
      <4>2. m.out # NULL => n.heap[m.out] = m.heap[m.out]
        BY <3>5, <3>6, <3>10, <3>11, AllocTileDataKeepsOut
      <4>3. n.data # NULL => n.owns /\ n.heap[n.data].size >= need
        BY <3>5, <3>6, <3>10, <3>11, AllocTileDataGives
      <4>4. ok => n.data # NULL
        BY <3>5, <3>6, <3>10, <3>11, AllocTileDataGives
      <4>5. n.out = m.out /\ n.priv = m.priv
        BY <3>5, <3>6, <3>10, <3>11, AllocTileDataGives
      <4> QED
        BY <4>1, <4>2, <4>3, <4>4, <4>5
    <3>9. mem'[c] = n /\ (bad = Nobody => ok)
      BY <3>1, <3>2, <3>4, <3>5, <3>6, <3>10
    <3> QED
      BY <2>1, <3>4, <3>7, <3>9, <3>10
  <2>3. CASE ~(c \in Reached(bad) /\ c \in Used)
    <3>1. mem'[c] = mem[c]
      BY <1>2, <2>3
    <3>2. bad = Nobody => c \notin Used
      BY <2>3 DEF Reached
    <3> QED
      BY <2>1, <3>1, <3>2
  <2> QED
    BY <2>2, <2>3
<1>8. AllSound'
  BY <1>7 DEF AllSound
<1>9. stage' \in {"failed", "t1"}
  BY <1>2
<1>10. Modes'
  BY <1>9, <1>3, <1>4, <1>7, ModesKept DEF States, Decoding
<1>11. InCall'
  BY <1>9, <1>3, <1>4, <1>7, InCallKept DEF Decoding
<1>12. Decoded' /\ Delivered'
  BY <1>9 DEF Decoded, Delivered
<1>13. RoomForTile'
  <2>1. CASE bad = Nobody
    <3>1. Used' = Used /\ Used \subseteq Comps
      BY <1>3, <1>4 DEF Used, TypeOK
    <3> QED
      BY <2>1, <3>1, <1>3, <1>7 DEF RoomForTile
  <2>2. CASE bad # Nobody
    BY <1>2, <2>2 DEF RoomForTile
  <2> QED
    BY <2>1, <2>2
<1> QED
  BY <1>6, <1>8, <1>10, <1>11, <1>12, <1>13 DEF IInv, AllSound

\* opj_tcd_decode_tile, for a window of a tile.
LEMMA DeferAllocKeeps == IInv /\ DeferAlloc => IInv'
<1>1. SUFFICES ASSUME IInv, DeferAlloc PROVE IInv'
  OBVIOUS
<1>2. /\ UNCHANGED <<image, mem, chosen, area, todo, tile>> /\ stage = "alloc" /\ stage' = "t1"
      /\ ~IsWhole /\ whole' = FALSE
  BY <1>1 DEF DeferAlloc, Goes
<1>3. TypeOK /\ AllSound /\ Modes /\ InCall /\ ~image.encode
  BY <1>1, <1>2 DEF IInv, AllSound, Modes
<1>4. TypeOK'
  BY <1>2, <1>3 DEF TypeOK, States, Decoding, Tiles
<1>5. AllSound'
  BY <1>2, <1>3 DEF AllSound
<1>6. \A c \in Comps : mem'[c].priv = NULL /\ (mem'[c].data # NULL => mem'[c].owns)
  BY <1>2, <1>3, DecodeModes
<1>7. Modes'
  BY <1>2, <1>3, <1>6, ModesKept DEF States, Decoding
<1>8. whole' = IsWhole
  BY <1>2 DEF IsWhole
<1>9. InCall'
  BY <1>2, <1>3, <1>8, InCallKept DEF Decoding
<1>10. Decoded' /\ Delivered' /\ RoomForTile'
  BY <1>2 DEF Decoded, Delivered, RoomForTile
<1> QED
  BY <1>4, <1>5, <1>7, <1>9, <1>10 DEF IInv, AllSound

\* Tiers 2 and 1.
LEMMA CodeBlocksKeeps == IInv /\ CodeBlocks => IInv'
<1>1. SUFFICES ASSUME IInv, CodeBlocks PROVE IInv'
  OBVIOUS
<1>2. /\ UNCHANGED <<image, mem, chosen, area, todo, tile, whole>> /\ stage = "t1"
      /\ stage' \in {"failed", IF whole THEN "dwt" ELSE "window"}
  BY <1>1 DEF CodeBlocks
<1>3. TypeOK /\ AllSound /\ Modes /\ InCall /\ RoomForTile /\ ~image.encode
  BY <1>1, <1>2 DEF IInv, AllSound, Modes
<1>4. TypeOK'
  BY <1>2, <1>3 DEF TypeOK, States, Decoding, Tiles
<1>5. AllSound'
  BY <1>2, <1>3 DEF AllSound
<1>6. \A c \in Comps : mem'[c].priv = NULL /\ (mem'[c].data # NULL => mem'[c].owns)
  BY <1>2, <1>3, DecodeModes
<1>7. Modes'
  BY <1>2, <1>3, <1>6, ModesKept DEF States, Decoding
<1>8. whole' = IsWhole /\ whole' = whole
  BY <1>2, <1>3 DEF InCall, Decoding
<1>9. InCall'
  BY <1>2, <1>3, <1>8, InCallKept DEF Decoding
<1>10. Decoded' /\ Delivered'
  BY <1>2 DEF Decoded, Delivered
<1>11. RoomForTile'
  BY <1>2, <1>3 DEF RoomForTile, Used
<1> QED
  BY <1>4, <1>5, <1>7, <1>9, <1>10, <1>11 DEF IInv, AllSound

\* The buffers of the windows, with the same failures.
LEMMA AllocWindowKeeps == ImagesFit /\ IInv /\ AllocWindow => IInv'
<1>1. SUFFICES ASSUME ImagesFit, IInv, AllocWindow PROVE IInv'
  OBVIOUS
<1> DEFINE empty(c) == area.kind[tile][c] = "empty"
           try(c, m, ok) ==
             IF c \in Used /\ ~empty(c) /\ ok
               THEN [Alloc(FreeWindow(m), 1) EXCEPT !.win = NewBuffer(FreeWindow(m))]
               ELSE FreeWindow(m)
<1>2. PICK bad \in Used \cup {Nobody} :
        /\ mem' = [c \in Comps |-> IF c \in Reached(bad) THEN try(c, mem[c], c # bad) ELSE mem[c]]
        /\ stage' = IF bad # Nobody THEN "failed" ELSE "dwt"
  BY <1>1 DEF AllocWindow
<1>3. UNCHANGED <<image, chosen, area, todo, tile, whole>> /\ stage = "window"
  BY <1>1 DEF AllocWindow
<1>4. TypeOK /\ AllSound /\ Modes /\ InCall /\ ~image.encode
  BY <1>1, <1>3 DEF IInv, AllSound, Modes
<1>5. ~whole /\ Used \subseteq Comps
  BY <1>3, <1>4 DEF InCall, Decoding, TypeOK, Used
<1>6. TypeOK'
  BY <1>2, <1>3, <1>4 DEF TypeOK, States, Decoding, Tiles
<1>7. ASSUME NEW c \in Comps
      PROVE  /\ Sound(mem'[c]) /\ mem'[c].priv = NULL /\ (mem'[c].data # NULL => mem'[c].owns)
             /\ mem'[c].out = mem[c].out
             /\ mem[c].out # NULL =>
                  mem'[c].heap[mem[c].out].of = mem[c].heap[mem[c].out].of
             /\ bad = Nobody /\ c \in Used => (mem'[c].win = NULL <=> empty(c))
  <2>1. Sound(mem[c]) /\ mem[c].priv = NULL /\ (mem[c].data # NULL => mem[c].owns)
    BY <1>3, <1>4, DecodeModes DEF AllSound
  <2>2. PICK m : m = mem[c]
    OBVIOUS
  <2>3. PICK n : n = mem'[c]
    OBVIOUS
  <2>4. m \in Component /\ Owned(m)
    BY <2>1, <2>2 DEF Sound
  <2>5. CASE c \in Reached(bad) /\ c \in Used /\ ~empty(c) /\ c # bad
    <3>1. n = [Alloc(FreeWindow(m), 1) EXCEPT !.win = NewBuffer(FreeWindow(m))]
      BY <1>2, <2>2, <2>3, <2>5
    <3>2. /\ Sound(n) /\ SameTile(m, n) /\ n.win # NULL /\ n.out = m.out
          /\ n.user = m.user /\ n.priv = m.priv
          /\ m.out # NULL => n.heap[m.out] = m.heap[m.out]
      <4>1. Sound(m)
        BY <2>1, <2>2
      <4> QED
        BY <4>1, <3>1, NewWindowGives
    <3> QED
      BY <2>1, <2>2, <2>3, <2>5, <3>2 DEF SameTile
  <2>6. CASE c \in Reached(bad) /\ ~(c \in Used /\ ~empty(c) /\ c # bad)
    <3>1. n = FreeWindow(m)
      BY <1>2, <2>2, <2>3, <2>6
    <3>2. /\ Sound(n) /\ SameTile(m, n) /\ n.win = NULL /\ n.out = m.out
          /\ n.user = m.user /\ n.priv = m.priv
      BY <2>1, <2>2, <3>1, NoWindowGives
    <3>3. m.out # NULL => n.heap[m.out] = m.heap[m.out]
      BY <2>1, <2>2, <3>1, NoWindowKeepsOut
    <3>4. bad = Nobody => c # bad
      BY <1>1 DEF ImagesFit, Nobody
    <3> QED
      BY <2>1, <2>2, <2>3, <2>6, <3>2, <3>3, <3>4 DEF SameTile
  <2>7. CASE c \notin Reached(bad)
    <3>1. mem'[c] = mem[c] /\ bad # Nobody
      BY <1>2, <2>7 DEF Reached
    <3> QED
      BY <2>1, <3>1
  <2> QED
    BY <2>5, <2>6, <2>7
<1>8. AllSound'
  BY <1>7 DEF AllSound
<1>9. stage' \in {"failed", "dwt"} /\ (stage' = "dwt" => bad = Nobody)
  BY <1>2
<1>10. Modes'
  BY <1>9, <1>3, <1>4, <1>7, ModesKept DEF States, Decoding
<1>11. whole' = IsWhole
  BY <1>3, <1>4 DEF InCall, Decoding
<1>12. stage' = "dwt" => \A c \in Used : mem'[c].win = NULL <=> area.kind[tile][c] = "empty"
  BY <1>5, <1>7, <1>9
<1>13. InCall'
  BY <1>9, <1>3, <1>4, <1>7, <1>11, <1>12, InCallKept DEF Decoding
<1>14. Decoded' /\ Delivered' /\ RoomForTile'
  BY <1>3, <1>5, <1>9 DEF Decoded, Delivered, RoomForTile
<1> QED
  BY <1>6, <1>8, <1>10, <1>13, <1>14 DEF IInv, AllSound

\* The tile's number is a number.
LEMMA TileIsNat ==
  ASSUME TypeOK, InCall, stage \in Decoding, ImagesFit
  PROVE  tile \in Nat
<1>1. tile \in area.tiles /\ area \in AreasOf(image)
  BY DEF InCall, AreaFits
<1>2. tile \in DOMAIN image.sizes /\ image.sizes \in Seq(Nat \ {0})
  BY <1>1 DEF AreasOf, TypeOK, ImagesFit
<1> QED
  BY <1>2

\* The inverse transforms write the samples of the tile.
LEMMA FillTileKeeps == ImagesFit /\ IInv /\ FillTile => IInv'
<1>1. SUFFICES ASSUME ImagesFit, IInv, FillTile PROVE IInv'
  OBVIOUS
<1>2. /\ UNCHANGED <<image, chosen, area, todo, tile, whole>> /\ stage = "dwt" /\ stage' = "update"
      /\ mem' = [c \in Comps |-> IF c \in Used THEN Filled(mem[c], Source(mem[c]), {tile})
                                               ELSE mem[c]]
  BY <1>1 DEF FillTile, Goes
<1>3. TypeOK /\ AllSound /\ Modes /\ InCall /\ RoomForTile /\ ~image.encode
  BY <1>1, <1>2 DEF IInv, AllSound, Modes
<1>4. {tile} \in SUBSET Nat
  BY <1>1, <1>2, <1>3, TileIsNat DEF Decoding
<1>5. Used \subseteq Comps /\ Used' = Used
  BY <1>2, <1>3 DEF TypeOK, Used
<1>6. TypeOK'
  BY <1>2, <1>3 DEF TypeOK, States, Decoding, Tiles
<1>7. ASSUME NEW c \in Comps
      PROVE  /\ Sound(mem'[c]) /\ mem'[c].priv = NULL /\ (mem'[c].data # NULL => mem'[c].owns)
             /\ mem'[c].out = mem[c].out /\ mem'[c].win = mem[c].win
             /\ mem'[c].data = mem[c].data
             /\ mem[c].out # NULL =>
                  mem'[c].heap[mem[c].out].of = mem[c].heap[mem[c].out].of
             /\ c \in Used /\ Source(mem[c]) # NULL =>
                  mem'[c].heap[Source(mem[c])].of = {tile}
             /\ mem[c].data # NULL =>
                  mem'[c].heap[mem[c].data].size = mem[c].heap[mem[c].data].size
  <2>1. Sound(mem[c]) /\ mem[c].priv = NULL /\ (mem[c].data # NULL => mem[c].owns)
    BY <1>2, <1>3, DecodeModes DEF AllSound
  <2>2. PICK m : m = mem[c]
    OBVIOUS
  <2>3. CASE c \in Used /\ Source(mem[c]) # NULL
    <3>1. PICK b : b = Source(m)
      OBVIOUS
    <3>2. b \in {m.data, m.win} /\ b # NULL /\ b = Source(mem[c])
      BY <2>2, <2>3, <3>1 DEF Source
    <3>3. Owned(m) /\ Own(m) = m.data
      BY <2>1, <2>2 DEF Sound, Own, NULL
    <3>4. b \in DOMAIN m.heap /\ m.out # b
      BY <3>2, <3>3 DEF Owned
    <3>5. PICK s \in SUBSET Nat : s = {tile}
      BY <1>4
    <3>6. mem'[c] = Filled(m, b, s)
      BY <1>2, <2>2, <2>3, <3>1, <3>5
    <3>7. PICK n : n = Filled(m, b, s)
      OBVIOUS
    <3>8. Sound(m)
      BY <2>1, <2>2
    <3>9. /\ Sound(n) /\ DOMAIN n.heap = DOMAIN m.heap
          /\ SameTile(m, n) /\ n.win = m.win /\ n.out = m.out /\ n.priv = m.priv
      BY <3>4, <3>5, <3>7, <3>8, FilledSound
    <3>10. \A x \in DOMAIN m.heap : n.heap[x].size = m.heap[x].size
                                    /\ n.heap[x].of = IF x = b THEN s ELSE m.heap[x].of
      BY <3>4, <3>5, <3>7, <3>8, FilledSound
    <3>11. /\ m.out # NULL => m.out \in DOMAIN m.heap
           /\ m.data # NULL => m.data \in DOMAIN m.heap
      BY <3>3 DEF Owned
    <3>12. mem'[c] = n
      BY <3>6, <3>7
    <3>13. /\ n.data = m.data /\ n.owns = m.owns
           /\ m.out # NULL => n.heap[m.out].of = m.heap[m.out].of
           /\ n.heap[b].of = {tile}
           /\ m.data # NULL => n.heap[m.data].size = m.heap[m.data].size
      BY <3>4, <3>5, <3>9, <3>10, <3>11 DEF SameTile
    <3> QED
      BY <2>1, <2>2, <3>2, <3>9, <3>12, <3>13
  <2>4. CASE ~(c \in Used /\ Source(mem[c]) # NULL)
    <3>1. mem'[c] = mem[c]
      BY <1>2, <2>4 DEF Filled
    <3> QED
      BY <2>1, <2>4, <3>1
  <2> QED
    BY <2>3, <2>4
<1>8. AllSound'
  BY <1>7 DEF AllSound
<1>9. Modes'
  BY <1>2, <1>3, <1>7, ModesKept DEF States, Decoding
<1>10. whole' = IsWhole /\ whole' = whole
  BY <1>2, <1>3 DEF InCall, Decoding
<1>11. ~whole => \A c \in Used : mem'[c].win = NULL <=> area.kind[tile][c] = "empty"
  <2>1. ~whole => \A c \in Used : mem[c].win = NULL <=> area.kind[tile][c] = "empty"
    BY <1>2, <1>3 DEF InCall, Decoding
  <2> QED
    BY <2>1, <1>5, <1>7
<1>12. ASSUME NEW c \in Used PROVE Holds(c, Source(mem[c]), {tile})'
  <2>1. c \in Comps
    BY <1>5
  <2>2. Source(mem[c])' = Source(mem[c])
    BY <1>2, <1>7, <2>1 DEF Source
  <2>3. CASE Source(mem[c]) = NULL
    <3>1. ~whole
      BY <2>3, <1>2, <1>3 DEF RoomForTile, Source
    <3>2. area.kind[tile][c] = "empty"
      BY <3>1, <2>3, <1>2, <1>3 DEF InCall, Decoding, Source
    <3> QED
      BY <2>2, <2>3, <3>2, <1>2 DEF Holds, Asked
  <2>4. CASE Source(mem[c]) # NULL
    <3>1. mem'[c].heap[Source(mem[c])].of = {tile}
      BY <2>1, <2>4, <1>7
    <3>2. area.kind[tile][c] # "empty"
      <4>1. CASE whole
        <5>1. IsWhole
          BY <4>1, <1>10
        <5> QED
          BY <5>1 DEF IsWhole
      <4>2. CASE ~whole
        BY <4>2, <2>4, <1>2, <1>3 DEF InCall, Decoding, Source
      <4> QED
        BY <4>1, <4>2
    <3> QED
      BY <2>2, <2>4, <3>1, <3>2, <1>2 DEF Holds, Asked
  <2> QED
    BY <2>3, <2>4
<1>13. InCall'
  <2>1. \A c \in Used : Holds(c, Source(mem[c]), {tile})'
    BY <1>12
  <2>2. whole' = IsWhole
    BY <1>10
  <2>3. ~whole' => \A c \in Used : mem'[c].win = NULL <=> area.kind[tile][c] = "empty"
    BY <1>2, <1>11
  <2>4. \A c \in Comps :
          /\ mem'[c].out = mem[c].out
          /\ mem[c].out # NULL =>
                mem'[c].heap[mem[c].out].of = mem[c].heap[mem[c].out].of
    BY <1>7
  <2> QED
    BY <1>2, <1>3, <2>1, <2>2, <2>3, <2>4, InCallKept DEF Decoding
<1>14. RoomForTile'
  <2>1. ASSUME whole, NEW c \in Used
        PROVE  mem'[c].data # NULL /\ mem'[c].heap[mem'[c].data].size >= image.sizes[tile]
    <3>1. mem[c].data # NULL /\ mem[c].heap[mem[c].data].size >= image.sizes[tile]
      BY <2>1, <1>2, <1>3 DEF RoomForTile
    <3> QED
      BY <3>1, <1>5, <1>7
  <2> QED
    BY <2>1, <1>2, <1>5 DEF RoomForTile
<1>15. Decoded' /\ Delivered'
  BY <1>2 DEF Decoded, Delivered
<1> QED
  BY <1>6, <1>8, <1>9, <1>13, <1>14, <1>15 DEF IInv, AllSound

\* The fast path of opj_j2k_decode_tiles.
LEMMA TransferTileKeeps == ImagesFit /\ IInv /\ TransferTile => IInv'
<1>1. SUFFICES ASSUME ImagesFit, IInv, TransferTile PROVE IInv'
  OBVIOUS
<1>2. /\ UNCHANGED <<image, chosen, area, todo, tile, whole>> /\ stage = "update" /\ stage' = "move"
      /\ Single /\ Exact
      /\ mem' = [c \in Comps |-> Transfer(mem[c], image.sizes[tile])]
  BY <1>1 DEF TransferTile, Goes, Fast
<1>3. TypeOK /\ AllSound /\ Modes /\ InCall /\ RoomForTile /\ ~image.encode
  BY <1>1, <1>2 DEF IInv, AllSound, Modes
<1>4. /\ AreaFits /\ tile \in area.tiles /\ todo \subseteq area.tiles /\ tile \notin todo
      /\ Done = {} => \A c \in Comps : mem[c].out = NULL
      /\ \A c \in Used : Holds(c, Source(mem[c]), {tile})
      /\ whole = IsWhole
  BY <1>2, <1>3 DEF InCall, Decoding
<1>5. Used \subseteq Comps /\ Used' = Used
  BY <1>2, <1>3 DEF TypeOK, Used
<1>6. whole
  <2>1. IsWhole
    BY <1>2, <1>5 DEF Exact, IsWhole
  <2> QED
    BY <2>1, <1>4
<1>7. area.tiles = {tile}
  <2>1. area.tiles \subseteq DOMAIN image.sizes
    BY <1>4 DEF AreaFits, AreasOf
  <2>2. image.sizes \in Seq(Nat \ {0}) /\ Len(image.sizes) = 1
    BY <1>1, <1>2, <1>3 DEF ImagesFit, TypeOK, Single
  <2>3. DOMAIN image.sizes = 1..1
    BY <2>2
  <2>4. \A t \in area.tiles : t = 1
    BY <2>1, <2>3
  <2> QED
    BY <2>4, <1>4
<1>8. \A c \in Comps : mem[c].out = NULL
  BY <1>4, <1>7 DEF Done
<1>9. TypeOK'
  BY <1>2, <1>3 DEF TypeOK, States, Decoding, Tiles
<1>10. ASSUME NEW c \in Comps
       PROVE  /\ Sound(mem'[c]) /\ mem'[c].priv = NULL /\ mem'[c].data = NULL
              /\ mem'[c].out = mem[c].data /\ mem'[c].heap = mem[c].heap
  <2>1. Sound(mem[c]) /\ mem[c].priv = NULL /\ (mem[c].data # NULL => mem[c].owns)
    BY <1>2, <1>3, DecodeModes DEF AllSound
  <2>2. mem'[c] = Transfer(mem[c], image.sizes[tile]) /\ mem[c].out = NULL
    BY <1>2, <1>8
  <2> QED
    BY <2>1, <2>2, TransferGives
<1>11. AllSound'
  BY <1>10 DEF AllSound
<1>12. Modes'
  BY <1>2, <1>3, <1>10, ModesKept DEF States, Decoding
<1>13. Decoded'
  <2>1. AreaFits'
    BY <1>2, <1>4 DEF AreaFits
  <2>2. ASSUME NEW c \in Used PROVE mem'[c].out # NULL /\ Holds(c, mem[c].out, area.tiles)'
    <3>1. mem[c].data # NULL
      BY <1>2, <1>3, <1>6 DEF RoomForTile
    <3>2. mem[c].heap[mem[c].data].of = Asked(c, {tile})
      BY <1>4, <1>6, <3>1 DEF Holds, Source
    <3>3. c \in Comps
      BY <1>5
    <3>4. Asked(c, area.tiles)' = Asked(c, {tile})
      BY <1>2, <1>7 DEF Asked
    <3> QED
      BY <1>10, <3>1, <3>2, <3>3, <3>4 DEF Holds
  <2> QED
    BY <2>1, <2>2, <1>5 DEF Decoded
<1>14. InCall' /\ Delivered' /\ RoomForTile'
  BY <1>2 DEF InCall, Delivered, RoomForTile, Decoding
<1> QED
  BY <1>9, <1>11, <1>12, <1>13, <1>14 DEF IInv, AllSound

\* opj_j2k_update_image_data, for the components it reaches.
LEMMA UpdateImageKeeps == ImagesFit /\ IInv /\ UpdateImage => IInv'
<1>1. SUFFICES ASSUME ImagesFit, IInv, UpdateImage PROVE IInv'
  OBVIOUS
<1>2. PICK bad \in Comps \cup {Nobody} :
        /\ mem' = [c \in Comps |-> IF c \in Reached(bad) THEN Update(c, mem[c], c # bad)
                                                     ELSE mem[c]]
        /\ stage' = IF bad # Nobody THEN "failed"
                 ELSE IF todo # {} THEN "header"
                 ELSE IF AllDecoded(mem') THEN "move" ELSE "failed"
  BY <1>1 DEF UpdateImage
<1>3. /\ UNCHANGED <<image, chosen, area, whole>> /\ stage = "update"
      /\ tile' \in (IF todo # {} THEN todo ELSE {tile}) /\ todo' = todo \ {tile'}
  BY <1>1 DEF UpdateImage
<1>4. TypeOK /\ AllSound /\ Modes /\ InCall /\ ~image.encode
  BY <1>1, <1>3 DEF IInv, AllSound, Modes
<1>5. /\ AreaFits /\ tile \in area.tiles /\ todo \subseteq area.tiles /\ tile \notin todo
      /\ \A c \in Used : Holds(c, mem[c].out, Done)
      /\ \A c \in Used : Holds(c, Source(mem[c]), {tile})
  BY <1>3, <1>4 DEF InCall, Decoding
<1>6. Used \subseteq Comps /\ Used' = Used /\ AreaFits' /\ whole \in BOOLEAN
  BY <1>3, <1>4, <1>5 DEF TypeOK, Used, AreaFits
<1>7. TypeOK'
  <2>1. todo' \in SUBSET Tiles'
    BY <1>3, <1>4 DEF TypeOK, Tiles
  <2> QED
    BY <1>2, <1>3, <1>4, <2>1 DEF TypeOK, States, Decoding
<1>8. ASSUME NEW c \in Comps
      PROVE  /\ Sound(mem'[c]) /\ mem'[c].priv = NULL /\ (mem'[c].data # NULL => mem'[c].owns)
             /\ bad = Nobody /\ c \in Used =>
                  IF mem'[c].out = NULL THEN Asked(c, Done \cup {tile}) = {}
                  ELSE mem'[c].heap[mem'[c].out].of = Asked(c, Done \cup {tile})
  <2>1. Sound(mem[c]) /\ mem[c].priv = NULL /\ (mem[c].data # NULL => mem[c].owns)
    BY <1>3, <1>4, DecodeModes DEF AllSound
  <2>2. PICK m : m = mem[c]
    OBVIOUS
  <2>3. PICK n : n = mem'[c]
    OBVIOUS
  <2>4. Asked(c, Done \cup {tile}) = Asked(c, Done) \cup Asked(c, {tile})
    BY DEF Asked
  <2>5. CASE c \in Reached(bad) /\ Source(m) # NULL
    <3>1. PICK ok \in BOOLEAN : ok = (c # bad)
      OBVIOUS
    <3>2. n = Update(c, m, ok)
      BY <1>2, <2>2, <2>3, <2>5, <3>1
    <3>3. Sound(m) /\ (m.data # NULL => m.owns)
      BY <2>1, <2>2
    <3>9. ok \in BOOLEAN /\ whole \in BOOLEAN /\ Source(m) # NULL
      BY <1>6, <2>5, <3>1
    <3>4. Sound(n) /\ (n.data # NULL => n.owns) /\ n.priv = m.priv
      BY <3>2, <3>3, <3>9, UpdateGives
    <3>5. ok => n.out # NULL
      <4>1. SUFFICES ASSUME ok = TRUE PROVE n.out # NULL
        BY <3>9
      <4>2. TRUE \in BOOLEAN
        OBVIOUS
      <4>3. Update(c, m, TRUE).out # NULL
        BY <3>3, <3>9, <4>2, UpdateGives, Zenon
      <4> QED
        BY <3>2, <4>1, <4>3
    <3>6. n.out # NULL => n.heap[n.out].of =
                            (IF m.out = NULL THEN {} ELSE m.heap[m.out].of) \cup m.heap[Source(m)].of
      BY <3>2, <3>3, <3>9, UpdateGives
    <3>7. bad = Nobody => ok
      <4>1. bad = Nobody => c # bad
        BY <1>1 DEF ImagesFit, Nobody
      <4> QED
        BY <3>1, <4>1
    <3>8. c \in Used => /\ m.heap[Source(m)].of = Asked(c, {tile})
                        /\ (IF m.out = NULL THEN {} ELSE m.heap[m.out].of) = Asked(c, Done)
      <4>1. ASSUME c \in Used
            PROVE  Holds(c, Source(mem[c]), {tile}) /\ Holds(c, mem[c].out, Done)
        BY <4>1, <1>5
      <4> QED
        BY <4>1, <2>2, <2>5 DEF Holds
    <3> QED
      BY <2>1, <2>2, <2>3, <2>4, <3>4, <3>5, <3>6, <3>7, <3>8
  <2>6. CASE c \in Reached(bad) /\ Source(m) = NULL
    <3>1. mem'[c] = mem[c]
      BY <1>2, <2>2, <2>6 DEF Update
    <3>2. c \in Used => Asked(c, {tile}) = {} /\ Holds(c, mem[c].out, Done)
      <4>1. ASSUME c \in Used
            PROVE  Holds(c, Source(mem[c]), {tile}) /\ Holds(c, mem[c].out, Done)
        BY <4>1, <1>5
      <4> QED
        BY <4>1, <2>2, <2>6 DEF Holds
    <3> QED
      BY <2>1, <2>4, <3>1, <3>2 DEF Holds
  <2>7. CASE c \notin Reached(bad)
    <3>1. mem'[c] = mem[c] /\ bad # Nobody
      BY <1>2, <2>7 DEF Reached
    <3> QED
      BY <2>1, <3>1
  <2> QED
    BY <2>5, <2>6, <2>7
<1>9. AllSound'
  BY <1>8 DEF AllSound
<1>10. stage' \in {"failed", "header", "move"}
  BY <1>2
<1>11. Modes'
  BY <1>10, <1>3, <1>4, <1>8, ModesKept DEF States, Decoding
<1>13. InCall'
  <2>1. CASE stage' = "header"
    <3>1. bad = Nobody /\ todo # {} /\ tile' \in todo
      BY <1>2, <1>3, <2>1
    <3>2. Done' = Done \cup {tile}
      BY <1>3, <1>5, <3>1 DEF Done
    <3>3. \A c \in Used' : Holds(c, mem[c].out, Done)'
      <4>1. ASSUME NEW c \in Used PROVE Holds(c, mem[c].out, Done)'
        <5>1. c \in Comps
          BY <1>6
        <5>2. IF mem'[c].out = NULL THEN Asked(c, Done \cup {tile}) = {}
              ELSE mem'[c].heap[mem'[c].out].of = Asked(c, Done \cup {tile})
          BY <1>8, <3>1, <5>1
        <5>3. Asked(c, Done)' = Asked(c, Done \cup {tile})
          BY <1>3, <3>2 DEF Asked
        <5> QED
          BY <5>2, <5>3 DEF Holds
      <4> QED
        BY <4>1, <1>6
    <3>4. AreaFits' /\ tile' \in area'.tiles /\ todo' \subseteq area'.tiles /\ tile' \notin todo'
      BY <1>3, <1>5, <1>6, <3>1
    <3>5. Done' # {}
      BY <3>2
    <3> QED
      BY <2>1, <3>3, <3>4, <3>5 DEF InCall
  <2>2. CASE stage' # "header"
    BY <1>10, <2>2 DEF InCall, Decoding
  <2> QED
    BY <2>1, <2>2
<1>14. Decoded'
  <2>1. CASE stage' = "move"
    <3>1. bad = Nobody /\ todo = {} /\ AllDecoded(mem')
      BY <1>2, <2>1
    <3>2. Done \cup {tile} = area.tiles
      BY <1>5, <3>1 DEF Done
    <3>3. ASSUME NEW c \in Used PROVE mem'[c].out # NULL /\ Holds(c, mem[c].out, area.tiles)'
      <4>1. c \in Comps
        BY <1>6
      <4>2. mem'[c].out # NULL
        BY <3>1 DEF AllDecoded
      <4>3. mem'[c].heap[mem'[c].out].of = Asked(c, area.tiles)
        BY <1>8, <3>1, <3>2, <4>1, <4>2
      <4>4. Asked(c, area.tiles)' = Asked(c, area.tiles)
        BY <1>3 DEF Asked
      <4> QED
        BY <4>2, <4>3, <4>4 DEF Holds
    <3> QED
      BY <3>3, <1>6 DEF Decoded
  <2>2. CASE stage' # "move"
    BY <2>2 DEF Decoded
  <2> QED
    BY <2>1, <2>2
<1>15. Delivered' /\ RoomForTile'
  BY <1>10 DEF Delivered, RoomForTile
<1> QED
  BY <1>7, <1>9, <1>11, <1>13, <1>14, <1>15 DEF IInv, AllSound

\* What the caller has once the images change hands.
LEMMA MoveAllKeeps == IInv /\ MoveAll => IInv'
<1>1. SUFFICES ASSUME IInv, MoveAll PROVE IInv'
  OBVIOUS
<1>2. /\ UNCHANGED <<image, chosen, area, todo, whole>> /\ stage = "move" /\ stage' = "returned"
      /\ mem' = [c \in Comps |-> ToUser(mem[c])]
  BY <1>1 DEF MoveAll, Goes
<1>3. TypeOK /\ AllSound /\ Modes /\ Decoded /\ ~image.encode
  BY <1>1, <1>2 DEF IInv, AllSound, Modes
<1>4. TypeOK'
  BY <1>2, <1>3 DEF TypeOK, States, Decoding, Tiles
<1>5. ASSUME NEW c \in Comps
      PROVE  /\ Sound(mem'[c]) /\ mem'[c].priv = NULL /\ (mem'[c].data # NULL => mem'[c].owns)
             /\ mem'[c].user = mem[c].out
             /\ mem[c].out # NULL => mem'[c].heap[mem[c].out] = mem[c].heap[mem[c].out]
  <2>1. Sound(mem[c]) /\ mem[c].priv = NULL /\ (mem[c].data # NULL => mem[c].owns)
    BY <1>2, <1>3, DecodeModes DEF AllSound
  <2>2. mem'[c] = ToUser(mem[c])
    BY <1>2
  <2> QED
    BY <2>1, <2>2, ToUserSound DEF SameTile
<1>6. AllSound'
  BY <1>5 DEF AllSound
<1>7. Modes'
  BY <1>2, <1>3, <1>5, ModesKept DEF States, Decoding
<1>8. Delivered'
  <2>1. Used' = Used /\ Used \subseteq Comps
    BY <1>2, <1>3 DEF Used, TypeOK
  <2>2. ASSUME NEW c \in Used
        PROVE  mem'[c].user # NULL /\ mem'[c].heap[mem'[c].user].of = Asked(c, area.tiles)'
    <3>1. mem[c].out # NULL /\ mem[c].heap[mem[c].out].of = Asked(c, area.tiles)
      BY <1>2, <1>3 DEF Decoded, Holds
    <3>2. Asked(c, area.tiles)' = Asked(c, area.tiles)
      BY <1>2 DEF Asked
    <3> QED
      BY <1>5, <2>1, <3>1, <3>2
  <2> QED
    BY <2>1, <2>2 DEF Delivered
<1>9. InCall' /\ Decoded' /\ RoomForTile'
  BY <1>2 DEF InCall, Decoded, RoomForTile, Decoding
<1> QED
  BY <1>4, <1>6, <1>7, <1>8, <1>9 DEF IInv, AllSound

\* The chosen components move to the caller's image, the others are freed.
LEMMA MoveChosenKeeps == IInv /\ MoveChosen => IInv'
<1>1. SUFFICES ASSUME IInv, MoveChosen PROVE IInv'
  OBVIOUS
<1>2. /\ UNCHANGED <<image, chosen, area, todo, whole>> /\ stage = "move" /\ stage' = "returned"
      /\ chosen # {}
      /\ mem' = [c \in Comps |-> IF c \in chosen THEN ToUser(mem[c]) ELSE LeftToDecoder(mem[c])]
  BY <1>1 DEF MoveChosen, Goes
<1>3. TypeOK /\ AllSound /\ Modes /\ Decoded /\ ~image.encode
  BY <1>1, <1>2 DEF IInv, AllSound, Modes
<1>4. TypeOK'
  BY <1>2, <1>3 DEF TypeOK, States, Decoding, Tiles
<1>5. ASSUME NEW c \in Comps
      PROVE  /\ Sound(mem'[c]) /\ mem'[c].priv = NULL /\ (mem'[c].data # NULL => mem'[c].owns)
             /\ c \in chosen => mem'[c].user = mem[c].out
             /\ c \in chosen /\ mem[c].out # NULL =>
                  mem'[c].heap[mem[c].out] = mem[c].heap[mem[c].out]
  <2>1. Sound(mem[c]) /\ mem[c].priv = NULL /\ (mem[c].data # NULL => mem[c].owns)
    BY <1>2, <1>3, DecodeModes DEF AllSound
  <2>2. CASE c \in chosen
    <3>1. mem'[c] = ToUser(mem[c])
      BY <1>2, <2>2
    <3> QED
      BY <2>1, <3>1, ToUserSound DEF SameTile
  <2>3. CASE c \notin chosen
    <3>1. mem'[c] = LeftToDecoder(mem[c])
      BY <1>2, <2>3
    <3> QED
      BY <2>1, <2>3, <3>1, LeftToDecoderSound DEF SameTile
  <2> QED
    BY <2>2, <2>3
<1>6. AllSound'
  BY <1>5 DEF AllSound
<1>7. Modes'
  BY <1>2, <1>3, <1>5, ModesKept DEF States, Decoding
<1>8. Delivered'
  <2>1. Used' = Used /\ Used \subseteq Comps /\ Used = chosen
    BY <1>2, <1>3 DEF Used, TypeOK
  <2>2. ASSUME NEW c \in Used
        PROVE  mem'[c].user # NULL /\ mem'[c].heap[mem'[c].user].of = Asked(c, area.tiles)'
    <3>1. mem[c].out # NULL /\ mem[c].heap[mem[c].out].of = Asked(c, area.tiles)
      BY <1>2, <1>3 DEF Decoded, Holds
    <3>2. Asked(c, area.tiles)' = Asked(c, area.tiles)
      BY <1>2 DEF Asked
    <3> QED
      BY <1>5, <2>1, <3>1, <3>2
  <2> QED
    BY <2>1, <2>2 DEF Delivered
<1>9. InCall' /\ Decoded' /\ RoomForTile'
  BY <1>2 DEF InCall, Decoded, RoomForTile, Decoding
<1> QED
  BY <1>4, <1>6, <1>7, <1>8, <1>9 DEF IInv, AllSound

\* Nothing moves when malloc has no room for the list of components.
LEMMA MoveFailsKeeps == IInv /\ MoveFails => IInv'
<1>1. SUFFICES ASSUME IInv, MoveFails PROVE IInv'
  OBVIOUS
<1>2. /\ UNCHANGED <<image, mem, chosen, todo, whole>> /\ stage = "move" /\ stage' = "failed"
  BY <1>1 DEF MoveFails, Goes
<1>3. TypeOK /\ AllSound /\ Modes /\ ~image.encode
  BY <1>1, <1>2 DEF IInv, AllSound, Modes
<1>4. TypeOK'
  BY <1>2, <1>3 DEF TypeOK, States, Decoding, Tiles
<1>5. AllSound'
  BY <1>2, <1>3 DEF AllSound
<1>6. \A c \in Comps : mem'[c].priv = NULL /\ (mem'[c].data # NULL => mem'[c].owns)
  BY <1>2, <1>3, DecodeModes
<1>7. Modes'
  BY <1>2, <1>3, <1>6, ModesKept DEF States, Decoding
<1> QED
  BY <1>2, <1>4, <1>5, <1>7, OutsideCalls DEF IInv, AllSound

\* opj_j2k_start_compress takes the data of the image.
LEMMA StartCompressKeeps == IInv /\ StartCompress => IInv'
<1>1. SUFFICES ASSUME IInv, StartCompress PROVE IInv'
  OBVIOUS
<1>2. /\ UNCHANGED <<image, chosen, whole>> /\ stage = "idle" /\ stage' = "encode" /\ image.encode
      /\ mem' = [c \in Comps |-> [mem[c] EXCEPT !.priv = mem[c].user, !.user = NULL]]
      /\ todo' = Tiles
  BY <1>1 DEF StartCompress, Goes
<1>3. TypeOK /\ AllSound /\ Modes
  BY <1>1 DEF IInv, AllSound
<1>4. TypeOK'
  BY <1>2, <1>3 DEF TypeOK, States, Decoding, Tiles
<1>5. ASSUME NEW c \in Comps
      PROVE  /\ Sound(mem'[c]) /\ (mem'[c].data # NULL => mem'[c].owns)
             /\ mem'[c].owns = mem[c].owns
  <2>1. Sound(mem[c]) /\ mem[c].priv = NULL /\ (mem[c].data # NULL => mem[c].owns)
    BY <1>2, <1>3 DEF AllSound, Modes
  <2>2. mem'[c] = [mem[c] EXCEPT !.priv = mem[c].user, !.user = NULL]
    BY <1>2
  <2> QED
    BY <2>1, <2>2, StartCompressGives DEF SameTile
<1>6. AllSound'
  BY <1>5 DEF AllSound
<1>7. Modes'
  BY <1>2, <1>3, <1>5 DEF Modes, InPlace, Single
<1> QED
  BY <1>2, <1>4, <1>6, <1>7, OutsideCalls DEF IInv, AllSound

\* opj_j2k_encode, on the image's own data.
LEMMA EncodeInPlaceKeeps == IInv /\ EncodeInPlace => IInv'
<1>1. SUFFICES ASSUME IInv, EncodeInPlace PROVE IInv'
  OBVIOUS
<1>2. /\ UNCHANGED <<image, chosen, whole>> /\ stage = "encode" /\ stage' \in {"encode", "failed"}
      /\ Single /\ image.plain /\ todo' = todo \ {tile'}
      /\ mem' = [c \in Comps |-> [mem[c] EXCEPT !.data = mem[c].priv, !.owns = FALSE]]
  BY <1>1 DEF EncodeInPlace, NextTile
<1>3. TypeOK /\ AllSound /\ Modes /\ image.encode /\ InPlace
  BY <1>1, <1>2 DEF IInv, AllSound, Modes, InPlace
<1>4. TypeOK'
  BY <1>2, <1>3 DEF TypeOK, States, Decoding, Tiles
<1>5. ASSUME NEW c \in Comps
      PROVE  /\ Sound(mem'[c]) /\ mem'[c].owns = FALSE /\ mem'[c].data = mem'[c].priv
  <2>1. Sound(mem[c]) /\ ~mem[c].owns
    BY <1>2, <1>3 DEF AllSound, Modes
  <2>2. mem[c].owns = FALSE
    BY <2>1 DEF Sound, Component
  <2>3. mem'[c] = [mem[c] EXCEPT !.data = mem[c].priv, !.owns = FALSE]
    BY <1>2
  <2>4. PICK m : m = mem[c]
    OBVIOUS
  <2>5. PICK n : n = [m EXCEPT !.data = m.priv, !.owns = FALSE]
    OBVIOUS
  <2>6. Sound(m) /\ m.owns = FALSE
    BY <2>1, <2>2, <2>4
  <2>7. Sound(n) /\ n.data = m.priv /\ n.owns = FALSE /\ n.priv = m.priv
    BY <2>5, <2>6, InPlaceGives
  <2> QED
    BY <2>3, <2>4, <2>5, <2>7
<1>6. AllSound'
  BY <1>5 DEF AllSound
<1>7. Modes'
  BY <1>2, <1>3, <1>5 DEF Modes, InPlace, Single
<1> QED
  BY <1>2, <1>4, <1>6, <1>7, OutsideCalls DEF IInv, AllSound

\* opj_j2k_encode, on copies of the tiles.
LEMMA EncodeCopyKeeps == ImagesFit /\ IInv /\ EncodeCopy => IInv'
<1>1. SUFFICES ASSUME ImagesFit, IInv, EncodeCopy PROVE IInv'
  OBVIOUS
<1> DEFINE try(c, m, ok) == AllocTileData(m, image.sizes[tile'], ok)
<1>2. PICK bad \in Comps \cup {Nobody} :
        /\ mem' = [c \in Comps |-> IF c \in Reached(bad) THEN try(c, mem[c], c # bad) ELSE mem[c]]
        /\ stage' \in IF bad # Nobody THEN {"failed"} ELSE {"encode", "failed"}
  BY <1>1 DEF EncodeCopy
<1>3. /\ UNCHANGED <<image, chosen, whole>> /\ stage = "encode" /\ ~(Single /\ image.plain)
      /\ tile' \in todo /\ todo' = todo \ {tile'}
  BY <1>1 DEF EncodeCopy, NextTile
<1>4. TypeOK /\ AllSound /\ Modes /\ image.encode /\ ~InPlace
  BY <1>1, <1>3 DEF IInv, AllSound, Modes, InPlace
<1>5. image.sizes[tile'] \in Nat \ {0}
  <2>1. tile' \in DOMAIN image.sizes /\ image.sizes \in Seq(Nat \ {0})
    BY <1>1, <1>3, <1>4 DEF TypeOK, Tiles, ImagesFit
  <2> QED
    BY <2>1
<1>6. stage' \in {"encode", "failed"}
  BY <1>2
<1>7. TypeOK'
  BY <1>3, <1>4, <1>6, <1>2 DEF TypeOK, States, Decoding, Tiles
<1>8. ASSUME NEW c \in Comps
      PROVE  Sound(mem'[c]) /\ (mem'[c].data # NULL => mem'[c].owns)
  <2>1. Sound(mem[c]) /\ (mem[c].data # NULL => mem[c].owns)
    BY <1>3, <1>4 DEF AllSound, Modes
  <2>2. CASE c \in Reached(bad)
    <3>1. PICK m : m = mem[c]
      OBVIOUS
    <3>2. PICK ok \in BOOLEAN : ok = (c # bad)
      OBVIOUS
    <3>3. PICK need \in Nat \ {0} : need = image.sizes[tile']
      BY <1>5
    <3>4. ok \in BOOLEAN
      BY <3>2
    <3>5. Sound(m) /\ (m.data # NULL => m.owns)
      BY <2>1, <3>1
    <3>6. Sound(AllocTileData(m, need, ok))
      BY <3>3, <3>4, <3>5, AllocTileDataGives
    <3>7. AllocTileData(m, need, ok).data # NULL => AllocTileData(m, need, ok).owns
      BY <3>3, <3>4, <3>5, AllocTileDataGives
    <3>8. mem'[c] = AllocTileData(m, need, ok)
      BY <1>2, <2>2, <3>1, <3>2, <3>3
    <3> QED
      BY <3>6, <3>7, <3>8
  <2>3. CASE c \notin Reached(bad)
    <3>1. mem'[c] = mem[c]
      BY <1>2, <2>3
    <3> QED
      BY <2>1, <3>1
  <2> QED
    BY <2>2, <2>3
<1>9. AllSound'
  BY <1>8 DEF AllSound
<1>10. Modes'
  BY <1>3, <1>4, <1>6, <1>8 DEF Modes, InPlace, Single
<1> QED
  BY <1>6, <1>7, <1>9, <1>10, OutsideCalls DEF IInv, AllSound

\* opj_j2k_destroy and opj_image_destroy.
LEMMA DestroyKeeps == IInv /\ Destroy => IInv'
<1>1. SUFFICES ASSUME IInv, Destroy PROVE IInv'
  OBVIOUS
<1>2. /\ UNCHANGED <<image, chosen, todo, whole>> /\ stage' = "destroyed"
      /\ mem' = [c \in Comps |-> FreeImages(EmptySlot(FreeTile(mem[c])))]
  BY <1>1 DEF Destroy
<1>3. TypeOK /\ AllSound /\ Modes
  BY <1>1 DEF IInv, AllSound
<1>4. TypeOK'
  BY <1>2, <1>3 DEF TypeOK, States, Decoding, Tiles
<1>5. ASSUME NEW c \in Comps
      PROVE  /\ Sound(mem'[c]) /\ mem'[c].priv = NULL
             /\ mem[c].owns = FALSE => mem'[c].owns = FALSE
  <2>1. Sound(mem[c])
    BY <1>3 DEF AllSound
  <2>2. mem'[c] = FreeImages(EmptySlot(FreeTile(mem[c])))
    BY <1>2
  <2> QED
    BY <2>1, <2>2, DestroyGives
<1>6. AllSound'
  BY <1>5 DEF AllSound
<1>7. Modes'
  <2>1. InPlace' = InPlace
    BY <1>2 DEF InPlace, Single
  <2>2. InPlace => \A c \in Comps : ~mem'[c].owns
    <3>1. ASSUME InPlace, NEW c \in Comps PROVE ~mem'[c].owns
      <4>1. ~mem[c].owns /\ Sound(mem[c])
        BY <3>1, <1>3 DEF Modes, AllSound
      <4>2. mem[c].owns = FALSE
        BY <4>1 DEF Sound, Component
      <4> QED
        BY <4>2, <1>5
    <3> QED
      BY <3>1
  <2> QED
    BY <1>2, <1>5, <2>1, <2>2 DEF Modes
<1> QED
  BY <1>2, <1>4, <1>6, <1>7, OutsideCalls DEF IInv, AllSound

------------------------------------------------------------------------------
\* The invariant holds of a codec whose header has been read.
LEMMA InitHolds == ImagesFit /\ BuffersInit => IInv
<1>1. SUFFICES ASSUME ImagesFit, BuffersInit PROVE IInv
  OBVIOUS
<1>2. /\ image \in Images /\ chosen = {} /\ todo = {} /\ whole = TRUE /\ stage = "idle"
      /\ mem = [c \in Comps |-> IF image.encode THEN Loaded(1) ELSE Blank]
  BY <1>1 DEF BuffersInit
<1>3. TypeOK
  BY <1>2 DEF TypeOK, States
<1>4. ASSUME NEW c \in Comps
      PROVE  /\ Sound(mem[c]) /\ mem[c].owns = FALSE /\ mem[c].data = NULL
             /\ mem[c].priv = NULL
  <2>1. mem[c] = Loaded(1) \/ mem[c] = Blank
    BY <1>2
  <2>2. 1 \in Nat
    OBVIOUS
  <2> QED
    BY <2>1, <2>2, LoadedSound, BlankSound
<1>5. AllSound
  BY <1>4 DEF AllSound
<1>6. Modes
  BY <1>2, <1>4 DEF Modes
<1>7. InCall /\ Decoded /\ Delivered /\ RoomForTile
  BY <1>2 DEF InCall, Decoded, Delivered, RoomForTile, Decoding
<1> QED
  BY <1>3, <1>5, <1>6, <1>7 DEF IInv, AllSound

\* And of a state that does not change.
LEMMA StutterKeeps == IInv /\ UNCHANGED bufferVars => IInv'
<1>1. SUFFICES ASSUME IInv, UNCHANGED bufferVars PROVE IInv'
  OBVIOUS
<1>2. /\ image' = image /\ mem' = mem /\ chosen' = chosen /\ area' = area /\ todo' = todo
      /\ tile' = tile /\ whole' = whole /\ stage' = stage
  BY <1>1 DEF bufferVars
<1>3. Used' = Used /\ Done' = Done /\ IsWhole' = IsWhole /\ AreaFits' = AreaFits
  BY <1>2 DEF Used, Done, IsWhole, AreaFits
<1>4. TypeOK' /\ Modes'
  BY <1>1, <1>2 DEF IInv, TypeOK, Modes, InPlace, Single, Tiles
<1>5. AllSound'
  BY <1>1, <1>2 DEF IInv, AllSound
<1>6. InCall'
  BY <1>1, <1>2, <1>3 DEF IInv, InCall, Holds, Asked, Source
<1>7. Decoded' /\ Delivered' /\ RoomForTile'
  BY <1>1, <1>2, <1>3 DEF IInv, Decoded, Delivered, RoomForTile, Holds, Asked
<1> QED
  BY <1>4, <1>5, <1>6, <1>7 DEF IInv, AllSound

\* The invariant is inductive.
LEMMA NextKeeps == ImagesFit /\ IInv /\ [BuffersNext]_bufferVars => IInv'
BY SetDecodedComponentsKeeps, DecodeKeeps, GetTileKeeps, InitTileKeeps, AllocWholeKeeps,
   DeferAllocKeeps, CodeBlocksKeeps, AllocWindowKeeps, FillTileKeeps, TransferTileKeeps,
   UpdateImageKeeps, MoveAllKeeps, MoveChosenKeeps, MoveFailsKeeps, StartCompressKeeps,
   EncodeInPlaceKeeps, EncodeCopyKeeps, DestroyKeeps, StutterKeeps
   DEF BuffersNext

\* A buffer that one of the distinct pointers holds has one owner.
LEMMA SoundHasOwners ==
  ASSUME NEW m, Sound(m), NEW b \in DOMAIN m.heap
  PROVE  Cardinality(Owners(m, b)) = 1
<1>1. Owned(m) /\ b # NULL
  BY DEF Sound, Owned
<1>2. \E o : Owners(m, b) = {o}
  <2>1. \/ b = Own(m) /\ Owners(m, b) = {<<"data", Own(m)>>}
        \/ b = m.win /\ Owners(m, b) = {<<"win", m.win>>}
        \/ b = m.slot /\ Owners(m, b) = {<<"slot", m.slot>>}
        \/ b = m.out /\ Owners(m, b) = {<<"out", m.out>>}
        \/ b = m.user /\ Owners(m, b) = {<<"user", m.user>>}
        \/ b = m.priv /\ Owners(m, b) = {<<"priv", m.priv>>}
    BY <1>1 DEF Owned, Owners, Own
  <2> QED
    BY <2>1
<1> QED
  BY <1>2, FS_Singleton

\* It implies what the run checks: the pointers that own are distinct, so that
\* each buffer has exactly one owner.
LEMMA InvariantIsSound == IInv => BuffersSound
<1>1. SUFFICES ASSUME IInv PROVE OneOwner
  BY DEF IInv, BuffersSound
<1>2. ASSUME NEW c \in Comps
      PROVE  /\ Pointers(mem[c]) \subseteq DOMAIN mem[c].heap
             /\ \A b \in DOMAIN mem[c].heap : Cardinality(Owners(mem[c], b)) = 1
  <2>1. Sound(mem[c]) /\ Modes
    BY <1>1 DEF IInv
  <2>2. Owned(mem[c])
    BY <2>1 DEF Sound
  <2>3. stage # "destroyed" /\ mem[c].data # NULL => mem[c].data \in {Own(mem[c]), mem[c].priv}
    BY <2>1 DEF Modes, Own
  <2>4. Pointers(mem[c]) \subseteq DOMAIN mem[c].heap
    BY <2>2, <2>3 DEF Owned, Pointers
  <2> QED
    BY <2>1, <2>4, SoundHasOwners
<1> QED
  BY <1>2 DEF OneOwner

\* Whatever is decoded or encoded, in whatever order areas, tiles and
\* components are asked for and whichever allocation fails: every sample buffer
\* has exactly one owner that frees it and no pointer is left to one that is
\* freed, what opj_decode or opj_get_decoded_tile delivers is the samples of the
\* tiles asked for and of no call before, and the transforms have room.
THEOREM BuffersCorrect == BuffersSpec => []BuffersSound
<1>1. BuffersInit => IInv
  BY InitHolds, TileBuffersAssumption
<1>2. IInv /\ [BuffersNext]_bufferVars => IInv'
  BY NextKeeps, TileBuffersAssumption
<1>3. IInv => BuffersSound
  BY InvariantIsSound
<1> QED
  BY <1>1, <1>2, <1>3, PTL DEF BuffersSpec

\* The slot of opj_tcd_pool_recycle never has a buffer: the fast path gives it
\* the data of the codec's image, and opj_copy_image_header has left that image
\* without any since the last call.
PoolEmpty == \A c \in Comps : mem[c].slot = NULL

\* In every state the slots are empty: the buffers decoded into are never
\* recycled from the image of a call before.
THEOREM PoolStaysEmpty == BuffersSpec => []PoolEmpty
<1>1. BuffersInit => IInv
  BY InitHolds, TileBuffersAssumption
<1>2. IInv /\ [BuffersNext]_bufferVars => IInv'
  BY NextKeeps, TileBuffersAssumption
<1>3. IInv => PoolEmpty
  BY DEF IInv, Sound, PoolEmpty
<1> QED
  BY <1>1, <1>2, <1>3, PTL DEF BuffersSpec

==============================================================================

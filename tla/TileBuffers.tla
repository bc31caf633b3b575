----------------------------- MODULE TileBuffers -----------------------------
(***************************************************************************)
(* The sample buffers of a codec: a tile-component (tcd.c), the pool slot  *)
(* of a component, the codec's images (j2k.c) and the caller's image hand  *)
(* them on to each other.  A buffer belongs to one component for all its   *)
(* life, so that the state is one record for each component, with the      *)
(* buffers that are allocated and what each pointer holds.                 *)
(*                                                                         *)
(* Of a window of samples the model keeps how it compares with the         *)
(* tile-component: "exact", "near" (taken as whole by the margin of        *)
(* opj_tcd_is_whole_tilecomp_decoding), "part" or "empty".                 *)
(***************************************************************************)
EXTENDS Integers, Sequences, FiniteSets

CONSTANTS
  Comps,      \* the components: 0, 1, ...
  Images,     \* [encode, sizes, plain, areas]: sizes[t] is that of tile t; plain is
              \* an image whose grid begins at 0, or, to encode, with aligned data;
              \* areas are what opj_set_decode_area may ask for, [tiles, kind]
  MaxCalls    \* bound on the calls of opj_decode and opj_get_decoded_tile

NULL == 0

(* A component of an area is compared with each tile.                      *)
AreaKinds == {"exact", "near", "part", "empty"}
AreasOf(i) == [tiles : (SUBSET DOMAIN i.sizes) \ {{}},
               kind : [DOMAIN i.sizes -> [Comps -> AreaKinds]]]
ImagesFit ==
  /\ Comps \subseteq Nat
  /\ \A i \in Images :
       /\ i.encode \in BOOLEAN /\ i.plain \in BOOLEAN
       /\ i.sizes \in Seq(Nat \ {0}) /\ i.areas \subseteq AreasOf(i)
ASSUME TileBuffersAssumption == ImagesFit

VARIABLES
  image,      \* what is decoded or encoded
  mem,        \* of each component, its buffers and the pointers to them
  chosen,     \* opj_set_decoded_components; all is none
  shown,      \* the components of the caller's image
  area,       \* [tiles, kind]: what the call asks for
  todo,       \* the tiles left of it, a set
  tile, whole,
  used,       \* "new", "tiles", "area", or "kept": the tile's code-blocks still are
  calls, stage

bufferVars == <<image, mem, chosen, shown, area, todo, tile, whole, used, calls, stage>>

Single == Len(image.sizes) = 1
Tiles == DOMAIN image.sizes
Used == IF chosen = {} THEN Comps ELSE chosen

------------------------------------------------------------------------------
(* opj_image_data_alloc and opj_image_data_free, on a component.           *)
NewBuffer(m) == CHOOSE b \in 1..(Cardinality(DOMAIN m.heap) + 1) : b \notin DOMAIN m.heap
Alloc(m, size) ==
  [m EXCEPT !.heap = [b \in DOMAIN m.heap \cup {NewBuffer(m)} |->
                        IF b \in DOMAIN m.heap THEN m.heap[b] ELSE [size |-> size, of |-> {}]]]
Free(m, b) == [m EXCEPT !.heap = [x \in DOMAIN m.heap \ {b} |-> m.heap[x]]]
Filled(m, b, samples) ==
  IF b = NULL THEN m ELSE [m EXCEPT !.heap[b].of = samples]

EmptySlot(m) == [Free(m, m.slot) EXCEPT !.slot = NULL, !.slotSize = 0]

(* opj_alloc_tile_component_data; ok says what malloc does.                *)
AllocTileData(m, need, ok) ==
  IF m.data # NULL /\ need <= m.size THEN m
  ELSE LET dropped == IF m.owns /\ m.data # NULL
                        THEN [Free(m, m.data) EXCEPT !.data = NULL, !.owns = FALSE, !.size = 0]
                        ELSE m
           bare == EmptySlot(dropped)
       IN  IF dropped.slot # NULL /\ dropped.slotSize >= need
             THEN [dropped EXCEPT !.data = dropped.slot, !.size = dropped.slotSize,
                                  !.owns = TRUE, !.slot = NULL, !.slotSize = 0]
           ELSE IF ok
             THEN [Alloc(bare, need) EXCEPT !.data = NewBuffer(bare), !.size = need,
                                            !.owns = TRUE]
             ELSE [bare EXCEPT !.data = NULL]

(* opj_tcd_pool_recycle.                                                   *)
Recycle(m, b, size) ==
  IF b = NULL THEN m
  ELSE IF m.slot = NULL \/ size > m.slotSize
         THEN [EmptySlot(m) EXCEPT !.slot = b, !.slotSize = size]
         ELSE Free(m, b)

FreeWindow(m) == [Free(m, m.win) EXCEPT !.win = NULL]

(* The codec's image gets new component headers, the caller's gets data.   *)
FreshHeader(m) == [Free(m, m.out) EXCEPT !.out = NULL]
ToUser(m) == [Free(m, m.user) EXCEPT !.user = m.out, !.out = NULL]
LeftToDecoder(m) ==
  LET freed == Free(m, m.user) IN [Free(freed, freed.out) EXCEPT !.user = NULL, !.out = NULL]

(* The fast path of opj_j2k_decode_tiles: the tile's data becomes the      *)
(* image's, whose data goes into the pool.                                 *)
Transfer_KeepsData(m, size) == [Recycle(m, m.out, size) EXCEPT !.out = m.data]
Transfer(m, size) == [Recycle(m, m.out, size) EXCEPT !.out = m.data, !.data = NULL]

(* opj_j2k_update_image_data: the tile's samples are lent or copied.       *)
Source(m) == IF whole THEN m.data ELSE m.win
Fits(c) == Cardinality(area.tiles) = 1 /\ (whole => area.kind[tile][c] = "exact")
Lend(m) ==
  IF whole THEN [m EXCEPT !.out = m.data, !.data = NULL]
           ELSE [m EXCEPT !.out = m.win, !.win = NULL]
Copy(m) == Filled(m, m.out, m.heap[m.out].of \cup m.heap[Source(m)].of)
Update(c, m, ok) ==
  IF Source(m) = NULL THEN m
  ELSE IF m.out # NULL THEN Copy(m)
  ELSE IF Fits(c) THEN Lend(m)
  ELSE IF ok THEN Copy([Alloc(m, 1) EXCEPT !.out = NewBuffer(m)])
  ELSE m

(* All components, or those before the first whose allocation fails, which *)
(* is then tried in vain.                                                  *)
Nobody == -1
Reached(bad) == IF bad = Nobody THEN Comps ELSE {c \in Comps : c <= bad}

------------------------------------------------------------------------------
Blank == [heap |-> <<>>, data |-> NULL, owns |-> FALSE, size |-> 0, win |-> NULL,
          slot |-> NULL, slotSize |-> 0, out |-> NULL, user |-> NULL, priv |-> NULL]
Loaded(size) == [Alloc(Blank, size) EXCEPT !.user = 1]

NoArea == [tiles |-> {}, kind |-> <<>>]

(* A codec whose header has been read, or an image to encode.              *)
BuffersInit ==
  /\ image \in Images
  /\ mem = [c \in Comps |-> IF image.encode THEN Loaded(1) ELSE Blank]
  /\ chosen = {} /\ shown = Comps /\ area = NoArea /\ todo = {} /\ tile = 1
  /\ whole = TRUE /\ used = "new" /\ calls = 0 /\ stage = "idle"

Goes(from, to) == stage = from /\ stage' = to
Ready == stage \in {"idle", "returned"} /\ ~image.encode

(* opj_set_decoded_components.                                             *)
SetDecodedComponents ==
  /\ Ready /\ calls < MaxCalls
  /\ \E s \in SUBSET Comps : s # chosen /\ chosen' = s
  /\ stage' = "idle"
  /\ UNCHANGED <<image, mem, shown, area, todo, tile, whole, used, calls>>

(* The samples of earlier calls no longer count.  A caller whose image has *)
(* lost components makes another.                                          *)
Old(m) == [m EXCEPT !.heap = [b \in DOMAIN m.heap |-> [m.heap[b] EXCEPT !.of = {}]]]
Begun(m) ==
  FreshHeader(IF shown = Comps THEN Old(m) ELSE [Old(Free(m, m.user)) EXCEPT !.user = NULL])

(* opj_j2k_decode: as long as the only tile is kept, or once.  The tiles   *)
(* come in the order of the codestream.                                    *)
Decode ==
  /\ Ready /\ calls < MaxCalls /\ calls' = calls + 1
  /\ used \in {"new", "kept"}
  /\ \E a \in image.areas :
       /\ area' = a
       /\ tile' \in a.tiles /\ todo' = a.tiles \ {tile'}
  /\ mem' = [c \in Comps |-> Begun(mem[c])] /\ shown' = Comps
  /\ stage' = "header"
  /\ UNCHANGED <<image, chosen, whole, used>>

(* opj_j2k_get_tile: the codec's image is destroyed, one is made for it.   *)
GetTile ==
  /\ Ready /\ calls < MaxCalls /\ calls' = calls + 1
  /\ used \in {"new", "tiles"} /\ used' = "tiles"
  /\ \E t \in Tiles :
       /\ tile' = t /\ todo' = {}
       /\ area' = [tiles |-> {t}, kind |-> [u \in Tiles |-> [c \in Comps |-> "exact"]]]
  /\ mem' = [c \in Comps |-> Begun(mem[c])] /\ shown' = Comps
  /\ stage' = "header"
  /\ UNCHANGED <<image, chosen, whole>>

Exact == \A c \in Comps : area.kind[tile][c] = "exact"
Fast == image.plain /\ Single /\ used # "tiles" /\ Exact

(* opj_tcd_init_tile, unless the data of the tile is kept from the last    *)
(* area.                                                                   *)
InitTile ==
  /\ Goes("header", "alloc")
  /\ mem' = IF used = "kept" /\ ~Fast THEN mem ELSE [c \in Comps |-> FreeWindow(mem[c])]
  /\ UNCHANGED <<image, chosen, shown, area, todo, tile, whole, used, calls>>

IsWhole == \A c \in Used : area.kind[tile][c] \in {"exact", "near"}

(* opj_tcd_decode_tile, up to tier 1.                                      *)
AllocWhole ==
  /\ stage = "alloc" /\ IsWhole /\ whole' = TRUE
  /\ \E bad \in Used \cup {Nobody} :
       LET try(c, m, ok) == IF c \in Used THEN AllocTileData(m, image.sizes[tile], ok) ELSE m
       IN  /\ mem' = [c \in Comps |-> IF c \in Reached(bad) THEN try(c, mem[c], c # bad)
                                      ELSE mem[c]]
           /\ bad # Nobody => mem'[bad].data = NULL
           /\ stage' = IF bad # Nobody THEN "failed" ELSE "t1"
  /\ UNCHANGED <<image, chosen, shown, area, todo, tile, used, calls>>
DeferAlloc ==
  /\ Goes("alloc", "t1") /\ ~IsWhole /\ whole' = FALSE
  /\ UNCHANGED <<image, mem, chosen, shown, area, todo, tile, used, calls>>

(* Tiers 2 and 1 may fail.                                                 *)
CodeBlocks ==
  /\ stage = "t1" /\ stage' \in {"failed", IF whole THEN "dwt" ELSE "window"}
  /\ UNCHANGED <<image, mem, chosen, shown, area, todo, tile, whole, used, calls>>

(* The buffers of the windows, once it is known what was decoded.          *)
AllocWindow ==
  /\ stage = "window"
  /\ \E bad \in Used \cup {Nobody} :
       LET empty(c) == area.kind[tile][c] = "empty"
           try(c, m, ok) ==
             IF c \in Used /\ ~empty(c) /\ ok
               THEN [Alloc(FreeWindow(m), 1) EXCEPT !.win = NewBuffer(FreeWindow(m))]
               ELSE FreeWindow(m)
       IN  /\ bad # Nobody => ~empty(bad)
           /\ mem' = [c \in Comps |-> IF c \in Reached(bad) THEN try(c, mem[c], c # bad)
                                      ELSE mem[c]]
           /\ stage' = IF bad # Nobody THEN "failed" ELSE "dwt"
  /\ UNCHANGED <<image, chosen, shown, area, todo, tile, whole, used, calls>>

(* The wavelet and component transforms fill the buffers.                  *)
FillTile ==
  /\ Goes("dwt", "update")
  /\ mem' = [c \in Comps |-> IF c \in Used THEN Filled(mem[c], Source(mem[c]), {tile})
                                           ELSE mem[c]]
  /\ UNCHANGED <<image, chosen, shown, area, todo, tile, whole, used, calls>>

TransferTile ==
  /\ Goes("update", "move") /\ Fast /\ used' = "kept"
  /\ mem' = [c \in Comps |-> Transfer(mem[c], image.sizes[tile])]
  /\ UNCHANGED <<image, chosen, shown, area, todo, tile, whole, calls>>

AllDecoded(m) == \A c \in Used : m[c].out # NULL
UpdateImage ==
  /\ stage = "update" /\ ~Fast
  /\ \E bad \in Comps \cup {Nobody} :
       /\ mem' = [c \in Comps |-> IF c \in Reached(bad) THEN Update(c, mem[c], c # bad)
                                                    ELSE mem[c]]
       /\ bad # Nobody => Source(mem[bad]) # NULL /\ mem'[bad].out = NULL
       /\ stage' = IF bad # Nobody THEN "failed"
                ELSE IF todo # {} THEN "header"
                ELSE IF AllDecoded(mem') THEN "move" ELSE "failed"
  /\ tile' \in IF todo # {} THEN todo ELSE {tile}
  /\ todo' = todo \ {tile'}
  /\ used' = IF used = "tiles" THEN used ELSE IF Single /\ ~Exact THEN "kept" ELSE "area"
  /\ UNCHANGED <<image, chosen, shown, area, whole, calls>>

(* opj_j2k_move_data_from_codec_to_output_image, in a build that leaves    *)
(* out its assert.                                                         *)
MoveAll ==
  /\ Goes("move", "returned") /\ chosen = {}
  /\ mem' = [c \in Comps |-> ToUser(mem[c])]
  /\ UNCHANGED <<image, chosen, shown, area, todo, tile, whole, used, calls>>
MoveChosen ==
  /\ Goes("move", "returned") /\ chosen # {}
  /\ mem' = [c \in Comps |-> IF c \in chosen THEN ToUser(mem[c]) ELSE LeftToDecoder(mem[c])]
  /\ shown' = chosen
  /\ UNCHANGED <<image, chosen, area, todo, tile, whole, used, calls>>
MoveFails ==
  /\ Goes("move", "failed") /\ chosen # {}
  /\ UNCHANGED <<image, mem, chosen, shown, area, todo, tile, whole, used, calls>>

------------------------------------------------------------------------------
(* opj_j2k_start_compress: the data moves to the codec's image.            *)
StartCompress ==
  /\ Goes("idle", "encode") /\ image.encode
  /\ mem' = [c \in Comps |-> [mem[c] EXCEPT !.priv = mem[c].user, !.user = NULL]]
  /\ todo' = Tiles
  /\ UNCHANGED <<image, chosen, shown, area, tile, whole, used, calls>>

(* A tile of opj_j2k_encode: the only tile works on the image's data if    *)
(* that of every component is aligned.                                     *)
NextTile ==
  /\ stage = "encode" /\ tile' \in todo /\ todo' = todo \ {tile'}
  /\ \A t \in todo : tile' <= t
  /\ UNCHANGED <<image, chosen, shown, area, whole, used, calls>>
EncodeInPlace ==
  /\ NextTile /\ Single /\ image.plain
  /\ mem' = [c \in Comps |-> [mem[c] EXCEPT !.data = mem[c].priv, !.owns = FALSE]]
  /\ stage' \in {"encode", "failed"}
EncodeCopy ==
  /\ NextTile /\ ~(Single /\ image.plain)
  /\ \E bad \in Comps \cup {Nobody} :
       LET try(c, m, ok) == AllocTileData(m, image.sizes[tile'], ok)
       IN  /\ mem' = [c \in Comps |-> IF c \in Reached(bad) THEN try(c, mem[c], c # bad)
                                      ELSE mem[c]]
           /\ bad # Nobody => mem'[bad].data = NULL
           /\ stage' \in IF bad # Nobody THEN {"failed"} ELSE {"encode", "failed"}

(* opj_j2k_destroy (the tile, the slots, both images) and the caller's     *)
(* image.                                                                  *)
FreeTile(m) ==
  FreeWindow(IF m.owns /\ m.data # NULL
               THEN [Free(m, m.data) EXCEPT !.data = NULL, !.owns = FALSE, !.size = 0]
               ELSE m)
FreeImages(m) ==
  LET o == FreshHeader(m)
      p == [Free(o, o.priv) EXCEPT !.priv = NULL]
  IN  [Free(p, p.user) EXCEPT !.user = NULL]
Destroy ==
  /\ stage \in {"idle", "returned", "failed"} \/ (stage = "encode" /\ todo = {})
  /\ stage' = "destroyed"
  /\ mem' = [c \in Comps |-> FreeImages(EmptySlot(FreeTile(mem[c])))]
  /\ UNCHANGED <<image, chosen, shown, area, todo, tile, whole, used, calls>>

BuffersNext ==
  \/ SetDecodedComponents \/ Decode \/ GetTile
  \/ InitTile \/ AllocWhole \/ DeferAlloc \/ CodeBlocks \/ AllocWindow \/ FillTile
  \/ TransferTile \/ UpdateImage \/ MoveAll \/ MoveChosen \/ MoveFails
  \/ StartCompress \/ EncodeInPlace \/ EncodeCopy \/ Destroy

BuffersSpec == BuffersInit /\ [][BuffersNext]_bufferVars

------------------------------------------------------------------------------
(* Goes every moment each buffer has one owner that will free it, and what   *)
(* owns nothing holds no buffer that is freed; so nothing is freed twice,  *)
(* used after it is freed or, once codec and image are destroyed, leaked.  *)
Owners(m, b) ==
  {o \in {<<"data", IF m.owns THEN m.data ELSE NULL>>, <<"win", m.win>>, <<"slot", m.slot>>,
          <<"out", m.out>>, <<"user", m.user>>, <<"priv", m.priv>>} : o[2] = b}
Pointers(m) == {m.win, m.slot, m.out, m.user, m.priv,
                IF stage = "destroyed" THEN NULL ELSE m.data} \ {NULL}
OneOwner ==
  \A c \in Comps :
    /\ Pointers(mem[c]) \subseteq DOMAIN mem[c].heap
    /\ \A b \in DOMAIN mem[c].heap : Cardinality(Owners(mem[c], b)) = 1

(* After a call that succeeds, the caller's image holds the samples of     *)
(* all tiles asked for that have any, and of this call only, of each       *)
(* component chosen.                                                       *)
Asked(c, tiles) == {t \in tiles : area.kind[t][c] # "empty"}
Delivered ==
  stage = "returned" =>
    \A c \in Used : /\ mem[c].user # NULL
                    /\ mem[c].heap[mem[c].user].of = Asked(c, area.tiles)

(* The transforms find buffers that are large enough for the tile, also    *)
(* those left by a tile before.                                            *)
RoomForTile ==
  stage \in {"t1", "dwt", "update"} /\ whole =>
    \A c \in Used : /\ mem[c].data # NULL
                    /\ mem[c].heap[mem[c].data].size >= image.sizes[tile]

BuffersSound == OneOwner /\ Delivered /\ RoomForTile
==============================================================================

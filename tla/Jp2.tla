--------------------------------- MODULE Jp2 ---------------------------------
(***************************************************************************)
(* The JP2 container (jp2.c): a file is a sequence of boxes.  The encoder  *)
(* writes them around a codestream whose length it fills in at the end;    *)
(* the decoder reads them in whatever order they come, keeps what they say *)
(* of colours, and applies it to the image of each call.                   *)
(*                                                                         *)
(* A channel of an image is [comp, column, alpha]: the component of the    *)
(* codestream it shows, the column of the palette it has been mapped       *)
(* through, or None, and the type of opj_image_comp_t.  The contents of a  *)
(* box are what the decoder keeps of it; fault tells a length smaller than *)
(* the box header from one that leads beyond the file.                     *)
(***************************************************************************)
EXTENDS Integers, SequencesExt

CONSTANTS
  Files,      \* files to read: [boxes, comps], comps components in the codestream
  Given,      \* images to write: [alphas, space, icc, mixed], mixed if of several depths
  MaxCalls,   \* calls that decode
  None

VARIABLES
  file,       \* the boxes of the file, written or given
  comps,      \* the components of its codestream
  given,      \* history: the image the file was written from, or None
  jp2,        \* opj_jp2_t: see NewDecoder
  at,         \* the next box to read
  image,      \* the caller's image: [chans, space, icc]
  subset,     \* m_numcomps_to_decode is not 0
  calls,
  colored,    \* history: how often colours have been applied
  pc

vars == <<file, comps, given, jp2, at, image, subset, calls, colored, pc>>

Absent == 65535      \* typ and asoc of a channel nothing is known of
TopLevel == {"jp", "ftyp", "jp2h"}
InHeader == {"ihdr", "colr", "bpcc", "pclr", "cmap", "cdef"}

NewDecoder(ignore) ==
  [state |-> {}, has_ihdr |-> FALSE, ncomps |-> 0, has_colr |-> FALSE, enumcs |-> None,
   icc |-> None, pclr |-> None, cmap |-> None, cdef |-> None, ignore |-> ignore]

------------------------------------------------------------------------------
(* The handlers of the boxes: whether the box is accepted, and the codec   *)
(* after it.                                                               *)
Accept(j) == [ok |-> TRUE, jp2 |-> j]
Refuse(j) == [ok |-> FALSE, jp2 |-> j]

ReadJp(j, b) ==
  IF j.state = {} THEN Accept([j EXCEPT !.state = {"signature"}]) ELSE Refuse(j)

ReadFtyp(j, b) ==
  IF j.state = {"signature"} THEN Accept([j EXCEPT !.state = @ \cup {"file_type"}]) ELSE Refuse(j)

ReadIhdr(j, b) ==
  CASE j.has_ihdr -> Accept(j)
    [] ~j.has_ihdr /\ b.n = 0 -> Refuse(j)
    [] OTHER -> Accept([j EXCEPT !.has_ihdr = TRUE, !.ncomps = b.n])

ReadBpcc(j, b) == IF b.n = j.ncomps THEN Accept(j) ELSE Refuse(j)

ReadColr(j, b) ==
  IF j.has_colr \/ b.meth > 2 THEN Accept(j)
  ELSE Accept([j EXCEPT !.has_colr = TRUE,
                        !.enumcs = IF b.meth = 1 THEN b.what ELSE @,
                        !.icc = IF b.meth = 2 THEN b.what ELSE @])

ReadPclr(j, b) ==
  IF j.pclr # None \/ b.n = 0 THEN Refuse(j) ELSE Accept([j EXCEPT !.pclr = b.n])

ReadCmap(j, b) ==
  IF j.pclr = None \/ j.cmap # None \/ Len(b.map) < j.pclr THEN Refuse(j)
  ELSE Accept([j EXCEPT !.cmap = SubSeq(b.map, 1, j.pclr)])

ReadCdef(j, b) ==
  IF j.cdef # None \/ b.defs = <<>> THEN Refuse(j) ELSE Accept([j EXCEPT !.cdef = b.defs])

ReadInHeader(j, b) ==
  CASE b.type = "ihdr" -> ReadIhdr(j, b)
    [] b.type = "bpcc" -> ReadBpcc(j, b)
    [] b.type = "colr" -> ReadColr(j, b)
    [] b.type = "pclr" -> ReadPclr(j, b)
    [] b.type = "cmap" -> ReadCmap(j, b)
    [] b.type = "cdef" -> ReadCdef(j, b)
    [] OTHER -> Accept(j)

(* A super box: its boxes in order, one of them the image header. *)
ReadJp2h(j, b) ==
  LET read == FoldLeft(LAMBDA r, sub : IF r.ok THEN ReadInHeader(r.jp2, sub) ELSE r,
                       Accept(j), b.boxes)
  IN IF "file_type" \notin j.state THEN Refuse(j)
     ELSE IF read.ok /\ \E i \in DOMAIN b.boxes : b.boxes[i].type = "ihdr"
     THEN Accept([read.jp2 EXCEPT !.state = @ \cup {"header"}])
     ELSE Refuse(read.jp2)

Handle(j, b) ==
  CASE b.type = "jp" -> ReadJp(j, b)
    [] b.type = "ftyp" -> ReadFtyp(j, b)
    [] b.type = "jp2h" -> ReadJp2h(j, b)
    [] OTHER -> ReadInHeader(j, b)

------------------------------------------------------------------------------
(* What is done to the channels of an image when a call has decoded it.    *)
CdefSane(n, defs) ==
  /\ \A i \in DOMAIN defs : defs[i].cn < n /\ (defs[i].asoc # Absent => defs[i].asoc <= n)
  /\ \A c \in 0..(n - 1) : \E i \in DOMAIN defs : defs[i].cn = c

CmapSane(n, cmap) ==
  \A i \in DOMAIN cmap : LET m == cmap[i] IN
    /\ m.cmp < n
    /\ m.pcol < Len(cmap)
    /\ \/ m.mtyp = 0 /\ m.pcol = 0
       \/ m.mtyp = 1 /\ m.pcol = i - 1

(* With one component, a column that no channel uses is taken for a mistake. *)
Corrected(n, cmap) ==
  IF n = 1 /\ \E p \in 0..(Len(cmap) - 1) : \A i \in DOMAIN cmap : cmap[i].pcol # p
  THEN [i \in DOMAIN cmap |-> [cmap[i] EXCEPT !.mtyp = 1, !.pcol = i - 1]]
  ELSE cmap

ColorSane(j, n) ==
  /\ j.cdef # None => CdefSane(IF j.cmap # None THEN j.pclr ELSE n, j.cdef)
  /\ j.cmap # None => CmapSane(n, j.cmap)

ApplyPclr(cmap, chans) ==
  [c \in 0..(Len(cmap) - 1) |->
    LET m == cmap[c + 1] IN
    [chans[m.cmp] EXCEPT !.column = IF m.mtyp = 0 THEN None ELSE m.pcol]]

Swapped(chans, a, b) == [chans EXCEPT ![a] = chans[b], ![b] = chans[a]]

(* A plausible bug: the definitions to come still name the old places. *)
ApplyDef_NotFollowed(r, i) ==
  LET d == r.defs[i] IN
  [r EXCEPT !.chans =
     IF d.asoc \in {0, Absent} \/ d.typ # 0 THEN [@ EXCEPT ![d.cn].alpha = d.typ]
     ELSE [Swapped(@, d.cn, d.asoc - 1) EXCEPT ![d.cn].alpha = d.typ]]

(* One definition after the other; a colour channel changes places with    *)
(* the one that is where it belongs, and the definitions to come follow.   *)
ApplyDef(r, i) ==
  LET d == r.defs[i]
      cn == d.cn
      acn == d.asoc - 1
      move == cn # acn /\ d.typ = 0
      Follow(c) == IF c = cn THEN acn ELSE IF c = acn THEN cn ELSE c
      chans == IF move THEN Swapped(r.chans, cn, acn) ELSE r.chans
  IN IF d.asoc \in {0, Absent} THEN [r EXCEPT !.chans[cn].alpha = d.typ]
     ELSE [chans |-> [chans EXCEPT ![cn].alpha = d.typ],
           defs |-> [k \in DOMAIN r.defs |->
                      IF move /\ k > i THEN [r.defs[k] EXCEPT !.cn = Follow(@)] ELSE r.defs[k]]]

ApplyCdef(defs, chans) ==
  FoldLeft(LAMBDA r, i : ApplyDef(r, i), [chans |-> chans, defs |-> defs],
           [i \in 1..Len(defs) |-> i]).chans

(* The palette is used again by the next call, the definitions are not. *)
AfterColor(j, n) ==
  [j EXCEPT !.pclr = IF j.cmap = None THEN None ELSE @,
            !.cmap = IF j.cmap = None THEN None ELSE Corrected(n, @),
            !.cdef = None]

Colored(j, n, chans) ==
  LET mapped == IF j.cmap = None THEN chans ELSE ApplyPclr(Corrected(n, j.cmap), chans)
  IN IF j.cdef = None THEN mapped ELSE ApplyCdef(j.cdef, mapped)

------------------------------------------------------------------------------
(* The encoder.  opj_jp2_setup_encoder decides what the boxes will say.    *)
ColorChannels(space) ==
  CASE space \in {"srgb", "sycc"} -> 3 [] space = "gray" -> 1 [] OTHER -> 0

Enumcs(g) == IF g.icc = None /\ g.space # "unspecified" THEN g.space ELSE None

Definition(g, c) ==
  CASE c < ColorChannels(Enumcs(g)) -> [cn |-> c, typ |-> 0, asoc |-> c + 1]
    [] c >= ColorChannels(Enumcs(g)) /\ g.alphas[c] # 0 -> [cn |-> c, typ |-> 1, asoc |-> 0]
    [] OTHER -> [cn |-> c, typ |-> Absent, asoc |-> Absent]

(* One alpha channel after the colour channels of a known space. *)
Definable(g) ==
  /\ Cardinality({c \in DOMAIN g.alphas : g.alphas[c] # 0}) = 1
  /\ ColorChannels(Enumcs(g)) # 0
  /\ \A c \in DOMAIN g.alphas : g.alphas[c] # 0 => c >= ColorChannels(Enumcs(g))

Definitions(g) ==
  IF Definable(g) THEN [i \in 1..Cardinality(DOMAIN g.alphas) |-> Definition(g, i - 1)]
  ELSE None

SetupEncoder(g) ==
  [NewDecoder(FALSE) EXCEPT !.ncomps = Cardinality(DOMAIN g.alphas), !.enumcs = Enumcs(g),
                            !.icc = g.icc, !.cdef = Definitions(g)]

Ihdr == [type |-> "ihdr", n |-> jp2.ncomps]
Bpcc == [type |-> "bpcc", n |-> jp2.ncomps]
Colr == IF jp2.icc # None THEN [type |-> "colr", meth |-> 2, what |-> jp2.icc]
        ELSE [type |-> "colr", meth |-> 1, what |-> jp2.enumcs]
Cdef == [type |-> "cdef", defs |-> jp2.cdef]
Whole(b) == b @@ [fault |-> None]
Headers ==
  (IF given.mixed THEN <<Ihdr, Bpcc>> ELSE <<Ihdr>>)
    \o (IF jp2.cdef = None THEN <<Colr>> ELSE <<Colr, Cdef>>)

(* The procedures of opj_jp2_start_compress, one after the other; the last *)
(* leaves room for the header of the codestream.                           *)
WriteProcedures ==
  << Whole([type |-> "jp"]), Whole([type |-> "ftyp"]),
     Whole([type |-> "jp2h", boxes |-> Headers]), Whole([type |-> "room"]) >>

StartCompress ==
  /\ pc = "setup"
  /\ file' = Append(file, WriteProcedures[Len(file) + 1])
  /\ pc' = IF Len(file) + 1 = Len(WriteProcedures) THEN "started" ELSE pc
  /\ UNCHANGED <<comps, given, jp2, at, image, subset, calls, colored>>

WriteFails ==
  /\ pc \in {"setup", "started"}
  /\ pc' = "unwritten"
  /\ UNCHANGED <<file, comps, given, jp2, at, image, subset, calls, colored>>

(* The codestream ends, and its length is filled in. *)
EndCompress ==
  /\ pc = "started"
  /\ file' = [file EXCEPT ![Len(file)] = Whole([type |-> "jp2c"])]
  /\ jp2' = NewDecoder(FALSE) /\ at' = 1 /\ pc' = "header"
  /\ UNCHANGED <<comps, given, image, subset, calls, colored>>

------------------------------------------------------------------------------
(* The decoder.  One box of opj_jp2_read_header_procedure, before the      *)
(* codestream ("header") and, in opj_end_decompress, after it ("tail").    *)
Broken == IF pc = "header" THEN "refused" ELSE "spoilt"
Going == pc \in {"header", "tail"} /\ at <= Len(file)

Known(b) == b.type \in TopLevel \/ (b.type \in InHeader /\ "header" \in jp2.state)

ReadBox ==
  /\ Going /\ file[at].type # "jp2c" /\ Known(file[at])
  /\ \E r \in {Handle(jp2, file[at])} :
       IF file[at].fault # None
       THEN UNCHANGED <<jp2, at>> /\ pc' = Broken
       ELSE /\ jp2' = r.jp2
            /\ IF r.ok THEN at' = at + 1 /\ UNCHANGED pc ELSE pc' = Broken /\ UNCHANGED at
  /\ UNCHANGED <<file, comps, given, image, subset, calls, colored>>

(* A box of no interest, or one of the header's before the header. *)
SkipBox ==
  /\ Going /\ file[at].type # "jp2c" /\ ~Known(file[at])
  /\ jp2' = [jp2 EXCEPT !.state = @ \cup {"unknown"}]
  /\ IF file[at].fault = "small"
        \/ (file[at].type \notin InHeader /\ ~({"signature", "file_type"} \subseteq jp2.state))
     THEN pc' = Broken /\ UNCHANGED at
     ELSE IF file[at].fault = "beyond"
     THEN /\ pc' = IF file[at].type \notin InHeader /\ "codestream" \in jp2.state
                   THEN "ended" ELSE Broken
          /\ UNCHANGED at
     ELSE at' = at + 1 /\ UNCHANGED pc
  /\ UNCHANGED <<file, comps, given, image, subset, calls, colored>>

Channels(n) == [c \in 0..(n - 1) |-> [comp |-> c, column |-> None, alpha |-> 0]]

(* The codestream: opj_j2k_read_header makes the image, which is given the *)
(* colour space and the ICC profile.                                       *)
ReachCodestream ==
  /\ Going /\ pc = "header" /\ file[at].type = "jp2c"
  /\ at' = at + 1
  /\ IF "header" \notin jp2.state
     THEN pc' = "refused" /\ UNCHANGED <<jp2, image>>
     ELSE /\ jp2' = [jp2 EXCEPT !.state = @ \cup {"codestream"}, !.icc = None]
          /\ image' = [chans |-> Channels(comps), space |-> jp2.enumcs, icc |-> jp2.icc]
          /\ pc' = "ready"
  /\ UNCHANGED <<file, comps, given, subset, calls, colored>>

(* No more boxes, or another codestream after the first. *)
EndOfBoxes ==
  /\ pc \in {"header", "tail"}
  /\ at <= Len(file) => pc = "tail" /\ file[at].type = "jp2c"
  /\ pc' = IF pc = "header" THEN "refused" ELSE "ended"
  /\ UNCHANGED <<file, comps, given, jp2, at, image, subset, calls, colored>>

(* A call has decoded its image; opj_jp2_apply_color_postprocessing.  The  *)
(* headers of the components of the caller's image stay as they were.      *)
Decoded == [c \in 0..(comps - 1) |->
             [comp |-> c, column |-> None, alpha |-> image.chans[c].alpha]]
Deliver(chans) == image' = [image EXCEPT !.chans = chans]

Finish ==
  \/ /\ subset
     /\ Deliver([c \in {0} |-> Decoded[0]]) /\ UNCHANGED <<jp2, pc, colored>>
  \/ /\ ~subset /\ jp2.ignore
     /\ Deliver(Decoded) /\ UNCHANGED <<jp2, pc, colored>>
  \/ /\ ~subset /\ ~jp2.ignore /\ ColorSane(jp2, comps)
     /\ Deliver(Colored(jp2, comps, Decoded))
     /\ jp2' = AfterColor(jp2, comps) /\ colored' = colored + 1 /\ UNCHANGED pc
  \/ /\ ~subset /\ ~jp2.ignore /\ ~ColorSane(jp2, comps)
     /\ Deliver(Decoded) /\ pc' = "failed" /\ UNCHANGED <<jp2, colored>>

Call(fits) ==
  /\ calls < MaxCalls
  /\ calls' = calls + 1
  /\ IF fits THEN Finish ELSE pc' = "failed" /\ UNCHANGED <<jp2, image, colored>>
  /\ UNCHANGED <<file, comps, given, at, subset>>

Shown == Cardinality(DOMAIN image.chans)

(* opj_set_decode_area and opj_decode are for an image with the components *)
(* of the codestream; opj_get_decoded_tile wants no fewer, and lets go of  *)
(* those that a palette has added.                                         *)
Decode == pc = "ready" /\ Shown = comps /\ Call(TRUE)
GetTile == pc = "ready" /\ Call(Shown >= comps)

(* The codestream cannot be decoded, or there is no memory. *)
DecodeFails ==
  /\ pc = "ready" /\ calls < MaxCalls
  /\ calls' = calls + 1 /\ pc' = "failed"
  /\ UNCHANGED <<file, comps, given, jp2, at, image, subset, colored>>

(* opj_set_decoded_components: the first component only, or all again. *)
SetDecodedComponents ==
  /\ pc = "ready" /\ calls < MaxCalls /\ subset' = ~subset
  /\ UNCHANGED <<file, comps, given, jp2, at, image, calls, colored, pc>>

(* opj_end_decompress reads the boxes after the codestream. *)
EndDecompress ==
  /\ pc = "ready" /\ calls > 0 /\ pc' = "tail"
  /\ UNCHANGED <<file, comps, given, jp2, at, image, subset, calls, colored>>

------------------------------------------------------------------------------
Init ==
  /\ \/ \E f \in Files, ignore \in BOOLEAN :
          /\ file = f.boxes /\ comps = f.comps /\ given = None
          /\ jp2 = NewDecoder(ignore) /\ at = 1 /\ pc = "header"
     \/ \E g \in Given :
          /\ file = <<>> /\ comps = Cardinality(DOMAIN g.alphas) /\ given = g
          /\ jp2 = SetupEncoder(g) /\ at = 0 /\ pc = "setup"
  /\ image = None /\ subset = FALSE /\ calls = 0 /\ colored = 0

Next ==
  \/ StartCompress \/ WriteFails \/ EndCompress
  \/ ReadBox \/ SkipBox \/ ReachCodestream \/ EndOfBoxes
  \/ Decode \/ GetTile \/ DecodeFails \/ SetDecodedComponents \/ EndDecompress

Spec == Init /\ [][Next]_vars

------------------------------------------------------------------------------
(* What a file says, read as a whole.  The boxes of the headers, and those *)
(* that come after a header where they do not belong, up to the codestream. *)
First(p(_)) ==
  LET found == {i \in DOMAIN file : p(file[i])}
  IN IF found = {} THEN 0 ELSE Min(found)
Codestream == First(LAMBDA b : b.type = "jp2c")
HeaderBox == First(LAMBDA b : b.type = "jp2h")
Before == SubSeq(file, 1, Codestream - 1)
Inside ==
  FlattenSeq([i \in DOMAIN Before |->
    IF Before[i].type = "jp2h" THEN Before[i].boxes
    ELSE IF i > HeaderBox /\ Before[i].type \in InHeader THEN <<Before[i]>>
    ELSE <<>>])
OfType(t) == SelectSeq(Inside, LAMBDA b : b.type = t)
Usable == SelectSeq(Inside, LAMBDA b : b.type = "colr" /\ b.meth <= 2)
Place(t) == {i \in DOMAIN Inside : Inside[i].type = t}

Acceptable ==
  /\ HeaderBox \in 3..(Codestream - 1)
  /\ \A i \in DOMAIN Before :
       /\ Before[i].fault = None
       /\ Before[i].type = "jp" <=> i = 1
       /\ Before[i].type = "ftyp" <=> i = 2
       /\ Before[i].type = "jp2h" =>
            \E k \in DOMAIN Before[i].boxes : Before[i].boxes[k].type = "ihdr"
  /\ OfType("ihdr")[1].n > 0
  /\ \A i \in Place("bpcc") :
       Inside[i].n = IF \E k \in Place("ihdr") : k < i THEN OfType("ihdr")[1].n ELSE 0
  /\ \A t \in {"pclr", "cmap", "cdef"} : Len(OfType(t)) <= 1
  /\ \A i \in Place("pclr") : Inside[i].n > 0
  /\ \A i \in Place("cdef") : Inside[i].defs # <<>>
  /\ \A i \in Place("cmap") :
       \E k \in Place("pclr") : k < i /\ Len(Inside[i].map) >= Inside[k].n

(* The header is accepted exactly if the boxes are in order, and gives the *)
(* image the colour space or profile of the first usable colour box.       *)
HeaderExact ==
  /\ pc = "refused" => ~Acceptable
  /\ pc = "ready" /\ calls = 0 =>
       /\ Acceptable
       /\ <<image.space, image.icc>> =
            IF Usable = <<>> THEN <<None, None>>
            ELSE IF Usable[1].meth = 1 THEN <<Usable[1].what, None>>
            ELSE <<None, Usable[1].what>>

Mapped == OfType("pclr") # <<>> /\ OfType("cmap") # <<>>
Map(c) == OfType("cmap")[1].map[c + 1]
Columns == 0..(OfType("pclr")[1].n - 1)
(* With one component, direct use of it beside a column is taken for a mistake. *)
Direct(c) == Map(c).mtyp = 0 /\ ~(comps = 1 /\ \E d \in Columns \ {0} : Map(d).mtyp = 0)
Base(c) == IF ~Mapped THEN <<c, None>>
           ELSE <<Map(c).cmp, IF Direct(c) THEN None ELSE c>>
Defs == IF OfType("cdef") = <<>> THEN <<>> ELSE OfType("cdef")[1].defs

(* Left out (see README): definitions are used up by the first image that  *)
(* they are applied to, and the type of a channel that is listed before a  *)
(* colour takes its place is lost.                                         *)
TypesKept == \A i, k \in DOMAIN Defs :
  Defs[i].typ # 0 /\ Defs[k].typ = 0 /\ i < k => Defs[k].cn = Defs[k].asoc - 1

(* Every image delivered shows each channel of the file once, mapped as    *)
(* the palette says; the colours are in their order, and the others have   *)
(* their type.                                                             *)
ColorsExact ==
  pc = "ready" /\ colored > 0 /\ ~subset /\ calls = colored /\ ~jp2.ignore
               /\ (Defs # <<>> => colored = 1 /\ TypesKept) =>
    LET chans == image.chans
        n == IF Mapped THEN OfType("pclr")[1].n ELSE comps
        Shows(c) == <<chans[c].comp, chans[c].column>>
    IN /\ DOMAIN chans = 0..(n - 1)
       /\ \A c \in 0..(n - 1) :
            Cardinality({d \in 0..(n - 1) : Shows(d) = Base(c)})
              = Cardinality({d \in 0..(n - 1) : Base(d) = Base(c)})
       /\ \A i \in DOMAIN Defs : LET d == Defs[i] IN
            IF d.typ = 0 /\ d.asoc \notin {0, Absent}
            THEN Shows(d.asoc - 1) = Base(d.cn) /\ chans[d.asoc - 1].alpha = 0
            ELSE \E c \in 0..(n - 1) : Shows(c) = Base(d.cn) /\ chans[c].alpha = d.typ

(* A file written from an image is accepted, and gives the image back: its *)
(* profile, its colour space, its alpha channel if it is the only one and  *)
(* all other channels are colours.                                         *)
FileReadBack ==
  given # None =>
    /\ pc # "refused"
    /\ pc = "ready" =>
         <<image.space, image.icc>> = <<Enumcs(given), given.icc>>
    /\ pc = "ready" /\ calls = 1 /\ colored = 1 /\ Definable(given)
         /\ comps = ColorChannels(given.space) + 1 =>
           \A c \in DOMAIN given.alphas :
             /\ image.chans[c].comp = c
             /\ image.chans[c].alpha = IF given.alphas[c] = 0 THEN 0 ELSE 1

Jp2Sound == HeaderExact /\ ColorsExact /\ FileReadBack
==============================================================================

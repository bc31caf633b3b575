------------------------------ MODULE TileParts ------------------------------
(***************************************************************************)
(* How the encoder cuts the packets of a tile into tile-parts (j2k.c,      *)
(* pi.c, t2.c): opj_j2k_write_first_tile_part, then                        *)
(* opj_j2k_write_all_tile_parts over the progression changes (POC) and the *)
(* parts of each.  Every part has an iterator of its own, whose ranges are *)
(* those of the part before moved on by opj_pi_create_encode, as an        *)
(* odometer: the loops above the flag of -TP count, those below run in     *)
(* full.                                                                   *)
(*                                                                         *)
(* Beside it runs the iterator of a decoder that reads what is written,    *)
(* with one `include` for the whole tile.  Each packet written is compared *)
(* with the one the decoder takes it for.                                  *)
(***************************************************************************)
EXTENDS Progression, Sequences

CONSTANTS
  Jobs,        \* what to encode: a set of records [tile, prg, flag, pocs]
  None         \* no flag, no packet

VARIABLES
  job,         \* the parameters
  pocs,        \* the progression changes; <<>> when there are none
  total,       \* m_nb_tile_parts, for TNsot and for the room in the TLM marker
  pc,          \* where the encoder is
  cur_pino,    \* the progression it is at
  tp_num,      \* the part of that progression (m_current_poc_tile_part_number)
  parts,       \* how many parts were begun
  counter,     \* comp_t, res_t, lay_t, prc_t, tx0_t, ty0_t of the progression
  range,       \* the ranges of the iterator
  include,     \* the packets of this part
  reader,      \* the decoder's iterator
  last         \* the last packet written, and the one it is read as

params == <<job, total>>
place == <<cur_pino, tp_num, parts>>
iterator == <<counter, range>>
vars == <<job, pocs, total, pc, cur_pino, tp_num, parts, counter, range, include, reader, last>>

tile == job.tile
Axes == {"x", "y"}
Ranges == {"L", "R", "C", "P"} \cup Axes

------------------------------------------------------------------------------
(* The progressions.                                                       *)

NumPocs(ps) == IF ps = <<>> THEN 1 ELSE Len(ps)
OrderOf(ps, q) == IF ps = <<>> THEN job.prg ELSE ps[q].prg

(* opj_pi_update_encode_not_poc, opj_pi_update_encode_poc_and_final: the   *)
(* start and the end of each loop of progression q.                        *)
Limits(ps, q) ==
  LET all == [L |-> <<0, tile.layers>>, R |-> <<0, tile.nres>>, C |-> <<0, NumComps(tile)>>,
              P |-> <<0, MaxPrecincts(tile)>>,
              x |-> <<tile.x.lo, tile.x.hi>>, y |-> <<tile.y.lo, tile.y.hi>>]
      layS == IF q > 1 /\ ps[q].l1 > ps[q - 1].l1 THEN ps[q].l1 ELSE 0
  IN IF ps = <<>> THEN all
     ELSE [all EXCEPT !.L = <<layS, ps[q].l1>>, !.R = <<ps[q].r0, ps[q].r1>>,
                      !.C = <<ps[q].c0, ps[q].c1>>]

(* opj_j2k_get_num_tp: the product of the ends of the loops down to the    *)
(* flag, in the order of the tile (m_tp_pos is the flag's place in it).    *)
TpPos == CHOOSE i \in 1..4 : Loops(job.prg)[i] = job.flag
NumTp_AboveFlag(ps, q) ==
  LET ends[i \in 0..4] ==
        IF i = 0 THEN 1 ELSE ends[i - 1] * Limits(ps, q)[Loops(job.prg)[i]][2]
  IN IF job.flag = None THEN 1 ELSE ends[TpPos - 1]

NumTp(ps, q) ==
  LET ends[i \in 0..4] ==
        IF i = 0 THEN 1 ELSE ends[i - 1] * Limits(ps, q)[Loops(job.prg)[i]][2]
  IN IF job.flag = None THEN 1 ELSE ends[TpPos]

(* opj_j2k_calculate_tp.                                                   *)
TotalTp(ps) ==
  LET sum[q \in 0..NumPocs(ps)] == IF q = 0 THEN 0 ELSE sum[q - 1] + NumTp(ps, q)
  IN sum[NumPocs(ps)]

(* opj_j2k_write_poc_in_memory cuts the ends down after it has written     *)
(* them.                                                                   *)
AtMost(m, n) == IF m < n THEN m ELSE n
WritePoc(ps) ==
  [q \in DOMAIN ps |->
     [ps[q] EXCEPT !.l1 = AtMost(@, tile.layers), !.r1 = AtMost(@, tile.nres),
                   !.c1 = AtMost(@, NumComps(tile))]]

------------------------------------------------------------------------------
(* opj_pi_create_encode: the odometer.                                     *)

StepOf(a) == IF a \in Axes THEN Stride(tile, a, Comps(tile)) ELSE 1
After(a, v) == v + StepOf(a) - (v % StepOf(a))

(* The ranges that a loop of the order moves.                              *)
Moved(prg, loop) == IF loop = "P" /\ prg \in ByPosition THEN Axes ELSE {loop}

(* What becomes of range a at part n: it begins again, goes on by a step,  *)
(* or stays at the step it was.                                            *)
Course(ps, q, n, a) ==
  LET lim == Limits(ps, q)
      loop(i) == Moved(OrderOf(ps, q), Loops(OrderOf(ps, q))[i])
      over(b) == IF b \in Axes THEN counter[b] >= lim[b][2] ELSE counter[b] = lim[b][2]
      full(i) == \A b \in loop(i) : over(b)
      (* opj_pi_check_next_level *)
      more(i) == \E j \in 1..i : \E b \in loop(j) : counter[b] # lim[b][2]
      i == CHOOSE j \in 1..TpPos : a \in loop(j)
      reached == \A j \in (i + 1)..TpPos : full(j) /\ more(j - 1)
  IN CASE n = 0 \/ (reached /\ full(i) /\ more(i - 1)) -> "again"
       [] n > 0 /\ reached /\ ~full(i) ->
            CASE a = "x" /\ over("x") -> "again"
              [] a = "y" /\ ~over("x") -> "stay"
              [] OTHER -> "on"
       [] OTHER -> "stay"

Counting(ps, q) ==
  IF job.flag = None THEN {}
  ELSE UNION {Moved(OrderOf(ps, q), Loops(OrderOf(ps, q))[i]) : i \in 1..TpPos}

CreateEncode(ps, q, n) ==
  [a \in Ranges |->
     LET lim == Limits(ps, q)[a]
     IN IF a \notin Counting(ps, q) THEN [counter |-> counter[a], range |-> lim]
        ELSE CASE Course(ps, q, n, a) = "again" ->
                    [counter |-> After(a, lim[1]), range |-> <<lim[1], After(a, lim[1])>>]
               [] Course(ps, q, n, a) = "on" ->
                    [counter |-> After(a, counter[a]), range |-> <<counter[a], After(a, counter[a])>>]
               [] Course(ps, q, n, a) = "stay" ->
                    [counter |-> counter[a],
                     range |-> <<counter[a] - StepOf(a) - (counter[a] % StepOf(a)), counter[a]>>]]

------------------------------------------------------------------------------
(* The decoder (opj_pi_create_decode, the loop of opj_t2_decode_packets).  *)

ReadRange(q) ==
  IF pocs = <<>> THEN Limits(pocs, q)
  ELSE [Limits(pocs, q) EXCEPT !.L = <<0, AtMost(pocs[q].l1, tile.layers)>>]
ReadNext(q) ==
  NextVisit(tile, OrderOf(pocs, q), ReadRange(q), TRUE, reader.include, tile.layers + 1)
StillToRead == {q \in reader.pino..NumPocs(pocs) : ReadNext(q) # {}}

Packet(v) == <<v.l, v.r, v.c, v.p>>

(* The decoder takes what is written for its own next packet.              *)
Read(v) ==
  \E todo \in {StillToRead} :
    IF todo = {} THEN reader' = reader /\ last' = <<Packet(v), None>>
    ELSE \E w \in ReadNext(Min(todo)) :
           /\ reader' = [pino |-> Min(todo), include |-> reader.include \cup {Slot(tile, w)}]
           /\ last' = <<Packet(v), Packet(w)>>

------------------------------------------------------------------------------
(* The encoder.                                                            *)

Init ==
  /\ job \in Jobs
  /\ pocs = job.pocs
  /\ total = TotalTp(job.pocs)
  /\ pc = "sot"
  /\ cur_pino = 1 /\ tp_num = 0 /\ parts = 0
  /\ counter = [a \in Ranges |-> 0]
  /\ range = [a \in Ranges |-> <<0, 0>>]
  /\ include = {}
  /\ reader = [pino |-> 1, include |-> {}]
  /\ last = <<None, None>>

(* The headers of a part, and its iterator.                                *)
OpenPart ==
  /\ pc = "sot"
  /\ pc' = "sod"
  /\ parts' = parts + 1
  /\ pocs' = IF parts = 0 THEN WritePoc(pocs) ELSE pocs
  /\ \E pi \in {CreateEncode(pocs', cur_pino, tp_num)} :
        /\ counter' = [a \in Ranges |-> pi[a].counter]
        /\ range' = [a \in Ranges |-> pi[a].range]
  /\ include' = {}
  /\ UNCHANGED <<params, cur_pino, tp_num, reader, last>>

(* tp_on is set in the first iterator only.                                *)
Whole == job.flag = None \/ cur_pino > 1
WriteNext == NextVisit(tile, OrderOf(pocs, cur_pino), range, Whole, include, tile.layers)

(* opj_t2_encode_packet looks at the number of the precinct in the first   *)
(* layer of a resolution that has a band with samples.                     *)
NoSamples(c, r) ==
  LET span(a) == Lo(tile, a, c, r)..(Hi(tile, a, c, r) - 1)
  IN \/ \E a \in Axes : span(a) = {}
     \/ r > 0 /\ \A a \in Axes : \A s \in span(a) : s % 2 = 0
Accepted(v) == v.l > 0 \/ NoSamples(v.c, v.r) \/ v.p \in 0..(Precincts(tile, v.c, v.r) - 1)

WritePacket ==
  /\ pc = "sod"
  /\ \E v \in WriteNext :
       /\ Accepted(v)
       /\ include' = include \cup {Slot(tile, v)}
       /\ Read(v)
  /\ UNCHANGED <<params, pocs, pc, place, iterator>>

WriteFails ==
  /\ pc = "sod"
  /\ \E v \in WriteNext : ~Accepted(v)
  /\ pc' = "failed"
  /\ UNCHANGED <<params, pocs, place, iterator, include, reader, last>>

(* The next part of the progression, or the first of a later one.          *)
LaterPocs == {q \in (cur_pino + 1)..NumPocs(pocs) : NumTp(pocs, q) > 0}

ClosePart ==
  /\ pc = "sod"
  /\ WriteNext = {}
  /\ \/ /\ tp_num + 1 < NumTp(pocs, cur_pino)
        /\ tp_num' = tp_num + 1
        /\ pc' = "sot"
        /\ UNCHANGED cur_pino
     \/ /\ tp_num + 1 >= NumTp(pocs, cur_pino)
        /\ LaterPocs # {}
        /\ cur_pino' = Min(LaterPocs)
        /\ tp_num' = 0
        /\ pc' = "sot"
     \/ /\ tp_num + 1 >= NumTp(pocs, cur_pino)
        /\ LaterPocs = {}
        /\ pc' = "done"
        /\ UNCHANGED <<cur_pino, tp_num>>
  /\ UNCHANGED <<params, pocs, parts, iterator, include, reader, last>>

Next == OpenPart \/ WritePacket \/ WriteFails \/ ClosePart

Spec == Init /\ [][Next]_vars

------------------------------------------------------------------------------
(* The jobs for which the parts are sound.  Without -TP the ranges of the  *)
(* progressions must share out the packets, all layers at once; with it    *)
(* there must be one progression, and the units in which the parts count   *)
(* must be the precincts: every resolution has as many (the orders by      *)
(* layer or resolution), or, when the parts count positions, the tile      *)
(* begins on the grid of the smallest precincts and has as many positions  *)
(* as precincts.                                                           *)
Shared ==
  \A r \in Resolutions(tile), c \in Comps(tile) :
    \E q \in DOMAIN job.pocs :
      /\ job.pocs[q].l1 >= tile.layers
      /\ \A p \in DOMAIN job.pocs :
           p = q <=> r \in job.pocs[p].r0..(job.pocs[p].r1 - 1)
                     /\ c \in job.pocs[p].c0..(job.pocs[p].c1 - 1)
EvenPrecincts ==
  \A r \in Resolutions(tile), c \in Comps(tile) : Precincts(tile, c, r) = MaxPrecincts(tile)
OnTheGrid ==
  LET at(a) == Places(<<tile[a].lo, tile[a].hi>>, StepOf(a))
  IN /\ \A a \in Axes : tile[a].lo % StepOf(a) = 0
     /\ Cardinality(at("x")) * Cardinality(at("y")) = MaxPrecincts(tile)
CountsPositions == \E i \in 1..TpPos : Loops(job.prg)[i] = "P"
Sound ==
  CASE job.flag = None -> job.pocs = <<>> \/ Shared
    [] job.flag # None /\ job.pocs # <<>> -> FALSE
    [] OTHER -> IF job.prg \in ByPosition THEN CountsPositions => OnTheGrid ELSE EvenPrecincts

------------------------------------------------------------------------------
PcStates == {"sot", "sod", "done", "failed"}

(* The variables have values of their types, and a part is of a            *)
(* progression that there is.                                              *)
TypeOK ==
  /\ job \in Jobs
  /\ pc \in PcStates
  /\ cur_pino \in 1..NumPocs(pocs)
  /\ total \in Nat /\ parts \in Nat /\ tp_num \in Nat
  /\ \A a \in Ranges : counter[a] \in Int /\ range[a] \in Int \X Int
  /\ include \subseteq Slots(tile, tile.layers)
  /\ reader.include \subseteq Slots(tile, tile.layers + 1)

(* A sound job is written to its end, every packet is the one that the     *)
(* decoder takes it for, and at the end the decoder wants no more.         *)
ReadAsWritten ==
  Sound => /\ pc # "failed"
           /\ last[1] = last[2]
           /\ pc = "done" => StillToRead = {}

(* No part is written that is not announced (TNsot, and the room of the    *)
(* TLM marker), and a sound job writes all that are.                       *)
PartsAnnounced ==
  /\ parts <= total
  /\ Sound /\ pc = "done" => parts = total

PartsReadBack == ReadAsWritten /\ PartsAnnounced

(* Whatever -TP asks for, all the packets of the tile are written.         *)
AllWritten == pc = "done" => StillToRead = {}
==============================================================================

------------------------------- MODULE MCOwners -------------------------------
(***************************************************************************)
(* TileBuffers, JpipServer and WinCond for TLC: who owns the sample        *)
(* buffers of a codec, the targets, sessions, channels and cache models of *)
(* the JPIP server, and the mutexes and events of the Windows build.  The  *)
(* three have nothing in common.  A behaviour is one of one of them,       *)
(* `kind`, and nothing of the others moves in it; "channels" is the server *)
(* with a channel more and fewer files.                                    *)
(***************************************************************************)
EXTENDS TileBuffers, JpipServer, WinCond

CONSTANT Kinds

VARIABLE kind

------------------------------------------------------------------------------
(* Images of two components, in one tile or two, the second smaller or     *)
(* larger than the first.                                                  *)
Both(a, b) == [c \in Comps |-> IF c = 0 THEN a ELSE b]
Area(tiles, n, k) == [tiles |-> tiles, kind |-> [t \in 1..n |-> k]]
OneTile == {Area({1}, 1, Both(a, b)) : a \in {"exact", "near", "part"},
                                       b \in {"exact", "near", "part", "empty"}}
TwoTiles ==
  {Area({1}, 2, Both("exact", "exact")), Area({1, 2}, 2, Both("exact", "exact")),
   [tiles |-> {1, 2}, kind |-> <<Both("exact", "exact"), Both("part", "exact")>>],
   [tiles |-> {1, 2}, kind |-> <<Both("part", "part"), Both("exact", "near")>>],
   [tiles |-> {1, 2}, kind |-> <<Both("exact", "empty"), Both("exact", "part")>>],
   [tiles |-> {1, 2}, kind |-> <<Both("part", "empty"), Both("near", "empty")>>]}
Image(encode, sizes, plain, areas) ==
  [encode |-> encode, sizes |-> sizes, plain |-> plain, areas |-> areas]
MCImages ==
  {Image(FALSE, <<1>>, p, OneTile) : p \in BOOLEAN}
    \cup {Image(FALSE, z, FALSE, TwoTiles) : z \in {<<1, 2>>, <<2, 1>>}}
    \cup {Image(TRUE, z, p, {}) : z \in {<<1>>, <<1, 2>>, <<2, 1>>}, p \in BOOLEAN}

------------------------------------------------------------------------------
(* Two files, one whose index asks for tiles unless the client does not,   *)
(* and the name of one that is not there.                                  *)
MCFiles ==
  "a" :> [jpt |-> FALSE, tiles |-> {1}, res |-> 2, layers |-> 2]
    @@ "b" :> [jpt |-> TRUE, tiles |-> {1}, res |-> 2, layers |-> 1]
View(level, layers) == [tiles |-> {1}, level |-> level, layers |-> layers]
MCViews == {View(1, -1), View(0, 1)}

(* Two channels on the two files, one with precincts and one with tiles; or*)
(* three on the second, asked for in any way.                              *)
TwoChannels ==
  /\ part = "idle" /\ query'.cnew => Cardinality(Cids) < 2
  /\ query'.target # "gone" /\ query'.box /\ (query'.jpp <=> query'.target # "b")
OneFile ==
  query'.target \in {"b", "gone", Nil} /\ query'.view \in {View(0, 1), Nil}

------------------------------------------------------------------------------
(* Two conditions, as a pool has one for main and one for each worker, so  *)
(* that the one event of a thread serves both.                             *)
MCMutexOf == "c1" :> "m1" @@ "c2" :> "m2"

------------------------------------------------------------------------------
MCInit ==
  /\ kind \in Kinds
  /\ BuffersInit /\ (kind # "buffers" => image = Image(FALSE, <<1>>, TRUE, OneTile))
  /\ ServerInit /\ Init

NextBuffers == kind = "buffers" /\ BuffersNext /\ UNCHANGED <<kind, serverVars, vars>>
NextServer ==
  kind = "server" /\ ServerNext /\ TwoChannels /\ UNCHANGED <<kind, bufferVars, vars>>
NextWide ==
  kind = "channels" /\ ServerNext /\ OneFile /\ UNCHANGED <<kind, bufferVars, vars>>
NextWindows == kind = "conditions" /\ Next /\ UNCHANGED <<kind, bufferVars, serverVars>>

MCNext == NextBuffers \/ NextServer \/ NextWide \/ NextWindows

MCSpec == MCInit /\ [][MCNext]_<<kind, bufferVars, serverVars, vars>>
==============================================================================

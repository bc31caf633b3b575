# TLA+ models of openjp2k

openjp2k is a fork of OpenJPEG: a C library that encodes and decodes JPEG 2000
codestreams (`src/lib/openjp2`), a JPIP server and client library
(`src/lib/openjpip`), and command-line programs on top of both. This directory
holds TLA+ modules translated from that code, the TLC configurations that check
them on small instances, and theorems that TLAPS proves for every value of
their constants.

Paths below are relative to the repository; `j2k.c` alone means
`src/lib/openjp2/j2k.c`. `PROJECT.json` lists, for every definition, the lines
of the source it stands for; for every property, the hazard it guards against
and a mutant of the code it catches.

## 1. Inventory

### Core library (`src/lib/openjp2`)

| part | state | operations | what is hard, and what makes it correct |
|---|---|---|---|
| thread pool (`thread.c`) | job queue, worker state, waiting-worker list, pending counter, one mutex and two kinds of condition variable | create, submit_job, wait_completion, destroy; worker loop | lost wakeups, a worker both waiting and running, jobs dropped at shutdown. Every job runs once, a wait returns only when few enough jobs remain, destroy joins every worker. |
| tile decoder (`tcd.c`, `t1.c`, `dwt.c`) | code-blocks and their decoded data, tile samples, the flag `ret` all jobs share | opj_tcd_decode_tile: tier 2, tier 1 jobs, wavelet jobs per level and direction, or the sequential synthesis of a window | jobs clear `ret` with no lock while main submits; failures in the middle of a pass; code-blocks kept for the next area. |
| tile buffers (`tcd.c`, `j2k.c`, `image.c`) | per component: a tile buffer, a one-slot pool (D6.1), the codec's image, the caller's image | allocate, transfer, recycle, copy header, free | who owns a buffer as it changes hands; never freed twice, never leaked, never reused while the caller has it. |
| byte stream (`cio.c`) | buffer, its fill, byte offset, status bits | read, write, skip, seek, flush through user callbacks | short reads, end of file in the middle of a request, skip versus buffer, errors half-way. The offset is the position of the data. |
| codestream decoder (`j2k.c`) | state machine of markers, tile coding parameters and tile data, current tile, private image | read_header, set_decode_area, decode, get_tile, read_tile_header, end_decompress | the legal sequences of calls, tiles whose parts are interleaved, truncated files, a failure between two tiles, what is kept between areas. |
| codestream encoder (`j2k.c`, `tcd.c`) | current tile and tile-part, TLM entries, layer rates | start_compress, write_tile, encode, end_compress | lengths written after the fact (Psot, TLM), the rate allocation loop. |
| JP2 container (`jp2.c`) | box state bits, colour, palette, channel definitions | read_header, decode, encode | order of boxes, lengths 0 and 1, palettes applied once. |
| codec interface (`openjpeg.c`) | a table of functions, `is_decompressor` | create, setup, decode, destroy | calls in an order the back end does not expect. |
| packet iterator (`pi.c`) | position in the progression, the `include` bitmap | create, next, POC | every packet once, also with several progressions. |
| tier 2 (`t2.c`), tag trees and bit I/O (`tgt.c`, `bio.c`) | inclusion and zero-bitplane trees, segments, Lblock | encode and decode packet headers | encoder and decoder must agree bit by bit; lengths that lie. |
| MQ coder and tier 1 (`mqc.c`, `t1*.c`, `ht_dec.c`) | interval registers A and C, contexts | encode, decode, flush, bypass | carries and stuffing after 0xff, termination. |
| transforms (`dwt.c`, `mct.c`, `invert.c`) | none | 5-3 and 9-7 lifting, RCT, ICT | reversibility at the borders of odd intervals. |
| sparse array (`sparse_array.c`) | a grid of blocks, allocated when written | create, read, write | regions that begin and end inside blocks, blocks never written. |
| images (`image.c`, and `j2k.c` for their sizes) | area, factor, and origin and size of each component | read_header, set_decode_area, set_decoded_resolution_factor, copy of each tile | origins, subsampling and reduction rounded in different places; every sample at its coordinates. |
| events, memory, clock, procedure lists | small | | little of their own. |
| index boxes (`cidx_manager.c`, ...) | none | write | lengths known only after the content. |
| task graph (`task_graph.cpp`) | a Taskflow graph | | nothing calls it yet. |

Interactions: an application gives the codec interface a stream and an image;
the codec interface calls the JP2 container or the codestream codec; the
decoder reads tile-parts from the stream, hands a complete tile to the tile
decoder, which runs tier 2 by itself and tier 1 and the wavelets on the thread
pool, and moves the samples through the tile buffers to the caller's image.

### JPIP (`src/lib/openjpip`)

The server keeps sessions, their channels, and targets (files) that sessions
share; per channel a cache model of what the client already has; per request a
message queue of what to send. The decoding server keeps the client's cache and
answers viewers over sockets. Hard: references to targets as sessions come and
go, a cache model that must agree with what was really sent, an answer made when the
request has closed its channel.

### Applications, bindings, third-party code

`src/bin`, `wrapping/java`, `thirdparty` and `third_party` are front ends or
foreign code and are not modelled.

## 2. Plan

The thread pool comes first because everything that is concurrent in the library
rests on it; then the tile decoder, which is its only heavy user on the decoding
side; then the stream and the codestream decoder, which carry the state that
lives from one call of the application to the next.

| | modules | abstract specification | state |
|---|---|---|---|
| A | `ThreadPool`, `ThreadPoolProofs` | `JobPool` | done |
| B | `TileDecode` (instantiates `JobPool`), `TileDecodeProofs` | | done |
| C | `StreamSizes`, `InStream`, `InStreamProofs`, `OutStream`, `OutStreamProofs` | `ByteSource`, `ByteSink` | done |
| D | `Decoder`, `DecoderProofs` | | done for seekable streams |
| E | `TileBuffers`, `TileBuffersProofs`: who owns a sample buffer, from the tile through the one-slot pool to the caller's image | an owner per buffer | done |
| F | `WinCond`, `WinCondProofs`: the hand-written condition variables of the Windows build | `CondVar` | done; the `opj_tls_*` table is left |
| G | `Jp2`, `Jp2Files`: the boxes, colours, palette and channels of a JP2 file | the image the boxes describe | done; the codec handle and the procedure lists are left |
| H | `Progression`, `TileParts`: the packet iterator, and how the encoder cuts a tile into tile-parts | the decoder's iterator | done; Psot and TLM written after the fact, the encoder's jobs and the rate loop are left |
| I | `Packets`, `BlockCoder`: packet headers with tag trees and stuffed bits, the MQ and raw coders | the decoder reads what was written | done; SOP, EPH, PPM and PPT and the context modelling are left |
| J | `Wavelet` (proofs in `TileDecodeProofs`), `WindowDecode`: 5-3 lifting, colour transform, areas and the sparse array | the samples the encoder transformed | done; 9-7 is left |
| K | `JpipServer`, `JpipServerProofs`: sessions, channels, shared targets, cache model | what the client has | done; the client's cache is left |
| L | `TileGrid` (proofs in `TileDecodeProofs`), `ImageArea`: sizes of images and the place of each tile's samples in them | the sample of each coordinate | done; subsets of components are left |

Theorems worth proving, in this order: the invariants of the pool, and that it
implements `JobPool` (done); that the streams implement their abstract
specifications (done); that the transforms are reversible and how far the synthesis
of a sample reaches (done); that what is copied of a tile is what it shares with the
area (done); that no job outlives its step in `TileDecode`, for any number of blocks
and threads, and that the slices of a pass partition its lines (done); that a tile
is never put together in a wrong order in `Decoder`, and that a tile asked for comes
whole (done); that `WinCond` implements `CondVar` (done); that areas are exact and
that no call is spoilt by an earlier one in `Decoder` (done); that a tile buffer has
one owner, and that the JPIP server counts its references, puts everything into its
answers once, and says when they have held all (done).

Modules that have nothing to do with each other share a run where their questions
are alike: `coding` asks of six modules whether what is written is read back,
`owners` asks of three who owns what, and `streams` asks of two where a stream is.

## 3. The modules

### JobPool and ThreadPool (`thread.c`)

`JobPool` says what the codec relies on: a job that is accepted runs once, a wait
returns only when at most `limit` jobs are not done, and a pool is closed only when
all are. `ThreadPool` is the pthread build. An action is a critical section, under
`tp->mutex` or under a worker's own mutex; where the code still holds one while it
takes the other, there is an action per lock (`park` and `parked` for a worker that
goes idle, `handoff` and `signal` for main), because that order is what keeps
wake-ups from being lost.

| variables | in the code |
|---|---|
| `state`, `job_queue`, `pending_jobs_count`, `worker_threads_count`, `waiting_list`, `waiting_count`, `signaling_threshold` | the fields of `opj_thread_pool_t` |
| `pooled` | `tp->mutex` is not NULL |
| `tp_mutex`, `w_mutex` | who holds the mutexes |
| `sleepers` | who is blocked in `opj_cond_wait` |
| `wpc`, `marked_as_waiting`, `job_finished`, `cur_job` | a worker's place, its flag, `signal_job_finished`, its job |
| `mpc`, `m_job`, `m_max`, `m_idx`, `destroying`, `bRet` | the caller's place and the locals of its call |
| `submitted`, `done` | history |

Modelled: failing thread creation, failing allocation of a job and of a waiting-list
item, spurious wake-ups (bounded by `MaxSpurious`), the throttle of
`opj_thread_pool_submit_job` (`QueueFactor`, 100 in the code), the negative argument
of `wait_completion`, pools of no thread, which run jobs inline. Left out: the TLS
table of a worker, and the content of a job.

### TileDecode (`tcd.c`, `t1.c`, `t2.c`, `dwt.c`)

`opj_tcd_decode_tile` on `JobPool`. Main runs tier 2 (which blocks have data), then
the submission loop over the code-blocks, the wait, then either the wavelet passes
of a whole tile, each cut into slices, or the sequential synthesis of a window. A
code-block job has a step for each place where it touches something shared: it
looks at `ret`, allocates its `decoded_data`, decodes. The tile is kept from call to
call, so that `decoded_data` of an earlier area can be reused, as `j2k.c` does for
images of one tile; to decode all of it, it is read again or, where the image is not
exactly its tile, taken as it was kept. `swept` counts how often a pass has transformed
each line. Every allocation may fail, blocks may be corrupt, the pool may refuse a job.

Abstracted: a block has one of four contents (none, zeroes, coefficients, blank); tier
2 only says whether a block has data; the arithmetic of the passes is left out, the
cutting into slices is not.

### InStream, OutStream, ByteSource, ByteSink (`cio.c`)

A call is cut wherever it calls a function of the user, which may fail ("read",
"write", "skip", "seek"), answer less than asked for ("short"), or stop at the
capacity of the medium ("full", as `fwrite` does). A byte read is identified with
its place on the medium, a byte written with the call that wrote it, so that the
contents of the buffer say whether it is right. `StreamSizes` has the constants of both
directions. `ByteSource` and `ByteSink` are what
the codecs assume: a run of bytes with a position. `OutStream` maps the medium and
the buffer together to the data of `ByteSink` (`Image`).

### Decoder (`j2k.c`)

From after `opj_read_header` on: `opj_set_decode_area` with `opj_decode`, and
`opj_get_decoded_tile`. A codestream is a sequence of tile-parts of a row of tiles,
and a position in it is the number of a tile-part. One iteration of the loop of
`opj_j2k_read_tile_header` is one action, from the SOT to the marker after the SOD,
with an action for each way it can end: refused, skipped, skipped in vain (Psot 0),
collected and jumping on with a TLM, collected and going on, complete, complete but
for the TNsot correction. Then the tile is decoded, and the three callers
(`FastTile`, `AreaTile`, `WantedTile` and `OtherTile`) do with it what they do.

| variables | in the code |
|---|---|
| `state`, `at`, `tile`, `can_decode`, `last_part`, `wanted` | `m_state`, the stream position, `m_current_tile_number`, `m_can_decode`, `m_last_tile_part`, `m_tile_ind_to_dec` |
| `corr`, `checked` | `m_nb_tile_parts_correction`, `..._checked` |
| `area` | the range of tiles, and whether an edge is inside a tile |
| `plan`, `planned` | `m_intersecting_tile_parts_offset` |
| `data`, `part_no`, `nb_parts` | per tile: `m_data`, `m_current_tile_part_number`, `m_nb_tile_parts` |
| `nb_tps`, `start`, `last_sot`, `tlm_ok` | the codestream index |
| `image` | history: the tiles given to the caller, with their tile-parts |
| `used`, `calls` | which calls the application has made |

Choices: tiles are in a row (areas are intervals of it, which is all the loops need);
the stream can seek; a tile-part holds no marker but SOT and SOD; the application
either decodes areas or asks for single tiles, and stops at the first failure; the
offsets that `qsort` sorts are ranked (`Ascending`). A
failed call ends in "failed", a tile that cannot be decoded in "broken", a refused
`opj_set_decode_area` in "refused", so that properties can tell them apart.

### TileBuffers (`tcd.c`, `j2k.c`, `image.c`)

`mem` holds, for each component, the buffers that are allocated and what each pointer
to them holds: `opj_tcd_tilecomp_t` (`data`, `ownsData`, `data_win`), the pool slot
(D6.1), the codec's images and the caller's. An action is a call, or what is done with
one tile of it: allocation, transfer, recycling, copying and freeing, with every failure
of an allocation or of a tile. Of a window of samples only its relation to the
tile-component is kept (`exact`, `near`, `part`, `empty`), which is what decides on the
path. The tiles of a call are taken as the codestream has them, in any order: `todo` is the
set that is left, `Asked` what a component's image must have of them in the end.
`chosen` is `opj_set_decoded_components`; the same codec may be asked for areas and
tiles again. The encoder's side is the copy or adoption of the caller's samples and
the room the transforms need. It is the build with NDEBUG (section 7).

### Progression and TileParts (`pi.c`, `j2k.c`, `t2.c`)

`Progression` has no state: what an iterator gives next is the earliest packet, in the
order of its loops, that is not in `include` (`NextVisit`). `TileParts` has the encoder
beside a decoder's iterator: `opj_j2k_get_num_tp` counts the parts (`NumTp`), then
`OpenPart` makes the iterator of the next part out of the ranges of the last
(`opj_pi_create_encode`, an odometer: `counter`, `range`), `WritePacket` gives it to tier 2
and takes the decoder's next one (`reader`), `ClosePart` goes on to the next part or
progression. `last` is the packet written and the packet the decoder takes it for.

### Packets (`t2.c`, `tgt.c`, `bio.c`)

One precinct of one band over its layers. The encoder's state (`enc`) and the decoder's
(`dec`) are tag trees and blocks with what the source keeps in them; `coded` and `kept` are
history. A packet is encoded (`EncodeHeader`), possibly in vain: rate control encodes
the layers as often as it likes (`Rehearse`), with a buffer that may end after the header
or in a body, before they are encoded for good (`Send`). A header is a sequence of bits
that is packed into bytes with stuffing and read back.

### BlockCoder (`mqc.c`, and `t1.c` as it drives it)

The registers of the MQ coder, `ByteOut`, the flushes and the raw coder, with their
integers as they are in C. A block is a sequence of passes over segments; a pass is some
runs of equal symbols in a context, and may end its segment in one of the ways that
`opj_t1_encode_cblk` chooses between. `segs` and `passes` are what the decoder is run on.

### Jp2 and Jp2Files (`jp2.c`)

A file is a sequence of boxes. `Write` makes those the encoder writes for an image,
`ReadBox` takes the next one as `opj_jp2_read_header_procedure` does (unknown, misplaced
and truncated boxes included), the rest is what `opj_jp2_decode` and
`opj_jp2_get_tile` do with the palette, the colour space and the channel definitions, call
after call, in the image of the caller. `Jp2Files` is the files and images to try.

### Wavelet and WindowDecode (`dwt.c`, `mct.c`, `sparse_array.c`, `tcd.c`, `t1.c`)

`Wavelet` is the 5-3 lifting of a line, forward and back, whole or in a window, and the
reversible colour transform, as functions. `WindowDecode` transforms a plane level by
level as the encoder does, keeping the samples of each resolution (`images`); then for an
area and a number of resolutions it chooses the code-blocks (`Taken`), puts them into the
sparse array (`Write`) or the tile's samples, and runs the rows and columns of each level.
What nobody has written is `Junk`. Choices: a band is one precinct; a decoded
code-block has its coefficients; memory does not run out.

### TileGrid and ImageArea (`j2k.c`, `image.c`, `tcd.c`, `t2.c`)

`TileGrid` is the arithmetic along one axis, as operators: the tiles of an image
(`TileOn`), those of an area (`StartTile`, `EndTile`), subsampling and reduction
(`Sampled`, `Reduced`), and what of one interval is copied into another (`Clip`).
`ImageArea` uses it for both axes. A sample is its resolution and its two coordinates,
so that an image shows by itself whether it is right.

| variables | in the code |
|---|---|
| `img` | `m_private_image` with the tile grid of `m_cp`, or the image to encode |
| `red`, `out`, `range` | `m_reduce`; the caller's image: area, factor, `x0`, `y0`, `w`, `h`; `m_start_tile_x` and so on |
| `whole`, `resno`, `kept` | `whole_tile_decoding`, `resno_decoded`, the components whose `tilec->data` is not NULL |
| `data` | the samples of the codec's output image |
| `by`, `pc`, `todo`, `cur`, `calls` | history: what gave the sizes; where the call is, its tiles, the one at work |

`SetFactor`, `SetArea`, `SetWholeArea`, `Decode` and `GetTile` are the calls of the
application, each with the sizes it computes. `DecodeTile` decides on whole or partial
decoding and on the resolution that the packets give; `UpdateImage` is
`opj_j2k_update_image_data` with its three ways (skip, borrow, copy), `UpdateFails` its
refusals, `TakeTile` the short cut for an image that is its one tile. `CutTile` is the
encoder's way back, `opj_j2k_get_tile_data`. Choices: tiles come in any order, which `Decoder`
restricts; areas meet the image (others are refused); memory does not run out; a factor is
only set after a header that was read without one; of a precinct, that there is one.

### JpipServer (`lib/openjpip`)

The lists of targets, sessions, channels and cache models, and the message queue of one
request at a time, with each step of `jpip_parser.c` an action that can fail where the
code fails. `close_channel` first looks whether all channels are of one session
(`CloseListed`), then closes them one by one (`CloseOne`), in any order, and with the last
the session goes (`CloseEnds`). A list is what can be reached from `first`, and `last`.
`channel` is `qr->channel`, which `process_JPIPrequest` sets before it closes anything and
the answer reads at the end: `Respond` is the answer, which leaves the server the same
whether it goes out or not (section 7), and `Crash` what may become of it when the channel
has been freed: the server ends, with all it kept, or (`Respond`) reads what is there.
`client` is what the answers made for each session held, external to the code.

### CondVar and WinCond (`thread.c`, Windows)

`CondVar` is a POSIX mutex with condition variables. `WinCond` has an action for each
critical section and each call of the system (`TlsAlloc`, `CreateEvent`, `SetEvent`,
`WaitForSingleObject`), and the steps of `opj_cond_wait` between them. The refinement maps
the events in the lists, and those set but not passed, to sleepers and woken threads.

### MCCoding, MCOwners and MCStreams

A behaviour is one of one of the modules, chosen in Init by `kind`; the variables of the
others are None, or keep their first values. `MCOwners` and `MCStreams` extend their modules,
so that their properties are checked as they stand; that is why the definitions and
variables of `TileBuffers` (`BuffersNext`, `stage`), `JpipServer` (`ServerNext`, `part`) and
`OutStream` (`OutNext`, `wpc`) have names of their own.

## 4. What the runs check

| run | what it asks | bounds |
|---|---|---|
| `pool` | safety of the pool, and that it implements `JobPool` | 3 workers, 3 jobs (symmetric), a throttle of one job per thread, 1 spurious wake-up, every allocation may fail |
| `pool_live` | accepted jobs run, calls return, the pool implements `JobPool` with its fairness | 2 workers, 2 jobs, no failing list item |
| `tile` | no job outlives its step, results complete, kept blocks sound, slices exact, calls return | 3 blocks in 2 components, pools of 0, 1 and 2 threads, 3 lines, 1 level, 2 calls, one corrupt block, every failure |
| `tile_packed` | violation: packed packet headers are gone for the second area | |
| `streams` | position, counts, refinement of `ByteSource` and `ByteSink`, calls return | 6 bytes to read or 6 places to write of which 5 can be had, a buffer of 3, requests up to 5, 4 calls |
| `out_full` | violation: the flush on a full disk | 2 calls |
| `decoder` | areas and tiles exact, no call spoilt by earlier ones, order of parts, memory and index between calls, calls return | 3 calls in each of 3 modes on every conformant codestream of 2 tiles and up to 4 parts with any choice of TNsot and with and without TLM, and on some twenty chosen ones, of up to 3 tiles and 6 parts, good and bad |
| `dec_plan` | violation: the order check after a jump | one codestream |
| `coding` | what the encoder writes is what the decoder reads: packets in tile-parts, packet headers, segments of blocks, boxes, samples of areas, places of samples in images | see below |
| `enc_parts` | violation: tile-parts that lose packets | one tile |
| `owners` | one owner for each buffer; the JPIP server's references, what its answers hold, and what they say of it; the Windows build implements `CondVar` | 3 calls on images of 2 components in 1 or 2 tiles; 2 sessions, 2 channels and 2 files, or 3 channels on one file; 3 threads on 2 conditions with 2 mutexes |
| `server_closed` | violation: an answer made from a channel that its request has closed | 2 channels |

Why these bounds are enough to be interesting:

- three workers are needed for one to be popped from the waiting list, one to be
  busy and one to go idle at the same time; three jobs, so that one is queued while
  both others run; `QueueFactor` 1 makes the throttle bite at three jobs instead of
  hundreds, and in the liveness run 0 makes it bite at once;
- two windows that overlap give blocks that are kept, dropped and asked for again;
  three lines do not divide by two threads, so that the last slice has the remainder;
- requests may be smaller than, equal to and larger than the buffer, and the medium
  is two buffers long, so that each of the branches that read a chunk, read directly
  or read again is taken, and the end is met in each of them;
- three parts per tile are needed for the TNsot correction; two tiles whose parts
  interleave, with three calls, give every order of areas and tiles, repeated ones
  included. The number of calls is the only bound on a history;
- ten tiles of two components, of one to three resolutions, with origins on and off
  the grid of their precincts, equal and different subsampling, one and two layers, in
  five orders, cut by resolution, layer, component or not at all, and four kinds of
  progression changes: each branch of the odometer is taken, moved on and wrapped;
- precincts of one to four blocks in two layers: a block can join in either, a tag tree
  has two levels, and one layer may take up to 37 passes, which is every length of
  the code for their number; lengths of 1, 8, 60 and 255 bytes make Lblock grow; a
  rehearsal may end anywhere once or twice before the packets are sent;
- blocks of three runs of 1 or 7 symbols in two passes, with a context that is sure
  and one that is not, after a byte that a carry turns into 0xff: the second pass
  begins in bytes the first has left, for every pair of terminations;
- files with all placements and listing orders of three colours and up to four channels,
  palettes of one to three columns mapped in every way, any box in any of three places,
  and two calls, so that the second meets what the first has left;
- lines of 1 and 11 samples at four origins, across and down, and planes of 5 by 4 and
  6 by 3, in up to three resolutions, with every area and every reduction. Blocks of
  one sample and sparse blocks of side 3 make any block or cell that is missed show:
  with a margin or a filter width of 1 the property fails;
- five images of two components, the second subsampled by up to 3, of one to three
  resolutions, in one to six tiles, with origins on and off the grids of tiles,
  subsampling and reduction; tiles without a sample of the second component; areas that
  begin and end at every place, up to one beyond the image; two calls for tiles;
- three calls on a codec: one that leaves something, one that meets it, and one that
  meets what that left; two tiles of different sizes, so that a buffer must grow;
- a third channel is needed for one in the middle of a session's list to be closed; with
  two, each of the two files is asked for in one way (`TwoChannels`), with three the one
  file is asked for in all, also by names and for boxes that are not there (`OneFile`). The
  view-windows differ in what they need, so that a bare request is answered before,
  between and after they have all; two conditions, because one event of a thread serves
  all, and three threads, so that a waiter can be in the middle of a list.

The preconditions of the decoder's properties are part of what they say. `Sound` is
what `opj_decode` can decode: conformant codestreams (with the exceptions of
section 7), TNsot one too small (issue 254) and last tiles without TNsot and EOC.
`RandomAccess` is what `opj_get_decoded_tile` can: conformant ones whose first
tile-parts give TNsot. In both, TNsot one too small must be met in a tile that is
decoded before it is in one that is skipped (`CorrectedInTime`, section 7).
`PartsInOrder`, which includes the types, and `CallsReturn` hold for all.

## 5. Fairness

- `ThreadPool`: weak fairness of main and of each worker: the operating system runs a
  thread that can run. Mutexes need no strong fairness in these runs, since a thread
  that waits for one is enabled again and again only while others make progress, and
  these block in the end. `job_fn` returns. The application need not call again.
- `TileDecode`: weak fairness of main and of the workers together; `JobPool`'s
  fairness, which `pool_live` checks, is what justifies it.
- `InStream`, `OutStream` (and `MCStreams`, for the one that runs): a call that has begun
  goes on: the functions of the user return, after having moved at least one byte or failed. `opj_read_from_file` does
  (0 bytes become -1); `opj_write_from_file` does not on a full disk, hence `out_full`.
- `Decoder`: a call that has begun goes on; it is sequential.

## 6. What is proved

TLAPS checks the following for every value of the constants allowed by the named
assumptions `ThreadPoolAssumption`, `TileDecodeAssumption`, `StreamAssumption`,
`WinCondAssumption`, `DecoderAssumption`, `TileBuffersAssumption` and
`JpipServerAssumption`; the last two say what images, areas, files and view-windows can be. What is proved of the transforms and of the grid of tiles assumes nothing.

**ThreadPoolProofs**: `TypeCorrect`, `PendingCorrect`, `QueueCorrect`, `WakeCorrect` and
`FreeCorrect`, for any number of threads, jobs, spurious wake-ups and failures. The
types are proved first. The inductive invariant `IInv` has four more parts, each with
a lemma of its own, since none is inductive without the others:

- `LockInv`: who holds a mutex is a function of where the threads are;
- `WorkersInv`: which workers exist, and how far destroy has come;
- `CountInv`: `PendingExact` with what main has concluded from the count, `QueueBounded`;
- `WakeInv`: a worker that must be signalled is on the waiting list or is being
  signalled, and a worker parks only while the queue is empty, which is what carries
  `NoLostWakeup` through every step.

Three invariants stand on `IInv`, each inductive relative to it:

- `PlaceInv` says of each accepted job that is not done where it is: a position of the
  queue or a worker, and only one. From it follow `JobsCorrect` (a job is neither lost
  nor run twice) and `PoolRefinement`: the pool implements `JobPool`. A step under a
  mutex that takes, runs or accepts a job is a step of `JobPool`, all others stutter; that
  a wait ends only when few enough jobs are left is `PendingExact`.
- `MarkInv`: `waiting_worker_thread_count` is the number of marked workers, hence
  `WaitListCorrect`.
- `ConserveInv`: as long as the list is not empty, the queued jobs and the workers that
  are on the list although they have been woken (`Strayed`) are no more than the workers on
  their way to the queue (`Coming`) and the spurious wake-ups still to come. Each
  spurious wake-up strays one worker, and each handoff brings one. Hence
  `ConserveCorrect`.

**TileDecodeProofs**: for any number of blocks, components, areas, calls, lines and
threads. `IInv` has the jobs that main has submitted and of which step they are
(`JobsInv`, `OfItsStep`), the lines that are transformed (`PassInv`), and the phase in
which main finds the pool (`ClientInv`).

- `StepsAwaited`: no job outlives its tier 1 or its pass, whatever fails.
- `PassCorrect`, with `SlicesCover` and `SlicesDisjoint`: the slices partition the lines, and
  every line is transformed once, unless the pool has refused a job.
- `DecodingCorrect` and `KeptCorrect`: what a call that succeeds has decoded, and what is
  kept of it. While tier 1 is at work and nothing has failed, a block main has passed
  has its samples or a job that is not done (`Tier1Inv`); when none is left, only
  samples are. `SuccessCorrect` is without the exception for refused jobs. All three are
  for packet headers that are not packed, since with packed ones they do not hold
  (`tile_packed`, section 7), and `SuccessCorrect` for a pool that refuses nothing, since
  the code does not look at what `opj_thread_pool_submit_job` returns.
- `ClientOfThePool`: seen from the pool, a behaviour of `TileDecode` is one of `JobPool`, the
  specification that `PoolRefinement` shows `ThreadPool` to implement; and `NeverRefused`: the
  guards of `JobPool` do not keep main from a step that the code would take.

**InStreamProofs**: `PositionCorrect`, that the buffer holds the bytes at the offset, and
`Refinement`, that the stream implements `ByteSource`. The invariant adds to
`Positioned` where `m_current_data` is while the medium is read (`Shape`). For the
refinement (`Within`: nothing leads past the end) the application must have told the
length of the medium: without it the first skip beyond the buffer goes to position 0
(section 7). `CountsCorrect`, what a call returns, adds how far a call has come
(`Progress`), for a length told that is not more than the medium's.

**OutStreamProofs**: `OffsetCorrect` and `Refinement`, that the stream implements
`ByteSink`. The invariant says where the buffer begins and ends in each phase (`Shape`)
and how far the operation may still go (`Within`). Each action is then a copy, a
take, a move or a failure of `ByteSink`, or a stutter. `WriteCorrect`, what a write
returns, adds how much of it is in the buffer or on the medium (`Progress`).

**DecoderProofs**: for any codestreams, conformant or not, of any number of tiles and
tile-parts, and any calls.

- `PartsCorrect`: a tile is put together of its own tile-parts only, in their order. Besides
  types and the bounds of the index, of the plan and of `data` (`Types`, `IndexInv`,
  `CallInv`) its invariant says which tiles a call is at (`ModeInv`), and that the part number
  of a tile counts what has been collected, or that the tile is closed to further parts
  (`Book`). The second is why a tile decoded in an earlier call is not begun again in
  its middle.
- `IndexCorrect`: in a conformant codestream the index is right wherever it says
  something, be it from TLM markers, from SOT markers or from both (`IndexRight`).
- `TileCorrect`: where random access is possible, a tile asked for comes with all of its parts.
  While tiles are asked for (`Asking`), the numbers of parts are right or corrected
  (`NumbersInv`), the index knows each tile that has been met (`MetInv`), and no part still
  wanted is behind the position (`PositionInv`): a seek goes to the first part of the
  tile, or to where nothing has been read yet. So when the loop ends before the tile is
  closed, nothing of it is left, and it is whole (`WholeInv`).
- `AreaCorrect`: `opj_decode` gives each tile of the area once and whole, for codestreams
  that conform or that the decoder repairs. While areas are decoded (`Decoding`), the
  invariant (`Area`) says that what lies behind the position has been met, for the tiles
  of the area, and for all if no plan leads past some (`SyncInv`); that the plan has the
  tile-parts of the area that lie ahead (`PlanInv`); where the end is (`PlaceInv`); that a
  tile of the area has been decoded, is the next, or lacks what has not been met
  (`DataInv`); what the image has been given (`ImageInv`); and what is there between two
  calls (`IdleInv`). So where the end is met, or the plan is used up, or as many tiles as
  there are have been given, none is missing. The plan needs TNsot in the last part of
  each tile (`LastKnown`): only then is a tile that is complete also seen to be.
- `CallsCorrect`: from the same invariants, no step of a call ends in "failed": the SOT that
  comes next is the next one of its tile (`SotSucceeds`), a tile that is decoded is in the
  area, and a missing EOC is made up for. A second area of the only tile is refused only
  after one that took its data. The hypothesis `CorrectedInTime` is the exception of
  section 7.
- `LeftBehindCorrect`: between two calls no tile of several is in memory (`IdleInv` for
  areas, `Collected` for tiles that were asked for), and the index is right.

**WinCondProofs**: for any number of threads, conditions and mutexes. The invariant says who
is in the TLS section and that the key is allocated once (`KeyInv`), what the condition of
a call is and whose its mutexes are (`CallInv`), that a thread's event is set only
while it is in a wait (`EventInv`), and that a list has just the threads that sleep on its
condition with their event not set, each once, and the one that a signal is taking off
(`ListInv`). `WakeCorrect` follows, and
`Refinement`: the events in the lists are the sleepers of `CondVar`, those off the lists and
not yet back the woken threads.

**The transforms and the grid of tiles** (in `TileDecodeProofs`, from the samples of a tile
to those of the image): `WindowSuffices` says what the synthesis of a window of a line needs
(two places on either side, and the low neighbours in the window), from which
`LineReversible` follows, for lines of any length, parity and samples; the two-dimensional
transform applies it to rows and columns. `MctReversible` is the colour transform. The
steps are the four liftings; a neighbour of a place, mirrored or not, is a place of the
other parity (`NearPlace`).

`ClipExact` and `CopyFits` say that the copy of a tile into the image is
what they have in common, and is never refused if the tile meets the area and is at the
resolution asked for; `TilesMakeComponent` that the tiles of a component follow each other
without gap or overlap, `AreaInTiles` that the tiles chosen for an area cover it. They hold
for all sizes, subsamplings and reductions that SIZ allows (`Axis`), with integers that do
not overflow. The lemmas turn the divisions into products (`CeilDivBounds`, `TileBounds`).
What a component without samples does to the resolution is outside of them (section 7).

**TileBuffersProofs**: `BuffersCorrect`, for any images, tiles, areas, choices of components,
failures and number of calls. `BuffersSound` is not inductive: that a call that succeeds
delivers all of its tiles rests on what the buffers hold in the middle of it. The
invariant `IInv` says of each component (`Sound`) that the pointers that own are distinct, that
what they hold is just what is allocated, that the size the tile counts with is not more
than that of its buffer, and that the pool slot is empty; which pointers a decoder, an
encoder and an encoder in place may use (`Modes`); and what the buffers of the image hold
after each tile (`InCall`, `Decoded`). A buffer of the image has the samples of the tiles done
that the component asked for, and there is none as long as no tile is done: so where
the tile's data is to be lent or transferred, nothing is overwritten. The lemmas say of
each operation on a component (`Alloc`, `Free`, `Transfer`, `Update`, ...) that it keeps
`Sound`, and what it holds afterwards. `PoolStaysEmpty` is a consequence (section 7).

**JpipServerProofs**: `ServerCorrect` and `AnswersCorrect`, for any files, view-windows, bounds
and requests, crashes included. The
lemmas on lists (`AddLastGives`, `WithoutGives`) need that a list has nothing twice and that
`last` is its last element (`GoodList`), which is what a removal at the end has to keep: a
list whose `last` is stale loses what is added next. The invariant: the lists agree with
what there is (`ListsInv`, `ChannelsInv`); a cache model is in the queue or in one session,
which has one for each target (`ModelsInv`), and is counted by its target (`UsesInv`); it says
that the first elements of each data-bin have been sent, these being what the client
has and what is queued for it (`ClientInv`); the queue has nothing that the client has and
completes what is asked, or is empty if the request has failed (`QueueInv`); and each part
of a request finds what the parts before it have looked up (`CallInv`); and `qr->channel` is
an open channel until the request closes it (`HeldInv`). From `HeldInv` and `ClientInv`
follows `AnswersSound`: the channel is gone at the answer exactly when this request
closed it, and of any other channel the EOR says "all sent" exactly when the answers
hold it all, with a queue or without. That the channel is always there
(`AnswerHasChannel`) does not hold (`server_closed`, section 7).

Only model-checked: liveness under fairness, and with it the fairness of `JobPool`
(TLAPS does not reach ENABLED); and what `coding` asks of the modules that write and read
(`PartsReadBack`, `PacketsReadBack`, `SegmentsReadBack`, `Jp2Sound`, `WindowExact`,
`ImageExact`), but for the lemmas above on the transforms and the grid of tiles: the
definitions of these are recursive, or fold over the data, and what they compute for
every input is out of TLAPS's reach.

## 7. What the models show to be different from what is said

Each of these is a run that ends with a counterexample:

- `tile_packed` (`t2.c:1346`): reading packed packet headers (PPM, PPT) uses them up, so
  that a second area of an image of one tile is decoded from empty packets;
  `openjpeg.h:1452` allows such sequences.
- `out_full` (`cio.c:441`): `opj_write_from_file` answers 0 on a full disk and the
  flush loops for ever; `cio.h:293` says it returns false.
- `dec_plan` (`j2k.c:4492`): the comment above says that the part number may only be
  checked if every tile-part header is read; after jumps led by TLM markers it is
  checked all the same, and a conformant codestream without TNsot is refused.
- `enc_parts` (`pi.c:1931`): a tile whose origin is off the grid of its smallest
  precincts, cut by component in a position order: the range of a later part begins
  before the tile, the loop steps over the border, and the packets of the precincts
  there are in no part; `opj_compress.c:249` says that -TP divides every tile.
- `server_closed` (`openjpip.c:188`): `qr->channel` is set (109) before channels are closed
  (120), so that the answer to every `cclose=*`, which needs the cid of a channel, and to
  a list with that cid reads a channel that has been freed; `openjpip.h:81` says that it is a
  channel, or null. A server that ends in `add_EORmsg` leaves its temporary file behind,
  and one started after it there answers 503 to everything.

Met while modelling, without a run; the properties exclude them by their
preconditions:

- `opj_stream_read_skip` past the end returns what was left after the part in the
  buffer, not by how much it has moved (`cio.c:508`, `cio.h:303`); and a stream whose
  length is unknown (0) takes every skip beyond its buffer for one past the end.
- With Psot 0, a last tile-part outside the area is not skipped (`j2k.c:4635`):
  its tile is handed to `opj_tcd_decode_tile`, which refuses it although "Upper level
  logic should not even try to decode that tile" (`tcd.c:1761`). `m_last_tile_part` is
  never reset.
- Without TNsot in the first tile-part of a tile, the index does not know it, and a
  later `opj_get_decoded_tile` may start too far on (`j2k.c:12205`).
- TNsot one too small is corrected only when a tile that is decoded lacks its last part
  (`j2k.c:9971`). If the last part of a tile outside the area, or of one that was not
  asked for, comes before that, its SOT is refused (`j2k.c:4585`) and the call fails:
  two tiles of three parts, one after the other, and the second one alone is wanted.
  `CallsSucceed` excepts it (`CorrectedInTime`).
- "Not completely sure this is always correct" (`j2k.c:12255`): resetting the part
  numbers of all tiles, as the code does, or of the wanted one only, both pass every
  property.
- A worker that cannot allocate its waiting-list item ends (`thread.c:800`); if it was
  the last, jobs are still accepted and never run, although `thread.h:217` says that
  the first free thread runs them. `pool_live` has no such failure.
- What `opj_thread_pool_submit_job` returns is ignored (`t1.c:1901`, `t1.c:2437`): a block
  whose job is refused stays empty and the call succeeds. `DecodedComplete` is about
  accepted jobs.
- For an image of one tile that has not the size of its tile, decoding all of it
  destroys the tile's data (`j2k.c:12138`), and the next `opj_set_decode_area` is refused,
  which `openjpeg.h:1452` allows.

- JPIP: data counts as sent when it is queued. If the answer does not go out, as its
  temporary file cannot be made (`openjpip.c:144`) or it cannot be written, no later one of
  the session has it, and the EOR of these may say that all has been sent, which
  `cachemodel_manager.h:93` says is checked. `client` is what the answers held.

Tile buffers:

- The slot of the D6.1 buffer pool never receives a buffer, in spite of the comment at
  `j2k.c:12002`: at `opj_tcd_pool_recycle` the data of the codec's image is always NULL
  (`PoolStaysEmpty`).
- The assertion at `j2k.c:12370` fails in a debug build: after an area of an image of one
  tile, `opj_set_decoded_components` and another area, stale data of a component that is
  not chosen moves to the codec's image. With NDEBUG it is freed, which is modelled.
- `opj_decode` does not compare the number of components of the caller's image after a
  subset was decoded, as `opj_get_decoded_tile` does (`j2k.c:12466`); the model's
  application passes a fresh image.

Images (both seen with the library; `ShowsArea` and `Lacking` except them):

- With a reduction given before the header is read and no `opj_set_decode_area`, a
  component is as wide as its width reduced (`image.c:145`), not as the difference of its
  reduced ends (`j2k.c:10465`): where its origin is off the grid it may have a column or
  line more, of zeros.
- A tile in which a subsampled component has no sample has no packet for it, and the
  component is taken to be at resolution 0. If the buffer of an earlier tile is still
  there the copy is not skipped (`j2k.c:10280`) and the width to copy may be negative:
  `opj_decode` refuses a valid codestream (`j2k.c:10370`).

JP2 (each seen with the library as well as in the model; `ColorsExact` excludes them):

- A channel definition of an alpha channel listed before that of the colour that takes
  its place loses its type (`jp2.c:1380` sets it after the exchange): a file of ARGB with
  alpha listed first decodes to components none of which is alpha (`TypesKept`).
- The definitions are freed with the first image (`jp2.c:1383`), so that a second area or
  tile comes in the order of the file (`openjpeg.h:1452` allows it); the palette stays,
  and widens an image that the next `opj_decode` finds too wide.
- Unknown channels are given alpha 65535; encoded again together with an alpha channel
  they count as two, and the channel definition is left out.

Encoder (the properties are about tiles and options without these):

- LRCP or RLCP with -TP fail when components or resolutions differ in their number of
  precincts (`t2.c:743`); with a resolution that is empty they write a packet too much.
- Subsampling that differs between x and y: `opj_j2k_get_num_tp` counts fewer parts than
  there are positions, and packets are lost.
- Progression changes whose layers end later and later: the ends of the one before are
  taken for starts (`pi.c:1146`), although `j2k.c` says that "The layer index always
  starts at zero for every progression"; later layers are never written. What
  `opj_j2k_check_poc_val` returns is ignored (`j2k.c:8201`). With -TP besides, ends beyond
  the image make TNsot larger than the number of parts.
- The rate of an MQ pass that does not end its segment (`numbytes + 3`, `t1.c:2613`) is
  not always enough for the decoder to find all its symbols; `PassesReadBack` is about
  passes that are terminated or raw.
- An image whose `x0` is not a multiple of `dx`, encoded in more than one tile: the length
  of its lines is taken to be that of `x1 - x0` subsampled (`j2k.c:12894`), which may be
  one more than it is, and tiles are cut from wrong places (`CutRight` is about equal lengths;
  seen with the library).
- In `opj_mqc_byteout` the test for 0xff before the carry makes no difference: the model
  without it passes.

## 8. What is not modelled

- The numeric kernels (context modelling, HT, 9-7, SIMD) are out of TLC's reach.
- The main header and most markers of the codestream, `opj_read_tile_header` with
  `opj_decode_tile_data`, streams that cannot seek; the choice of components is modelled
  for the buffers (`TileBuffers`) and not for the codestream or the places of samples.
- Of the encoder: the markers, the rate loop, the jobs. Of packets: SOP and EPH, PPM and
  PPT, several bands, lenient reading. Of blocks: the coding passes and their contexts.
- The codec handle, procedure lists, `opj_tls_*`, index boxes, the JPIP client side.
  `PROJECT.json` says of each component why.
- `WinCond` leaves out a `malloc` or `CreateEvent` that fails, which the code asserts
  against; `JpipServer` leaves out tid, metadata-bins, len and auxiliary transports, and
  takes channel names for unique. Its requests that close channels ask for nothing else:
  with a view-window besides, a freed channel is read before the answer too
  (`jpip_parser.c:223`). After a crash nothing is modelled, nor is a message that is
  written in part.
- Command-line programs, the Java binding, third-party code.

## 9. Running

`tlc -config X.cfg M` for the module and configuration of a run listed in
`PROJECT.json`; `tlapm M.tla` for the eight proof modules. A mutant `A_B` next to a
definition `A` is a plausible bug of the code it stands for; substituted for `A` it
makes the property named in `PROJECT.json` fail.

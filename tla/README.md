# Specifications of zhhx-useful-code

The repository is a collection of programs and small libraries kept by one
author: wrappers of the operating system's synchronisation objects
(`src/linux/oswrapper`), a singleton (`src/trunk/singleton`), a parser of MPEG-2
transport streams (`src/trunk/parsempegts`), the H.264 reference software JM 8.6
(`src/trunk/h264_JM86`), audio capture and playback (`src/trunk/testwave`), and a
number of demonstrations of libraries. This directory specifies the parts that
keep state over many calls, where the order of events decides what happens, and
leaves aside those that draw, print or compute samples.

Everything is translated from the source. TLC checks small instances; TLAPS
proves what is said to hold for every value of the constants.

    tlc -config SemAll.cfg MCSemaphore         # one run; the table below lists all
    tlapm SemaphoreProofs.tla                  # one module of proofs

## 1. Inventory

| part | state | operations | interacts with | hard behaviour |
|---|---|---|---|---|
| Semaphore, `oswrapper/semaphore_linux32.cpp` | `count`, `maxCount`, a mutex, a condition variable | init, destroy, wait, timedwait, try_wait, post | any number of threads | sleepers that lose their token, timeouts that race signals, posts that wake nobody |
| Event, `oswrapper/event_linux32.cpp` | `state`, `manual`, mutex, condition | init, destroy, signal, reset, pulse, wait, timed_wait | any number of threads; used by Thread | a pulse that is over before a sleeper runs, a timeout that races a signal |
| Mutex, `oswrapper/mutex_linux32.cpp` | `is_valid`, the pthread mutex | lock, unlock, init, destroy | used by Thread | answers NOT_INIT without locking, and callers do not look |
| Thread, `oswrapper/thread_linux32.cpp` | `is_valid`, `i_wait_count`, `access_mut`, `exit_event`, the handle | create, exit, is_valid, wait, timedwait, close, set/get priority | Event and Mutex; the worker and its controllers | who joins, and when; unlocked tests; a worker that never signals |
| Mail queue, `oswrapper/mailqueue_*` | a POSIX queue, or a Windows mail slot | create, open, send, receive, close | two processes | blocking, size limits |
| Windows wrappers, `oswrapper/os_*_win32.cpp` | kernel objects | the same interface | the same | the thread protocol is repeated |
| Singleton, `singleton.cpp` | one `auto_ptr` and one lock per class | `Instance(type)` | any number of threads | double-checked locking |
| Transport stream framing, `DecodeTs` | the kept part of a packet | DecodeTs(chunk) | its caller reads a file in chunks | packets cut anywhere |
| Transport stream tables, `HandlePATCallback`, `HandlePMTCallback` | program list, versions, table of PIDs and its map | one per table | Framing gives packets; Frames reads the slots | tables that change while a stream runs |
| Transport stream frames, `GatherPes` | continuity counter, frame buffer, loss flag | one per packet, delivery by callback | Tables allocates and frees the buffer | loss, repetition, resynchronisation |
| Decoded picture buffer, JM `mbuffer.c` | frame stores, marks, last output, last frame number | store a picture, memory management commands, gap filling, output, flush | `image.c` starts pictures, `parset.c` changes parameters, `output.c` writes | wrap of `frame_num`, marking commands in any order, a full buffer, resets |
| Picture order count, JM `header.c` | previous numbers, offsets, parts of the last count | decode_poc | its result orders the buffer's output | three ways of counting, wraps, command 5 |
| Byte stream, JM `annexb.c`, `nal.c` of both programs | the buffer of the NAL unit, the place in the file | write and read a unit, escape and undo it | one program writes what the other reads | zeros at the end of a unit, padding, a buffer that keeps the unit before |
| Headers, `header.c`, `parset.c` of both programs | parameter sets, the fields of slice and image | write and read SPS, PPS, slice header | nothing in the stream names an element: both must take the same branch | conditions written twice, values kept from the slice before |
| Pictures from slices, decoder `image.c`, `parset.c` | the picture being decoded, the header before, the sets by id and the active ones | one per kind of NAL unit | closes pictures into the buffer | lost slices and partitions, sets that come between slices |
| Reference lists, `mbuffer.c` | `listX` of a slice | init_lists, reordering commands | reads the picture buffer | parities, long term, a picture named twice |
| Neighbours and edges, `mb_access.c`, `loopFilter.c` | slice and field flag of each macroblock | neighbour of a sample, filtering a picture | prediction and entropy coding ask for it | pairs of frame and field macroblocks |
| Slice groups, `fmo.c` | two maps | seven generators, next macroblock | the macroblock loops walk them | groups that grow with the picture |
| Slices and macroblocks, encoder `slice.c`, `macroblock.c`, decoder the same | the bitstream and its saved position, the skip run, the state of each macroblock | code a macroblock, take it back, cut a slice; read one | slice groups, the arithmetic coder | a macroblock taken back, skip runs over pairs, a field flag inferred |
| Macroblock syntax, `macroblock.c`, `cabac.c`, `vlc.c` of both programs | type, modes, references, vectors, coefficients of every macroblock, the last change of the quantiser, the counts of coefficients | write and read a macroblock, element by element | the context of a decision is chosen by what each side knows of the neighbours | a value one side has reset and the other has not; skipped and directly predicted blocks |
| Arithmetic coder, `biariencode.c`, `biaridecod.c` | interval, bits outstanding, the models | code and decode a decision, ends of a slice | the models move on both sides | carries, the last bits, range renormalisation |
| RTP, concealment, SEI, reconstruction (JM decoder) | per picture | | | samples, or printing only |
| Search and rate control (JM encoder) | a second copy of the buffer, statistics | | | numerical search |
| Wave capture and playback, `wave-test.cpp` | two rings of buffers, the next header, the devices | driver callbacks, close | the sound driver | a buffer that is given back before it is read, a header that still plays |
| Demos (chart, lang, freetype, DXCapture, mysql++, xml, function objects, calling conventions, scripts) | | | | none that lasts beyond a call |

What makes each part correct:

- Semaphore: a wait that succeeds has taken a token nobody else takes, a timeout
  has taken none, the count stays between 0 and its ceiling, and no thread sleeps
  beside a token for which nobody has been woken.
- Event: a signal reaches whoever sleeps; a pulse reaches all that sleep at that
  moment, and each of them returns.
- Thread: while the worker runs the object says it is valid; the last of those
  that wait joins, and no other; after `thread_close` the worker is gone and
  joined; every call returns.
- Singleton: one object is made, and nobody has a deleted one.
- Transport stream: every packet is analysed once however the input is cut; the
  packets of a PID reach the stream the tables name; a delivered frame is one that
  was sent, complete; after a loss the decoder falls into step again and stays there.
- Picture buffer: no more references than allowed; the window drops the oldest;
  lost numbers are restored; a command marks the frame it names and no other;
  every picture is written once and in order; storing a picture always ends.
- Order count: the decoder's count is the stream's.
- Byte stream: the decoder gets the payloads that were written, whatever zeros are in
  them, around them, or in the buffer from before.
- Headers: the decoder reads each element with the code it was written with, to the end
  of the unit, and afterwards knows what the encoder meant.
- Pictures from slices: slices of one coded picture and no others make a picture, each
  decoded with the sets it was coded with; partitions of one slice belong together.
- Reference lists: every reference once, in the order defined, and a command moves the
  picture it names.
- Neighbours: the neighbour of a sample adjoins it, in the picture as it is shown; each
  edge is filtered if and only if the slices allow it.
- Slices: the decoder finds the macroblocks that were coded, in their places and in their
  slice groups, though some were taken back.
- Macroblock syntax: the decoder takes each decision in the context it was written in, or each code from the
  table and the partition it was written with, and gets the macroblock that was written.
- Arithmetic coder: the decisions come back.
- Wave: what is heard is what was captured; a frame is lost only by a failed call.

`PROJECT.json` lists every part with its files and says why those left out are
left out, and lists the hazards of the code line by line with the property that
watches each.

## 2. Modules

| module | models | source |
|---|---|---|
| `AbstractSemaphore` | what a caller may expect of a semaphore: tokens and outcomes | (abstract) |
| `Semaphore` | the counting semaphore | `semaphore_linux32.cpp` |
| `Event` | manual and auto reset events | `event_linux32.cpp` |
| `Thread` (extends `Event`) | a managed thread, its event and its lock | `thread_linux32.cpp`, `mutex_linux32.cpp` |
| `Singleton` | the two classes with double-checked locking | `singleton.cpp` |
| `TsFraming` | chunks into packets | `DecodeMpeg2ts.cpp` 66-111 |
| `TsTable` | PAT, PMT and the table of PIDs | `DecodeMpeg2ts.cpp` 114-150, 283-566 |
| `TsPes` | packets into frames, and the link | `DecodeMpeg2ts.cpp` 153-280 |
| `PictureOrder` | what a viewer may expect: pictures once and in order | (abstract) |
| `Dpb` | the decoded picture buffer for frames | `mbuffer.c`, with `image.c`, `parset.c`, `output.c` |
| `Poc` | decode_poc for frames | `header.c` 554-759 |
| `ByteStream` | NAL units through a file | `nal.c`, `nalu.c`, `annexb.c` of both programs |
| `HeaderSyntax` | parameter sets and slice headers, written and read | `header.c`, `parset.c` of both programs |
| `SliceReader` | slices and parameter sets into pictures, with loss | decoder `image.c`, `parset.c` |
| `RefLists` | the reference lists of a slice and their reordering | `mbuffer.c` |
| `Neighbours` | neighbours with and without MBAFF; the edges that are filtered | `mb_access.c`, `loopFilter.c` |
| `SliceGroups` | the maps of flexible macroblock ordering | `fmo.c` |
| `SliceCoding` (extends `SliceGroups`) | macroblocks into slices and back | `slice.c`, `macroblock.c`, `image.c` of both programs |
| `Binarisation` | values into decisions with their contexts, and back | `cabac.c` of both programs |
| `VariableLength` (extends `Binarisation`) | values into code words, and back from bits | `vlc.c`, `macroblock.h` of both programs |
| `MacroblockLayout` | blocks, partitions and neighbours of a macroblock, as both programs see them | `macroblock.c`, `mb_access.c`, `defines.h` |
| `MacroblockWriter`, `MacroblockReader` | the elements of a macroblock, with CABAC or CAVLC | `macroblock.c`, `cabac.c`, `vlc.c` of the encoder; of the decoder |
| `MacroblockSyntax` (extends both) | a picture written and read, macroblock by macroblock | `macroblock.c`, `image.c` |
| `ArithmeticCoder` | decisions into bits and back | `biariencode.c`, `biaridecod.c` |
| `WaveRing` | capture and playback | `wave-test.cpp` |
| `SemaphoreProofs`, `ThreadProofs` (with `Event`), `SingletonProofs`, `TransportStreamProofs` (framing, tables, frames), `DpbProofs` (with `PictureOrder`), `CodingProofs` (`ByteStream`, `SliceReader` and `ArithmeticCoder`), `PictureProofs` (`Poc`, `Neighbours` and `RefLists`), `WaveRingProofs` | theorems about the module of that name | |
| `MC*` | the constants of the runs; `MCCoding` and `MCTransportStream` put the parts of one program side by side | |

### Semaphore

State: the two fields of `TSemaphore`, for every thread where it is (`at`), the
operation it is in (`op`) and what the last one returned (`ret`), and whether an
assertion has ended the process.

The unlocked test of `maxCount` (`Call`) is one step. Everything between
`pthread_mutex_lock` and the next `pthread_cond_wait` or unlock is one step, since
`count` is only touched under that mutex: the lock itself needs no variable. A
sleeper is `blocked`; `semaphore_post` makes one sleeper `signalled`; `WakeUp`, a
timeout or a spurious return, is the condition variable's own step. A sleeper
that has been signalled may time out all the same, as POSIX allows; such a wait leaves
the token and wakes nobody (section 5), and `late` remembers that one has. The sleeper
then competes for the mutex like everybody else, and `Resume` is the code after
the wait, which tests nothing but the assertion. The program is modelled with
assertions compiled in; without them `CountInRange` fails where `AssertionHolds`
does.

### Event and Thread

`Event` has the same grain, and its timed waits may always time out after the signal; `event_timed_wait`
then resets an auto reset event as if it had taken the signal. `Thread` extends it, so that the threads that call
`thread_wait` really sleep on the event the worker signals. The tests of `is_valid`
before the lock are steps of their own, and a section under `access_mut` is split
where it blocks: `thread_is_valid` holds the lock over a poll of the event, the last
waiter holds it over `pthread_join`. `holder` is the lock. `top` and `tat` say in
which call a thread is and where. `Join` on a handle that has been joined is
undefined; the model lets it return. `thread_create` and `thread_close` are called
while nobody else is inside, as every caller must.

### Singleton

One step per access to shared memory: the first test, the lock, the second test, the
construction, the two halves of `auto_ptr::reset` (delete what is held, then take
the new object), the unlock, the read of the result. `sigderive2` guards its block
with a temporary that has no name and is destroyed at once: its `Lock` does not
hold. Memory is sequentially consistent in the model.

### Transport stream

`TsFraming`: a byte is its offset, a chunk is a length; the state is how much was
given, how much is kept, and where the analysed windows began, in order; `FalseSyncs` are bytes
within packets that look like the first of one. `TsTable`: a table is
one message (the code ignores sections that span packets); slots, the map of PIDs
(`std::map::insert`, which keeps an entry it has) and the list of programs are as in
the code. `TsPes`: a packet carries one unit that knows its frame and its place in
it, so that the content of the frame buffer can be compared with what was sent. The
link drops a packet, repeats one, sends one without payload, or the PMT changes
and gives the stream a new buffer.

### Dpb and PictureOrder

A picture is stored in several steps: `StartPicture` or `StartIdr` (init_picture and
the slice header), `FillGap` once for each missing number, `Decode` (init_lists and
the choice at the start of store_picture_in_dpb), one action for each memory
management command, the flush of an IDR picture or of command 5 one output at a time,
`SlideWindow`, `MakeRoom` once for each output, `direct_output` or
`insert_picture_in_dpb`. `phase` is where the decoder is. The lists `fs_ref` and
`fs_ltref` are not state: the code rebuilds them whenever marks change, and `Short`
and `Long` compute what they hold. Calls of `error()` end the program with the
message in `error`.

The stream is what may arrive: any order of reference and other pictures, order
counts that move at most `Reorder` pictures back, gaps, commands, IDR pictures with
and without `no_output_of_prior_pics_flag`, a new parameter set, the end. It is legal:
it names frames that exist, keeps no more references than `num_ref_frames`, leaves room beside its long
term references for what it stores (the frames of a gap too), and gives no frame, in a gap or not, the number
of a short term reference that is still kept.

`PictureOrder` knows only the counts of the pictures that wait and the last one
shown. `Dpb` implements it under the mapping `Order`: the frames not yet output, and
the picture in hand, are those that wait.

### Poc

One step per picture. The stream keeps the complete frame count and order count and
sends what fits the fields of a slice header; the decoder keeps the fields of `img`.
An IDR picture may bring another type of counting, and resets only what that type
uses. Frames only, with equal order counts of both fields.

### ByteStream

A payload is a sequence of bytes whose last holds the stop bit and is never 0. `Write` is the
encoder's way from payload to file: escaping, padding with `cabac_zero_word`s, a start code of
3 or 4 bytes. `GetAnnexbNALU` is the decoder's: the start code, the bytes up to the next one,
trailing zeros off, and the escapes undone in place: `buf` is `nalu->buf`, which keeps what
longer units left in it. A multiplexer in between may add zeros after a unit. The loops of escaping and
its removal are recursive functions of the number of bytes done (`After`), each a step of `EscapeByte` or `UnescapeByte`.

### HeaderSyntax

A stream is a sequence of pairs of a code (ue, se, or u with a width) and a value. The writers
give such a sequence for the encoder's fields `enc`; the readers consume it with the decoder's
own conditions and update `dec`, field by field. `exact` records whether each element was taken
with the code it was written with and nothing was left. `Change` varies a few fields from
one sending to the next, so that the decoder has something else in its variables: that
is where a condition that differs would show.

### SliceReader

The encoder sends pictures of several slices, each whole or in three partitions, and parameter
sets between slices, those that the picture in hand uses unchanged as a stream must; the network loses units. The decoder is the record `d`; each kind of unit
is an action that does all the code does for it: parse, activate the sets, compare with the
header before (`exit_picture` if the picture is new), start the slice. `activate_sps` closes the
picture in hand; it is called in the loop as in the code, since `decode_one_frame` takes the
whole stream in one call: `next_header` is never set to SOP or EOS, and a picture is closed by
the next one's `init_picture` or by the end.

### RefLists

The buffer is a sequence of frame stores with number, order count, index and the fields that are
references. `init_lists` builds both lists; `reorder_ref_pic_list` is one step per command on a
list that is one entry longer than its active part, as in the code. The code's loop that takes fields
in turn is a function of the place in the list (`gen_pic_list_from_frame_list`), its `qsort` any arrangement of
the stores with keys that do not fall (`Sorted`), its loops that pass over entries a recursive function (`EntriesIn`).
`ListsComplete` compares with what the lists are for: every reference once, of two with the same parity the one
that may precede the other first, parities alternating while both last; `MovedToFront` says where the named pictures must be.
The buffer is as marking leaves it (`Buffer`): short term frames have `frame_num`s of their own, long term frames indices of
their own, and no frame has the count of the current one; with two stores of one number a command would move one
picture and take out both.

### Neighbours

`getAffNeighbour` is some twenty cases of a pair in frame or field mode beside another; here they
are positions of samples. A slice is decoded macroblock by macroblock with the availabilities
`CheckAvailabilityOfNeighbors` gives and leaves in `mbAvailA` and `mbAvailB`, then the picture is filtered:
`DeblockMb` decides edge by edge with the flags `DeblockCall` changes and, where filtering stops at slices, with those
that decoding has left; then it overwrites them (`LeaveFlags`). `NeighboursAdjoin` and `EdgesFiltered` are geometry: the
rows of a pair as they are shown.

### SliceGroups and SliceCoding

`SliceGroups` has the generators, `SliceCoding` the loops. `StoreMacroblock` and `writeMBHeader` are what a
macroblock puts into the bitstream: skip run or flag, field flag, its own bits; `terminate_macroblock` decides by
the mode of slicing (`ByMode`, `TooMuch`) whether the slice ends, takes back what did not fit and restores the
position. The decoder reads elements from the same sequence, and an element it does not expect, or at
a position that was not written, sets `failed`. A coded macroblock is the size of its bits.

### Macroblock syntax

A macroblock is a record of what the programs keep of it in `Macroblock` and in `img`: type, modes and
directions of its 8x8 blocks, intra modes, references, vectors, pattern, quantiser, coefficients by block.
The writer makes a sequence of decisions of it: a decision is a context, with its number in the
context's table, and a bit. `Binarisation` has the codes (unary, exp-Golomb, the trees of the types); the
writer's functions choose the context from the neighbours of its picture, the reader's, which are
translated from the decoder, from the macroblocks it has read. A decision that is read in another context than
it was written in clears `ok`: the arithmetic decoder would go astray from there.

Without CABAC the writer makes code words, each for one of three partitions (`assignSE2partition`), and the
reader has nothing but the bits of each. `VariableLength` has the tables of `vlc.c`: the encoder indexes lengths
and bits, the decoder searches for the entry that matches (`code_from_bitstream_2d`); TLC evaluates the assumption that in
no table a word begins another. Which table is used depends on the counts of coefficients of the neighbours
(`predict_nnz` in each program), the level table on the levels before, the tables of zeros and runs on what is
left; `nz` is the decoder's `nz_coeff`, reset for a skipped macroblock and for blocks that are not in the
stream. Bits left over in a partition, or taken beyond its end, clear `ok` too.

`MacroblockSyntax` writes four macroblocks, two in a row, in one slice or two, and reads each one as soon as it
has been written. The mode decision is external: `Chosen` makes up modes, references, vectors and
coefficients from a seed, and keeps only what the decoder relies on, that intra modes use neighbours there
are. `reading` is the decoder: its macroblocks, and `last_dquant`, which outlives them. Frame macroblocks
only, without PCM and SI.

### ArithmeticCoder

The whole of `biariencode.c` and `biaridecod.c` with their tables: 64 states, range of 9 bits, bits
outstanding, bits out, the terminating decision, and the decoder that reads ahead. The loop that renormalises is
seven turns of `Doubled` (`Refill` in the decoder), since no range falls below 2. The codeword ends with the stop
bit of the slice, and the decoder reads on beyond it: its buffer is used for one unit after another
(`image.c:598` copies the payload over what is there), so `StaleBits` may follow. `Lengths`
repeats a decision so that states far from the start and long runs of outstanding bits occur.

### WaveRing

The driver fills buffers in the order they were added and posts `WIM_DATA`; the callback runs
step by step (`AddBuffer`, `Playback`, which reads the length of the frame from a header that the driver has
been given again, two halves of `Copy`, `Write`) while the driver goes on; the driver may fail a call, also one
of those that add the buffers at the start. It is taken to write `dwBytesRecorded` when it reports a buffer, not when
it is given one. `os_sound_close` closes call by call at any moment.

## 3. Runs

| run | instance | shows | distinct states |
|---|---|---|---|
| `semaphore` | two takers (one tries too), two posters, `maxCount` 1 or 2, spurious wake-ups, timeouts before and after the signal | no call does what the abstract semaphore does not allow; the count stays in range; with `maxCount` 1, until a signalled wait times out, no token lies beside a sleeper nobody has been woken for | 521 796 |
| `sem_assertion` | a waiter, a thread that only tries, a poster | `assert(sem->count > 0)` fails | violation |
| `event` | two waiters, one that signals, resets and pulses; manual and auto; spurious wake-ups, timeouts before and after the signal | nobody is stranded beside a signal; a signal or pulse of a manual event wakes every sleeper at once, and each returns | 58 568 |
| `thread` | the owner with every call, another that waits and polls, the worker, which may leave through thread_exit | who joins, what closing leaves, every call returns | 26 931 |
| `singleton` | two threads, two classes | one object, no dangling pointer, every call returns | 9 513 |
| `transport_stream` | packets of 4 bytes in chunks of 1 to 9, a stream of 100 bytes that begins within a packet and has sync bytes inside others; two programs with tables in two or three versions; frames of 1 or 2 packets and two faults | every packet once and in order; a PID reaches its own stream; frames are delivered whole and from their start; the counter finds the stream again and keeps it | 165 945 |
| `dpb` | 3 frames, 2 references, `frame_num` modulo 4, reordering by 1; gaps of up to 2, or two commands a picture beyond those it needs with two long term indices | references, window, gaps, indices, the frame a command names, order, no error, storing ends | 231 862 |
| `poc_wrap` | type 2, a non-reference picture at `frame_num` 0 | the offset is counted twice | violation |
| `wave` | three capture buffers, two playback headers, five frames, one failing call, at the start or later, close at any time | frames are heard whole and in order unless the callback is late or a header still plays; nothing is lost without a failed call | 5 415 232 |
| `coding` | each part of the H.264 stream alone (below) | what one program writes the other reads | 946 050 |
| `partition_loss` | one partition lost | the slice is decoded with the partition of the one before | violation |
| `slice_rate` | slices by size with variable length codes | a macroblock taken back leaves a position behind | violation |

The parts of `coding`:

| part | instance | property |
|---|---|---|
| stream | two units of up to 4 bytes over {0, 1, 3}, padding, extra zeros | `PayloadsSurvive` |
| headers | three changes of thirty-odd fields around parameter sets and two slices | `HeadersAgree` |
| slices | three pictures of two slices, one set changed or sent again, between any two slices, one slice lost | `SlicesFindTheirPicture`, `SetsAreThoseSent` |
| lists | three frame stores of nine kinds, two commands, active lengths 1, 2 and 4 | `ListsComplete`, `MovedToFront` |
| neighbours | 3 x 4 macroblocks, two slices, frame, field and MBAFF, all filter modes | `NeighboursAdjoin`, `EdgesFiltered` |
| macroblocks | up to 4 macroblocks or 3 pairs; both entropy coders; every mode of slicing and every map | `SlicesDecodeAsCoded`, `GroupsEvolve` |
| counts | all types, changes of type, `frame_num` modulo 4 wrapping three times, low part below 8, high part from -2 to 2 | `PocCorrect` |
| syntax | four macroblocks, two in a row, cut into two slices anywhere or not; I, P and B, up to three references, constrained intra prediction, rate control; CABAC and CAVLC, in one partition or three; up to thirty contents beside a few others | `MacroblocksReadAsWritten` |
| bins | three repetitions of a decision in two contexts, by-pass or terminating | `DecisionsSurvive` |

Every property has at least one mutant: an operator beside the one it stands for
(`semaphore_post_late_signal`, `Slid_late`, ...) that makes a plausible mistake in the
code, with which the property fails.

### Bounds

- Threads: the races of the wrappers need a sleeper, somebody who takes its place, and
  somebody who wakes; two of a kind and a third cover them. For the semaphore and the
  singleton the theorems lift the bound.
- `Capacity = 2` in `semaphore` lets a semaphore be created with `maxCount` 1 or 2, and be destroyed and created
  again. `NoStrandedWaiter` and `TokenIsTaken` are about a `maxCount` of 1 and runs without `late`; those are
  restrictions, without which they are false (section 5).
- The false sync bytes in `transport_stream`: inside a packet at three different places, none before the first
  whole packet, where the code would take it for one (section 5).
- `MaxUnits = 2` with two faults lets the link lose or repeat a packet, and fail again while the decoder has not
  recovered; the theorem about frames holds for every length. `NORMAL_FRAME_LEN = 1` makes the buffer grow. The continuity counter has its real 16
  values; two faults can fall into one frame or into two that follow each other, and are fewer than the counter
  has values, which `FramesArriveIntact` shows to be what matters.
- `PacketLen = 4` and chunks of 1 to 9: a chunk may be shorter than what is missing,
  complete a packet exactly, or contain several.
- `size = 3`, `num_ref_frames = 2`, `MaxFrameNum = 4`: the buffer is full with one frame
  that is no reference, the window slides, and `frame_num` wraps while old frames are
  still in the buffer. `num_ref_frames + Reorder` is `size`: the buffer is just large enough. Order counts are
  bounded by `MaxPoc` between two resets. `DpbProofs` lifts all these bounds.
- `MaxCommands` counts the commands a picture carries beyond those that make room for
  it: two are enough for every pair of commands to meet in one picture.
- `MaxAbs`, `MaxMsb`: three wraps of `frame_num` and both directions of the high part. The
  theorems of `PictureProofs` do not depend on them.

- `LastBytes = {1, 3, 128}` and `Bytes = {0, 1, 3}`: the values escaping tells apart, and one that it does
  not. `PayloadsArrive` in `CodingProofs` holds for any bytes, lengths and numbers of units.
- In `slices`, the second parameter set is fixed to begin with; the first takes every content. Two pictures
  make every pair of headers; the third meets what a loss left.
- In `neighbours`, columns to the left, in the middle and to the right, two rows of pairs, and slices that
  begin at any macroblock give every relation of a pair to its neighbours. In `lists`, three stores make a short and two long
  term ones, and both fields with a single one on each side; `PictureProofs` lifts these bounds. It also lifts the size and the
  number of slices for `NeighboursAdjoin`, as `CodingProofs` lifts the bounds of `slices`.
- The setups of `macroblocks` leave out what section 5 shows to fail: slices by size with variable length
  codes (`slice_rate`), CALLBACK with variable length codes, an odd `FIXED_MB` with MBAFF, `FIXED_RATE` with MBAFF.
- `bins`: two contexts of P slices at `Qp` 28, one that begins in the middle of the states and one near their
  end, and nine repetitions of a decision; nothing, or 0 and seven ones, behind the codeword. `CodingProofs` lifts all of it.
- `syntax`: the first macroblock and the last have one content, the second another, the third either; so each
  content is without neighbours, beside its own kind and beside the other, and has a neighbour in
  another slice. Contents have every type, every 8x8 mode and direction, every kind of pattern; levels
  reach both ends of a block and beyond 14, where the code changes to exp-Golomb; vectors reach the sums 3 and 32 that
  choose a context, and beyond 8, where the vectors' code changes.
- Rate control in `syntax` is of one slice: section 5.
- CAVLC in `syntax`: four settings, so that each of intra, P with references skipped because all are the first,
  one bit references, exp-Golomb references, and B with direct blocks is there. Counts of coefficients reach
  every table; levels reach both escapes and the tables up to the sixth (2000, 300, 2047). Levels that do not
  fit an escape are left out: section 5.
- `MAX_IN_BUFFERS = 3`, `USED_OUT_BUFFERS = 2`: the ring of buffers goes round twice in five frames.

### Fairness

- `Semaphore`, `Event`, `Singleton`: weak fairness of every thread's steps inside a call.
  A critical section is one step, so a thread that waits for the lock is never
  disabled by another; it is what a scheduler that runs every runnable thread gives.
  A step from outside (a post, a call) is never promised.
- `Thread`: `access_mut` is held over several steps here, so a thread that wants it can
  be disabled again and again. Strong fairness says that it gets the lock if the lock
  keeps becoming free; the pthread mutex of Linux does not promise it formally, but
  holders leave it for good after a bounded number of calls of their own. The worker
  keeps being scheduled and its function returns. Timeouts expire.
- `TsPes`: the source keeps sending. `Dpb`: the decoder is one sequential program.
- `TsTable`, `TsFraming`, `WaveRing` and the parts of `coding`: none, safety only.

Deadlock is checked except where the program really stops: after a failed assertion
(`semaphore`), at the end of the input (`transport_stream`, `coding`, `partition_loss`, `slice_rate`), when
both devices are closed (`wave`), and when the worker has left through `thread_exit` and its waiters stay
for ever (`thread`).

## 4. Theorems

All for any number of threads, any ranges and sizes and any length of a behaviour; what a theorem assumes of the
constants, and what a model's own `ASSUME` says of them, is named with it. TLC checked every inductive
invariant on the instances of section 3 before it was proved.

`SemaphoreProofs`
- `TypeCorrect`, `CountStaysInRange`: from `IInv`, which is the type invariant, the fact that
  a sleeper is in a waiting call and a thread in the lock in some call, and the range
  of the count.
  The range holds although `Resume` does not test the count, because the assertion stops
  the process before the decrement.
- `SafeImplementation`: every step is a step of `AbstractSemaphore` or changes nothing it
  sees. One lemma for each kind of outcome, then a case for each action.
- `AssertionHoldsForOneTaker`: if one thread takes tokens and there are no spurious
  wake-ups, the assertion cannot fail. The invariant is that a signalled taker has
  a token waiting for it: nobody else could have taken it. `sem_assertion` shows that the
  condition cannot be dropped.
- `NobodyStranded`: with a `maxCount` of 1, and until a wait times out after it was signalled, no thread sleeps beside a
  token unless another has been woken for it. `OneTakerIsServed`: with one taker the same holds for every `maxCount` and in
  spite of such timeouts. Both from `Served`.

`SingletonProofs`
- `TypeCorrect`, `OneInstance`, `NobodyDangles`. The invariant says that whoever is in the
  guarded block holds the lock (`GuardHeld`), that who is between the second test and the
  assignment found no instance (`NothingYet`), and what objects there are in each of these
  cases (`Objects`); `AtMostOneInstance` alone is not inductive.

`PictureProofs`, about `Poc`
- `CountsAreKept`: what the decoder keeps for the active type makes up the stream's count:
  for type 0 its two parts are the stream's; for type 1 offset and last number add up to
  the number of reference pictures; for type 2 to that of the last reference picture. The
  lemma `MsbFindsIt` is the arithmetic of type 0: within half the range of the last count
  there is one count with given low bits, and `Msb` finds it.
- `OrderCountsCorrect`: every picture gets the count the stream means, `PocCorrect`. For type 1 that is an induction: the
  closed form over cycles (`Expected`) is the sum that goes step by step (`Ideal`) for every number of references.
  `Induction` derives it from the library's least element of a well-founded set (`WFMin`), for sets of naturals and
  so without an operator as parameter; `SumsExist` and `SumToIs` do what is needed of the recursive function.
- Assumed of `Poc`: no command 5 in type 0 and no non-reference picture with `frame_num` 0 in type 2.
  Both are needed (section 5).

`ThreadProofs`, about `Event` and `Thread`
- `EventTypeCorrect`, `NobodyStranded`: `NoStrandedWaiter` together with the types is inductive; no bound on
  the threads is needed.
- `BroadcastWakesAll`: `WakesAll`, the half of `PulseReachesSleepers` that is about the step of `event_signal` or
  `event_pulse`: it wakes every sleeper of a manual event.
- `ThreadTypeCorrect`, `InvalidHasNoWorker`, `ClosedIsJoined`, `JoinsAreSerialised` from one invariant, `IInv`,
  for any finite set of threads (`ThreadsAssumption`; the counter of a thread counts them). Its parts:
  `CountExact` (`i_wait_count` is the number of threads that counted themselves in and not yet out),
  `LockOK` and `OneUnderAccessMut` (`holder` is the one thread in a section that blocks), `Alone` (nobody else is
  inside while the owner creates or closes), `ValidOK` and `DestroyedOK` (what `is_valid`, the event and the mutex
  are in each phase). `InvalidMeansEnded` alone is not inductive: who may clear `is_valid` depends on the counter,
  and the counter on every thread's place.
- `WaitIsForTheEnd`: `thread_wait` returns only after the worker is over, without spurious wake-ups
  (`~Spurious`; with them it is false, section 5).

`TransportStreamProofs`, about `TsFraming`, `TsTable` and `TsPes`
- `PacketsFoundOnce`: for any length of packets and chunks, in order, and wherever in a packet there is another sync
  byte. `FramingInv` adds to the property where the next
  packet begins relative to what is kept, and that nothing begun before the kept bytes is still missing.
- `EveryPidHasItsSlot`: the map of PIDs and the slots are each other's inverse. `StreamsFoundBySlot` needs besides
  that every program in the list is the one its slot names (`ListedOK`) and that the entries of a PMT are those of
  the last version (`StreamsOK`), which holds as long as streams keep their places in it (`PlacesStay`, section 5).
- `FramesBeginAtStart`; `FramesArriveIntact`, for fewer faults than the continuity counter has values
  (`MaxFaults < CC`). The invariant `GatheredIntact` relates the gathered units to the source: while the decoder
  has noticed nothing, what it has gathered is a beginning of a frame, and the distance of the two counters is the
  number of packets lost since, which the faults bound.

`DpbProofs`
- `DpbTypeCorrect`: types, and what each phase knows of the picture in hand (`PhaseOK`).
- `ReferencesBounded` (`RefsOK`): at most `num_ref_frames` references, with room for the one to be stored in every
  phase in which one will be. The lemmas about removal and marking (`RemovedIs`, `SameReferences`, `Remarked`) say
  that frames which are no references come and go without touching the others.
- `IndicesAreDistinct` (`LongOK`): besides the property, the index given to the picture in hand is free and within
  the maximum, and the numbers of long term frames are up to date while commands are carried out.
  `UnmarksTheNamed` follows; it needs a slice that renews those numbers (`~Intra`, section 5).
- `WindowInOrder` (`OrderOK`): numbers modulo `MaxFrameNum` have no order, so the invariant measures the *age* of each
  short term frame, how many numbers were given after its own. Ages fall along the buffer, none is so high that its number
  could come again before the picture in hand is stored, and without commands they are 0, 1, 2 and so on. It needs that no
  number is skipped after a non-reference picture (`~GapAfterNonRef`, section 5).
- `LegalStreamsDecode` (`OutOK`): none of the four errors. No duplicate number by `OrderOK`; something to output by
  counting: a full buffer holds references, of which there are few enough, and frames that wait; ascending order since
  more than `Reorder` pictures at or above the last one shown are decoded, so that no legal picture can come before it. Needs
  `num_ref_frames + Reorder <= size` and `~GapAfterNonRef`.
- `ShowsInOrder`: the refinement of `PictureOrder`. Each action of `Dpb` shows the picture with the least order
  count, takes one in, begins a new sequence, or leaves alone what a viewer sees (`ViewStep`). Needs
  `~SpsAfterDiscard` besides.

`WaveRingProofs`
- `WaveTypeCorrect`, `NoFrameLost`: by counting, every buffer is with the driver, in a message, in the callback, or lost
  with a failed call (`BuffersCounted`, `FramesCounted`).
- `HeardInOrder`: for any numbers of buffers and headers. `Rings` says that the buffers in the driver's queue are different
  (`Apart`), what each filled buffer holds although it was given back before it was copied and its length read (`Filled`), and that the
  playing headers hold the frames before (`PlayedOK`).

`CodingProofs`, about `ByteStream`
- `PayloadsArrive`: `PayloadsSurvive` for any payloads, padding, start codes and zeros between units. The property
  is not inductive; the invariant, `StreamInv`, says how the file is made: unit `u` stands at `S[u]` up to before
  `T[u]`, after zeros and a start code (`UnitLaid`, `Laid`), and carries its payload (`Carries`): its bytes hold no start code,
  the last is not 0, and `EBSPtoRBSP` gives the payload back *from every buffer that begins with them*, so that what lies
  behind does not matter. `UnitEndIs`: the decoder's search ends where the unit does. `StillLaid`: a unit put behind the
  others moves none of them.
- That a unit carries its payload is about the two loops. `EscapesKeep`: what is escaped so far has no start code, and
  `count` is at least the number of zeros it ends with (`EscapedOK`). `ReadsBack`: reading behind the escaper by a whole number of
  bytes, the decoder has the payload so far and the same count (`EscapeKeeps`, `DecoderStep`). `StuffingRead`: the words of
  padding, read behind a payload, give zeros and one byte more, that behind the unit. Each is an induction over the bytes,
  by `Induction` over the states of the loop.
- It assumes of the constants what the code has: bytes of 8 bits, a last byte and a header that are not 0
  (`StreamAssumption`).

`CodingProofs`, about `SliceReader`
- `SetsAreCurrent`, `SlicesInTheirPicture`, `PartitionsAreOwn` from one invariant, `ReaderInv`, for any parameter sets and
  their contents, any number of pictures, slices and losses. `SetsKept`: the sets the decoder stores are those
  sent, and while a picture is open the active ones and the sizes in `img` are still its own. `PicturesOK`: `old_slice`
  either belongs to the picture being sent, and then is not told apart from its next slice, or is told apart from
  it (`OldSliceOK`: `SamePicture`, `Differ`), whatever was lost between them; the open picture is that of the last
  slice and the stored ones are older (`OpenOK`, `Ascending`); every slice decoded is in one of them (`Kept`).
  `PartitionsOK`: the partitions that have come are those of the slice. None of the three properties is inductive: what
  the next slice is compared with was left by the one before, and a set that comes between two pictures closes the
  open one only if it is in use. One that comes between two slices of a picture is not in use or is what it was
  (`SetsOfPictureStay`, `ActiveWithin`), and changes nothing of the picture.
- Their hypothesis is `[]SomethingArrives`: the network loses no partition without the rest of its slice (`partition_loss`
  shows why) and no picture whole. `FewLosses` shows that the network of the run `coding` is of that kind. A lost
  picture breaks `SlicesFindTheirPicture` (section 5).

`CodingProofs`, about `ArithmeticCoder`
- `DecisionsAreRecovered`: `DecisionsSurvive` for any quantiser, contexts and series of decisions, and whatever follows
  the codeword. A codeword *fits* a state of the encoder (`Fits`) when it begins with the bits that are settled and
  the outstanding ones, either way they may be settled, and the bits after them, read as a number, lie in the interval
  from `low` of length `range`. The encoder only ever narrows the interval, so a codeword that fits a state fits the
  states before it (`FitsAll`, by an induction backwards over the decisions), and the one that is written fits the last
  state whatever is read behind it (`DoneFits`). The decoder's `value` is where in the interval the codeword lies
  (`Tracks`): it is below the border of the more probable decision exactly if that one was coded (`Answered`).
- The invariant, `BinsInv`, is not about the encoder's present state but about its history, the states after each
  decision (`InCoding`); while decoding, the decoder tracks the one of these that it has reached (`InDecoding`).

`PictureProofs`, about `RefLists`
- `InitialListsAreComplete`: `ListsComplete` for every buffer. `SortedIs` says of sorting that it exists and has
  every store once (`SortedExists` takes the largest key away, `GreatestExists`); `SourceIs` is the arithmetic of
  taking fields in turn, a bijection from the places of two lists to those of one, and `GeneratedAre` with
  `FramesAre` makes of an order of stores an order of pictures; `FrameList` and `FieldList` put short and long
  term references together. `SwappedIs` is what happens when the two lists of a B slice would be the same.
- `NamedPicturesComeFirst`: `MovedToFront` for every length and any number of commands. The property is nearly inductive: `ReorderInv`
  adds what the list's length and entries are. A step is `ReorderIs`, about sequences only: moving a picture to place `m`
  and closing the gap leaves the other pictures in their order. If the rest of the initial list ends before the list
  does, it is the front of what the loop passes over; otherwise what the loop passes over is the front of the rest, it loses
  one entry at most (`EntriesLess`) and that is the one which falls off the end. `NumbersDiffer` says that a command
  names one picture: no two short term references have the same `pic_num`, no two long term ones the same `long_term_pic_num`.
- `EntriesTwice`, `EntriesFront`, `EntriesPicks` and `EntriesDifferent` say what `EntriesIn` keeps of any sequence. They are
  inductions over the length of sequences, by `GrownByOne`: a set of sequences that has the empty one and is closed
  under `Append` has them all.

`PictureProofs`, about `Neighbours`
- `Adjoining`: `NeighboursAdjoin` for pictures of any size, with pairs or without, however their macroblocks are cut
  into slices and whichever pairs are fields. The invariant `NeighbourInv` says of the slices that their numbers do not
  fall with the address (`SliceNumbers`), that both macroblocks of a pair are of one kind and one slice
  (`PairsAgree`), and how far decoding has come (`Begun`, `NoneLeft`): "the same slice" is tested by a number, and that a
  number left in `mb_data` is no other slice's must be known of every address.
- The geometry is in lemmas without states: `SideIs` (`CheckAvailabilityOfNeighbors` finds the macroblock or pair
  at the next row or column, or none beyond the picture's edge), `FrameNeighbour` and
  `PairNeighbour` (in which macroblock and row the sample falls, with `LeftIs` and `AboveIs` for the some twenty cases
  of frame and field), `PairPlace` (which sample of the picture that is).
- `EdgesAreFiltered`: `EdgesFiltered` for the same pictures and any filter modes. `FilterLeads` says where the neighbour that
  the filter takes lies, `LeftEdge`, `UpperEdge` and `SecondEdge` which edges `DeblockMb` adds, `FilteredIs` that together they are
  those expected. `FlagsInv` says that in a macroblock that is decoded and not yet filtered the flags are what
  `CheckAvailabilityOfNeighbors` would find now, so that it does not matter when they were found. The expectation speaks of the slices of the neighbours, so `ExpectingSame` shows that no later step
  changes what it depends on.

Only model-checked:
- liveness under fairness, which the provers do not reach: `TokenIsTaken`, `PulseReachesSleepers` (that who is woken returns), `CallsReturn`,
  `InstanceReturns`, `Resynchronises`, `StoreReturns`;
- the other modules of `coding`. `SliceGroups`, `SliceCoding`, `HeaderSyntax`, `Binarisation`, `VariableLength` and
  the macroblock modules use RECURSIVE operators, for which there is no SMT backend. What an operator of the
  community modules that takes an operator does with every sequence is an induction over data. `Induction`
  (in `PictureProofs` and `CodingProofs`) replaces such an induction for a set of naturals, and `OrderCountsCorrect`,
  `DecisionsAreRecovered`, `PayloadsArrive` and the theorems about `RefLists` rest on it, but it needs a function or a
  history in the place of the fold.

## 5. What the code does that its comments or its use deny

Four runs end in a violation, on purpose: `sem_assertion`, `poc_wrap`, `partition_loss` and `slice_rate`. Their
texts in `PROJECT.json` quote the lines. The following are shown by changing one constant or one
definition of a passing run; the passing run excludes the case by that constant, or the property by its condition.

- `NoStrandedWaiter` without `maxCount = 1` fails: a post signals only when the count becomes 1
  (`semaphore_linux32.cpp:192`), so two posts may wake one of two sleepers.
- `NoStrandedWaiter` without `~late` fails: a timed wait that was signalled and reports the
  timeout (`semaphore_linux32.cpp:87`) leaves the token and wakes nobody else.
- `GapAfterNonRef = TRUE` in `dpb`: `WindowOrder` fails. `image.c:874` sets
  `pre_frame_num` for a picture that is no reference, and `fill_frame_num_gap` starts after it.
- `SpsAfterDiscard = TRUE` in `dpb`: `ImplementsOrder` fails. `parset.c:339` reads the
  flag of the last IDR picture before that of the new one has been parsed.
- `Intra = TRUE` in `dpb`: `MarksNamedFrame` fails. `long_term_pic_num` is set by
  `init_lists` of P and B slices only, and `mbuffer.c:1642` compares with it.
- `Mmco5Types = {0, 1, 2}` in `coding`: `PocCorrect` fails. After command 5 `header.c:580` predicts from
  `img->toppoc`, which the command leaves.
- `Spurious = TRUE` in `thread`: `WaitMeansEnded` fails. `event_wait` is an `if` and not a loop.
- A worker that sets its own priority while another thread is in `thread_timedwait`: the wait
  times out, the last one out joins with `access_mut` held, the worker waits for that lock;
  `CallsReturn` fails.
- A thread that tests `is_valid` before the join and counts itself in after it joins a second
  time; the model lets the join return.
- An auto reset event loses a signal that arrives between the timeout and the return
  (`event_linux32.cpp:221`), since a timed wait resets the event whatever it returns: no property says that a signal
  of such an event ends a wait.
- With spurious wake-ups one signal of an auto reset event may end two waits (`event_linux32.cpp:160`).
- `transport_stream` with fewer slots than its tables name reaches the `assert(false)` of
  `DecodeMpeg2ts.cpp:296`: a slot is never given back.
- A chunk shorter than what is missing of the kept packet is read beyond its end
  (`DecodeMpeg2ts.cpp:80`): `EveryPacketOnce` is stated up to that chunk.
- A sync byte before the first whole packet is taken for the start of one (`DecodeMpeg2ts.cpp:91`), and the packets
  of that chunk are analysed out of place: `TsFraming` assumes none there (`FalseSyncsAssumption`).
- A frame of one packet that announces its length is delivered twice when the link repeats the packet
  (`DecodeMpeg2ts.cpp:232`): no property denies it.
- A frame whose buffer grows or is replaced while it is gathered is delivered damaged
  (`DecodeMpeg2ts.cpp:239`, `:420`): `DeliveredIntact` excepts it.
- The first packet of a frame clears `nTsPacketLost` even when it is itself out of step, so a loss that brings the
  counter round within one frame goes unnoticed: `DeliveredIntact` is stated for frames gathered in step.
- A new version of a PMT that lists its streams in another order leaves slots that point to another stream's
  entry: `SlotFindsOwnStream` is stated for streams that keep their places (`PlacesStay`).
- `coding` with one parameter set and as many losses as a picture has slices: `SlicesFindTheirPicture` fails. With order
  counts of type 2, an IDR picture between two pictures that are no reference and have the same `frame_num` is lost whole;
  `is_new_picture` sees no difference, and the slices of the second go into the first.
- A PPS that names another SPS than the one in use, or changes it, is followed by an IDR picture in `SliceReader`, as a stream
  must: the decoder does not check it.
- `num_ref_frames + Reorder` above `size` in `dpb`: `NoError` fails. The decoder takes the size of its buffer from level
  and picture size and does not look at how far a stream reorders.
- `redundant_pic_cnt` is written (`lencod/src/header.c:154`) by a flag of the slice that the PPS does not
  carry to the decoder: `HeaderSyntax` keeps it off.
- A setup of `macroblocks` with CALLBACK and variable length codes: the last skip run of a slice is not
  written (`lencod/src/macroblock.c:664-677`), though the comment at `:715` says it is.
- A setup with MBAFF and an odd `FIXED_MB`: a slice ends between the macroblocks of a pair and its skip run is
  written at the upper one (`:601`, `:751`).
- After the last pair the loop over macroblocks compares with a group it looks up at `MBAmap[-1]`
  (`lencod/src/slice.c:484`). `EndsBehind` takes either outcome; the slice has ended by then.
- A setup with MBAFF and `FIXED_RATE`: the lower macroblock that did not fit is coded in no slice
  (`lencod/src/slice.c:318`).
- The encoder takes `prev_delta_qp` from the macroblock before (`lencod/src/macroblock.c:234`; `:434` with
  slice groups) though that may be in the slice before, and chooses the context of the change of the quantiser by it
  (`lencod/src/cabac.c:763`); the decoder begins every slice with 0 (`ldecod/src/cabac.c:90`). With rate
  control of basic units and several slices the two differ: `syntax` has one slice with it.
- An escape of a coefficient has twelve bits for level and sign. The encoder puts a larger level over the one
  that ends its prefix (`lencod/src/vlc.c:1080`, `:1129`) and nothing limits the level before. `Escape` does
  what the code does; a level of 2100 for one of the `SeveralLevels` makes `MacroblocksReadAsWritten` false.
- With `disable_deblocking_filter_idc` 2 and MBAFF the edge within a pair of frame macroblocks is not filtered
  when the pair above is in another slice (`loopFilter.c:139`); `EdgesFiltered` says what the code does for it.
- A wave buffer is given back to the driver before it is copied (`wave-test.cpp:75`) and a playback header is
  filled while it plays (`:326`): `HeardAsCaptured` is stated for callbacks in time and headers that are free. The
  length is read from the header after that too (`:82`): `WaveRing` has a driver that does not touch it until the buffer is full.
- A failed `waveInAddBuffer` (`wave-test.cpp:77`) takes its buffer out of the ring for good.

## 6. Not modelled

Failures of pthread calls other than `pthread_create`; deadlines as numbers (a timed wait
may time out at any moment, so the 32 bit overflow of `1000 * msec` has no effect); weak
memory; fields and field pairs in the picture buffer and in `decode_poc`;
field and MBAFF macroblocks in the macroblock syntax, PCM and SI macroblocks; what a macroblock is predicted
from; the demonstrations. `PROJECT.json` gives the reason for each.

Most lines of the repository are outside on purpose. The JM encoder and decoder are nine tenths of them,
and most of theirs compute samples: interpolation, motion search over three search strategies, transforms,
rate-distortion decisions, rate control in floating point, concealment by averaging. They keep no state that an
order of events could disturb, and what they should compute is a standard that is not in the
repository; a model of them would repeat their formulas. Tables of constants (context initialisation,
quantisation) and the reading of configuration files are the next largest part. Where encoder and decoder
have the same function twice (`mbuffer.c`, `fmo.c`, `mb_access.c`, `loopFilter.c`), one of them is mapped.

## 7. Plan

1. `Dpb`: fields and complementary pairs (`insert_picture_in_dpb`, `direct_output_field`,
   `dpb_split_field`, `dpb_combine_field`), and marking of single fields; `RefLists` over that buffer instead
   of one of its own.
2. `MacroblockReader` and `MacroblockWriter` for field and MBAFF macroblocks; then
   `SliceCoding` over them instead of over sizes.
3. An abstract managed thread that `Thread` and the Windows wrapper implement.

Proofs to come: `HeadersAgree` and `GroupsEvolve`, once the recursive operators of `HeaderSyntax` and `SliceGroups` are
functions of a position, as in `ByteStream` and `RefLists`.

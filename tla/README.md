# haste: a verification project

haste parses Source 2 replays ("demos"), recorded to a file or broadcast live over HTTP. This
directory holds TLA+ modules that model its stateful parts, configurations that check them with
TLC, and theorems about them that TLAPS checks. Paths below are relative to `src/`;
`core/` stands for `crates/haste_core/src/`, `broadcast/` for `crates/haste_broadcast/src/`.

To check a module: `tlc -config MCPlayback.cfg MCPlayback`. To check proofs:
`tlapm PlaybackProofs.tla`. `PROJECT.json` lists the runs, the map from definitions to source
lines, the hazards, the findings, and one mutant of the code for every property.

## 1. Inventory

| Component | State it keeps | Operations | What it talks to |
|---|---|---|---|
| parser run loop (`core/parser.rs`) | ticks, full packet interval, containers; locals of a seek | `run`, `run_to_end`, `run_to_tick`, `reset`, `handle_cmd*` | reads a `DemoStream`, calls the `Visitor` |
| message handlers (`core/parser.rs`, `stringtables.rs`, `instancebaseline.rs`, `entities.rs`, `entityclasses.rs`) | string tables, baselines, serializers, classes, entities, cached baseline entities | one handler per message, create/update/delete of entities, `do_full_update`, `clear` | baselines share the memory of string table items |
| demo stream (`core/demostream.rs`, `demofile.rs`) | stream position, cached last tick | read/skip/unread a command, seek, scan for the last tick | borrowed by the parser |
| live client (`broadcast/broadcasthttp.rs`) | `StreamState`: fragment, retries, catch-up flag, next fetch | `start_streaming`, `next_packet` | an HTTP client, time; its future may be dropped |
| broadcast buffers (`broadcast/broadcasthttp.rs`, `demostream.rs`) | last packet, or a cursor over all packets; cached last tick | the `DemoStream` operations on them, `next_packet` | written by `next_packet`, read and sought by the parser |
| recorded broadcast (`broadcast/broadcastfile.rs`) | a reader | delegates to the functions of `demostream.rs` | |
| field paths (`core/fieldpath.rs`) | the Huffman tree; the path of an update | forty operations, `read_field_paths` | bit reader, entities |
| serializers (`core/flattenedserializers.rs`, `fieldmetadata.rs`, `fielddecoder.rs`) | fields and serializers, kept by number and by name while they are parsed, shared and immutable afterwards | `parse`, the meaning of a type, the choice of decoder | variable types, entities |
| entity fields (`core/entities.rs`, `fxhash.rs`) | the values of an entity by key; the parsed baseline of its class | `parse`, `handle_create`, `handle_update`, `get_serializer_field`, `fkey_from_path` | walks the serializers along the paths of an update |
| quantized floats (`core/quantizedfloat.rs`) | flags, bits and range of a decoder | construction, `decode` | field decoders |
| string history (`core/stringtables.rs`) | the ring of an update's last keys, and the buffer in which a key is put together | `parse_update` | the string table that it fills |
| bit reader (`core/bitreader.rs`) | position, and whether the overflow was checked | reads of every encoding; asserts in `Drop` | everything that reads bits |
| variable types (`crates/haste_vartype`) | a token that was given back | tokenizer and parser of type names | serializers |
| tools, examples | none | consume the library | |

The parser is synchronous: it borrows the stream exclusively and calls the visitor on its own
thread. Concurrency exists in the live client, between the awaits of `next_packet`, the relay
that publishes and withdraws frames, the passing of time, and a consumer that may drop a call.

What is hard here, and what each part has to guarantee:

* *Seeking.* A seek skips packets and relies on full packets to make up for them. Skipping too
  much loses state, and the loss shows much later, as undefined behaviour in an unchecked access
  of an entity. The seek must land exactly, and with the state of the linear replay.
* *Shared memory.* Baselines refer to the memory of string table items that updates write in
  place and full packets replace; the two must never part. A reset must not bring along anything
  from the recording's future.
* *Retries.* The live client must deliver every frame once and in order in spite of late
  answers, stale 404s, dropped calls and a relay that falls silent, without storming the relay,
  and must tell its consumer the end.
* *One cursor, two users.* The seekable buffer is written and read through one position.
* *Errors.* A visitor, a decoder or the reader may fail at any call, half way through a command, and
  the caller may go on playing.
* *Paths.* Forty operations mutate one path in place, in modular arithmetic.
* *Fields.* A path of an update leads through serializers, vectors, arrays and pointers whose
  children are taken unchecked; one step too few or too many reads other bits. Fields are shared
  by serializers, and resolved when the first of them is parsed.
* *Left-over memory.* The keys of string tables are put together in a buffer that is never
  cleared, from a ring whose positions have to be those of a list that shifts.
* *Positions.* The file info of a demo is read by moving the one position that commands are read
  from, and reading a header too far is repaired by moving it back.
* *Late checks.* Bits are read without a look at the end of the data, and checked when all was
  read; what was read is used before that.

`PROJECT.json` lists the hazards one by one, at the line where each bites.

## 2. Modules

| Module | Models | Extends / uses |
|---|---|---|
| `Playback` | the run loop and the seek | |
| `MCPlayback` | 76 recordings for it | `Playback` |
| `PlaybackProofs` | proofs | `Playback` |
| `PacketStream` | abstract: what `next_packet` promises | |
| `BroadcastHttp` | the live client | refines `PacketStream` |
| `BroadcastHttpProofs` | proofs | `BroadcastHttp` |
| `BroadcastBuffer`, `MCBroadcastBuffer` | both buffers with the parser's reads and the scan | takes its packets from `PacketStream` |
| `BroadcastBufferProofs` | proofs | `BroadcastBuffer`, `Induction` |
| `MessageHandlers`, `MCMessageHandlers` | the containers and the messages that write them | |
| `MessageHandlersProofs` | proofs | `MessageHandlers` |
| `FieldPaths`, `MCFieldPaths` | the Huffman tree, the walk, the forty operations | |
| `FieldPathsProofs` | proofs | `FieldPaths`, `Induction` |
| `Induction` | induction as facts about sets of numbers; powers of two | |
| `TypeExprs` | the expressions that names of types are parsed to | |
| `VarTypes` | tokenizer and parser of the names of types | `TypeExprs` |
| `QuantizedFloat` | floats of a few bits, as operators | |
| `FloatDecoding` | a float's announcement, decoder and values | `QuantizedFloat` |
| `FieldTypes` | what a type means: array, vector, pointer, decoder | `TypeExprs`, `QuantizedFloat` |
| `EntityFields` | the parse of the serializers, then the fields of entities | `FieldTypes` |
| `EntityFieldsProofs` | proofs | `EntityFields`, `Induction` |
| `StringHistory` | the keys of a string table's updates | |
| `DemoFile` | positions and bodies of a demo in a file | |
| `BitReader` | the encodings in a message, and the check that is put off | |
| `DecodingProofs` | proofs of the readers of values, string tables, files and names | `FloatDecoding`, `BitReader`, `StringHistory`, `DemoFile`, `VarTypes`, `Induction` |
| `MCEntityData` | instances of the six machines above, side by side | `EntityFields`, `VarTypes`, `FloatDecoding`, `StringHistory`, `DemoFile`, `BitReader` |

`PacketStream` is where the two halves of the broadcast client meet: `BroadcastHttp` implements
it, `BroadcastBuffer` starts from it.

### Playback

A recording is a sequence of commands with the server's state after each of them; the parser
never reads that state, the properties compare with it. Entities and string tables are slots
that hold a value or nothing. `pos` counts consumed commands, `tick` and `prev_tick` are the
context's, `mode` names the call that is running, and `Flow` is the closure that `run` is given:
`HandleCmd`, `SkipCmd`, `IgnoreCmd` (the closure has handled the full packet itself) or `Break`.
One action is one turn of the loop. `HandleFullPacketEffect` is `handle_cmd_full_packet` with
its condition on the distance to the target. A command may be given up anywhere (`CmdFails`):
behind its body, which cannot be decompressed or decoded, or at any message or callback of it, with
any part of what it says written; `on_tick_end` may refuse too, after all of it. The reader itself may
fail (`ReaderFails`) and then stands at no boundary of commands (`astray`): what is played from there
is anybody's guess, so that the model stops (`lost`), and only a seek, which resets, helps. A recording
may end with headers that cannot be read (`rest`), each of which leaves the reader behind what it
read, or in the last command's body (`cut`). An update of an entity that does not exist is undefined
behaviour in the code (`unwrap_unchecked`); the model stops there (`crashed`).
`missed` (history) says that commands were passed over since the last reset or whole snapshot.

Assumed of a recording (`WellFormed`): deltas tell what the server did, ticks do not decrease,
the sign-on ends with the only SyncTick and creates all tables, and full packets are no further
apart than `full_packet_interval + 100` ticks, which is what `run_to_tick` reckons with.

### BroadcastHttp

`stream_state`, `num_retries`, `catchup`, `due` (`fetch_after` relative to now) and
`stream_fragment` are the fields of `StreamState`. `call` says where the future of `next_packet`
is: between the lines of the loop, sleeping, or awaiting an answer. The relay publishes frames
one by one (`Publish`) and may withdraw them when the match is over (`MatchEnds`). An answer is
made when the request arrives and received later, so it may be stale. `Tick` lets time pass
in units of half a keyframe interval of the checked instance. `DropFuture` abandons a call at
either await. `misses` (the answers 404 that were received for the frame) and `waited` (the time since
the first of those requests was sent) are history. `RetriesPaced` is about the step that sends a
request: after `n` answers 404, not before `n` intervals. A request that is dropped while it is out
is not one of them; it is sent again at once, as often as the consumer likes, because `fetch_after` is
stored only with an answer. `KeepsUp` is about relays that never end the match, answer everything
but delta frames, and publish each of these before the patience for it is over: from such a relay the
client gets all of them.

### BroadcastBuffer

Bytes are cells: a command is one header cell and some body cells, so that a read at a wrong
position yields cells of different commands and can be told from a good one. `Store` is what
`next_packet` does to the buffer: replace it, or write at the cursor, which moves the cursor.
`drains` is the kind of consumer, chosen at the beginning: one that reads the buffer to its end
before it asks for the next packet (the loop of `tools/broadcast/src/main.rs`), or any other.

### MessageHandlers

Plays along a recording: `server` holds the tables as the server has them, a message brings
`tables` up to date, and `PassOver` is an update that a seek skips or a visitor refuses; `lagging` says
that there was one. Nothing keeps the caller from playing on from there (`played_on`): then an
update may name an item that was passed over, which is inserted under its number, without a string
if the update has none, and a baseline may be missing when an entity of its class is created. These two
are undefined behaviour in the code (`no_baseline`), and `NothingMissing` says that they happen to
those only who played on; that classes and tables are missing never happens. Items are
numbered, with gaps if updates were passed over; of an update only new items and new data are told
apart. A full packet is handled by a seek alone, which begins with a reset and skips until then, so
never after playing on. Tables are created where nothing is passed over: during sign-on.
A baseline is the number of
the item whose memory it shares (`Shares`), or memory of its own that no item has any longer
(`Own`), so that writing in place and replacing memory have different effects on it.
`VisitorFails` models an error of `on_packet` or `on_entity` with what `Drop` of the bit readers
then does: `core/bitreader.rs:24-27` asserts, and a second assertion while unwinding aborts. The
run loop's other callbacks hold no reader; their errors are in `Playback`.

### FieldPaths

`Join` builds the tree from the forty real weights, one `pop, pop, push` at a time, in the order
of `Node::cmp`. `read_field_paths` walks it: `WalkOn` takes a bit to a branch, `Apply` takes a
bit to an operation, applies it and stores the path. An operation is described by what it pops,
adds to the last component and pushes; the numbers it reads come from `Numbers` and `Varints`.
Legality of the bits (no more than `Components` components, no pop of what is not there, no
component beyond `Base - 1`) is a precondition, as in the code, which indexes and would panic.

### EntityFields, FieldTypes

First the announcement is parsed, one field per step: `ReuseField` finds a field that another
serializer has parsed, `ParseField` makes one, with its metadata (`FieldTypes`: the visits of the
type's expression) and its serializer, the newest that is known under its name, or one that is
made up for the elements of an array; `FinishSerializer` keeps a serializer under its name, in
place of an older version. Then entities are created, updated and deleted: `Walk` follows a path
from the class's serializer to a field as `Entity::parse` does, hashing names and indexes on the
way, and the value that is stored remembers path, datum and decoder. The server's side is written
down without serializers: `ServerNodes` is a tree of paths, each with the type it has, and a node
derives its children and the decoder of its value from that type alone. A child that does not
exist is undefined behaviour in the code; the model stops there.

`Announcement` is what is assumed of every message: it names fields that are there, its types are
types, arrays have elements, and different names have different hashes. `Usual` describes
the messages for which the code was written: every version of a serializer before its first use
(`Ordered`); no array of arrays or pointers, and a serializer for the two idents that are known to
be vectors (`Plain`). `EntityAsSent` needs the fields of a serializer to have different names as well
(`Distinct`), since the name is all that a key has. The messages that are not usual are explored
too, and show that `Usual` is needed. `ResolvedAtFirstUse` is about all of them: what a field
descends into was settled when the first serializer that has it was parsed.

`MaxNesting` bounds how deep types are nested, `MaxDepth` how deep the server's fields are inside of
each other; the visits of a type, the tree, and the walks along paths and updates are recursive
functions up to these bounds or to the length of a sequence.

### VarTypes

The tokenizer works on characters, of which every class has a member. A call of the recursive
descent is a frame on a stack; a step is a token that the innermost call asks for, a token that
it gives back, or its return. The reference is the grammar, read bottom-up where the parser goes
top-down: `Spelt` is a chart of what each run of tokens spells, told by its last token and by what
shorter runs spell. `Viable` says that some type begins with these tokens: there is an ending for
what they began last, after which closing all open angles makes a type.

### QuantizedFloat, FloatDecoding

Values are integers that count units so small that everything that is computed in exact
arithmetic is a whole number of them. Where the code depends on how `f32` rounds (a product that
is cut off, a comparison for equality), the model takes both outcomes.

### StringHistory

The server keeps a list of an update's keys and drops the oldest of `HistorySize`; the parser has a
ring and `string_buf`. `WholeKey` and `KeyByReference` are the two ways to send a key, the latter
for any position and number of characters that the server's list allows; an update may break off
(`EndUpdate`) after any entry. Characters that nobody wrote are `Junk`.

### DemoFile

Commands have a place, the size of their header and body and of what the body decompresses to;
the file may end before its last command does. `rdr` is the reader's position; `held` is the
command whose header was read last, `read` the one whose body was just handed out, `next` the one
that the caller is to get. `FileInfo` moves the position to the file info and back, and loses it
where that cannot be read (`lost`).

### BitReader

A sender writes values in any of their encodings, the data may be handed over short, and the
reader reads the same kinds of values one after the other. Reads behind the end return memory
that belongs to something else, taken to be some ones (`Behind`) and then zeros.
`IsOverflowed` may come at any time. A number is the set of its bits that are one, so that 64 bits
are no trouble; coordinates and normals are integers in units of their resolution.

## 3. Runs

| Run | Question | Bounds | States |
|---|---|---|---|
| `playback` | does playing and seeking, in any sequence of calls and with errors of visitor, decoders and reader, keep the parser's state equal to the server's; do seeks land; do calls return | 76 recordings of 7 or 8 commands: four scripts, all tick distances 0 or 2 that are well-formed; targets -2..9; interval 2, slack 1; bodies cut off, up to two unreadable headers at the end | 130,452 |
| `playback_tick_end` (violation) | the comment on `on_tick_end` after a full packet | the same | |
| `broadcast_http` | does the client deliver the abstract stream, pace its retries, give up only when it may, keep up, and end | 3 delta frames, interval 2, 5 retries | 28,240 |
| `broadcast_recording` (violation) | the documented format of a recorded broadcast | the same | |
| `broadcast_buffer` | are commands read whole, once, in order; does the seekable buffer hold everything | 4 packets of 1 to 3 commands, 1 to 3 cells each; targets -2..4; both buffers, both consumers | 71,757 |
| `buffer_continues`, `buffer_total_ticks` (violations) | two promises of comments | the same | |
| `message_handlers` | do tables follow the server's, baselines their tables, and is nothing missing that is taken for granted | 2 classes, 2 baselines, 2 tables of 2 items, 1 other string, 1 entity; symmetry in classes and data, which are only compared | 158,242 |
| `handlers_readers` (violation) | the assertion that every bit reader was checked | the same | |
| `field_paths` | is the tree a code of at most 17 bits that favours heavy operations; do topographical operations only move forward | the real tree; components 0..7, 4 components, 2 operations before `fps` is full | 142,579 |
| `entity_data` | are the data of a demo read as they were sent, from the names of types to the values of entities: see below | six machines, of which a behaviour runs one (`part`): 21 kinds of fields in six orders of announcement, types nested twice, paths of up to four components, vectors of up to 2 elements, 2 paths an update, 2 updates; names of types of up to 4 characters and nine longer; floats of 1 to 3 bits with ends from -2 to 2 in halves; a ring of 2 and 4 keys; three demos of three or four commands, cut off anywhere, with and without file info; messages of 2 values | 258,555 |
| `entity_user_key` (violation) | the comments on the keys that a user builds | the same | |

`entity_data` asks, of the fields: is no child accessed that does not exist (`UncheckedChildSound`),
does every field, shared or not, descend into the version of its serializer that was the newest when
it was first met (`ResolvedAtFirstUse`), is every value read with the decoder of its type
(`DecodesAsSent`), has an entity what was sent last (`EntityAsSent`), and is a field found again
under the path that is kept for it (`LookupAgrees`). Of names: are they parsed as written, and
rejected at the first token that fits no type. Of floats: do values lie in their range, and do the
exact ones stay exact. Of string tables: does the ring stand for the list, and are the keys those
that were sent. Of files: is the position where the caller takes it to be. Of bits: is what was read
right whenever the check at the end succeeds, and does it fail only where data is missing.

Why the bounds are enough. The seek distinguishes a full packet by whether the target is further
than `interval + slack`: the scripts have two full packets at distances below, at and above that,
ticks shared by packets and full packets in both orders, entities that are created, changed and
deleted between snapshots, and a table that changes; a seek may follow any prefix of any call. The
client's behaviour depends on time only through "overdue", "due" and "at least an interval ago"; an
interval of 2 separates them. The retry limit is the code's own. Three packets already give the
buffers every relation of writer and reader; the fourth repeats them after a seek. A shared item of
memory can be written, replaced, refreshed and read with two classes and two data. A path operation
depends on the path only through its length and two neighbouring components; two operations in
sequence reach every operation from every length at which it is legal, over paths of up to four
components. A field has one of few shapes, and a walk along a path depends on two neighbouring
steps: the twenty-one fields have every shape the metadata tells apart, and arrays, vectors and
pointers inside of each other. Orders of announcement matter only in whether a version comes before
or after the field that uses it. The ring of two overflows twice within four keys, and a key may
refer to one that referred to another. Names of four characters have every pair of neighbouring
tokens, and the longer ones what needs more. Two values are what it takes for the first to shift the
second. Three bits are the least that tell the middle, both ends and the steps next to them apart.

Fairness. `Playback`: weak fairness of `Advance`, since a call runs synchronously to its end; none
of errors of visitor, decoders and reader, or of new calls. `BroadcastHttp`: weak fairness of time,
of the executor polling the future and of the consumer calling again; strong fairness of answers
(the HTTP client has a timeout, and a timeout is an answer) and of their reception, which says that
the consumer does not drop every single call just before its answer arrives. Without the latter a
consumer that cancels for ever is told nothing. The other modules state safety only. Deadlock is not
checked where the system really may stop: after undefined behaviour, a panic, or the end of a
broadcast.

## 4. What the runs found

* `playback_tick_end`: `core/parser.rs:280` says that the tick has changed whenever a full packet
  was handled; a full packet may share its tick with an earlier command that was handled, and
  `on_tick_end` is then called a second time for that tick. In the run's trace the earlier command is a
  full packet as well, with two packets between them.
* `broadcast_recording`: `broadcast/broadcastfile.rs:14-21` documents a recording as the full
  frame and deltas of the *signup* fragment; the client asks for those of the fragment that is
  current when it begins.
* `buffer_continues`: with `start_streaming_and_buffer`, storing a packet moves the read position
  behind it, so that `run_to_end` after `next_packet` reads nothing of it. After a seek the next
  packet is written at the reader's position: over the packets that follow, unless the reader is
  at the end. `BuffersAll` therefore needs a consumer that drains the buffer.
* `buffer_total_ticks`: the scan for the last tick starts at the read position; behind the last
  command, where storing a packet leaves it, it finds nothing and caches -1.
* `handlers_readers`: an error that a visitor returns from `on_packet` or `on_entity` does not
  reach the caller: a bit reader is dropped without having been asked whether it overflowed, its
  `Drop` panics, and with `on_entity` a second panic while unwinding aborts.

* `entity_user_key`: `core/entities.rs:137, 242-245` promise a key that a user can build from the
  names and numbers of a path. The elements of a fixed array are clones of the array's field, whose
  name is hashed in place of the index: all elements have one key, which no user's path gives, and
  the last one read is all that is kept of them.

Everything else that was checked holds. What is odd in the code, beyond these findings, and what
the models have as it is:

* the range of a float with the flag for integers is computed from low less high and is always
  two wide (`core/quantizedfloat.rs:195`); the flag for rounding down is always found unnecessary
  and removed; the flag for zero, at an end of the range, turns into rounding, which may then
  contradict the rounding that was asked for;
* `get_serializer_field` takes the index of a vector's element for a child, and finds nothing in
  any but the first (`core/entities.rs:336`); `LookupAgrees` leaves those out;
* a field that serializers share is resolved when the first of them is parsed: of two versions of S
  with B between them, a later C that shares B's field of type S descends into the lower one, though
  the comment at `core/flattenedserializers.rs:64-68` says that fields always reference the highest.
  `ResolvedAtFirstUse` says what they do reference; `VersionsHighest` (`EntityFieldsProofs`) that the
  comment is right for messages that announce all versions before any use;
* when the file info cannot be read the position stays where that was noticed
  (`core/demofile.rs:95`); `PositionAgrees` ends there;
* what follows a closing token that belongs to nothing is not looked at by the parser of types.

## 5. Proofs

TLAPS proves, for every value of the constants that satisfies the named assumptions:

* `PlaybackProofs` (`PlaybackAssumption`): `TypeOK`, `ReplayFaithful`, `SeekLands`, `SeekExact`,
  `UncheckedAccessSound`, `TickReported`, for all recordings, targets and intervals, and whatever
  fails. None of the properties is inductive: that a seek ends with the state of the linear replay
  follows from what its phases keep. `SeekPhase` says it for a running seek. Up to the sync tick
  everything is handled. From then until a full packet is handled whole (`Awaiting`) no entity
  exists, the tables that exist are those of the sign-on, and the last full packet met, if any, lies
  too far before the target, so that by `SnapshotsRegular` another one must come
  (`LastOneCutShort`). Once one was handled whole (`HandledOneClose`) the target is near, nothing is
  skipped, and no later full packet is cut short. `TickTracksPosition` ties `ctx.tick` to the
  position, which is what giving the header back must preserve. `StringPartOnly` and
  `SnapshotRestores` are the lemmas on what a cut short and a whole full packet do to the
  containers.
* `BroadcastHttpProofs` (`BroadcastAssumption`): `TypeOK`, `RetriesPaced`, `GivesUpPatiently`,
  and `Spec => Stream!Spec`, for any fragments, interval and number of retries. `Progress` ties
  what was returned to the client's state, which makes every step one of `PacketStream` or a
  stutter. `Pacing` says that a client whose next request is due in `d` has waited for as many
  intervals as it had misses, less `d`, and that one that catches up is overdue; `RetriesPaced`, an
  action property, is what that says of the step that sends the request.
* `FieldPathsProofs` (`FieldPathAssumption`): the path is always well-typed, and `MovesForward`, for
  components of any width, paths of any length and any numbers. Every topographical operation is
  shown to be a forward move (it adds, or it adds and pops nothing and pushes), and every forward
  move that is legal to lead to a later path: `MovedTyped` says that the components up to the one
  added to are kept, that one increased, which rests on 255 standing for -1 before the first
  operation (`PathInv`). Of the tree: every node but the top has exactly one parent, and children
  are older than their parents (`TreeInv`, with the heap as the nodes that have no parent yet). So
  the tree is a code, a walk is never at a branch that is not there (`WalkFollowsCode`), and
  `TypeOK` holds. These hold for any weights. For the weights in the code there is only one tree, so
  `ShortCodes` is shown by writing it out: the order in which the 79 nodes leave the heap (`Popped`,
  and its inverse `Rank`), their weights, and the lengths of their codes. `CodeInv` says that the
  nodes joined so far are the first of that tree and that the heap holds those whose turn has not
  come; `Join` keeps it because the order is the heap's (`LightestFirst`, `NextPopped`), and `Depth`
  is the list of lengths by induction from the top down (`Depths`).
* `MessageHandlersProofs` (`HandlersAssumption`): all five properties of the run, for any classes,
  data, entities and bound of the tables. `BaselineCoherent` alone says nothing of classes that the
  table does not have, and nothing while classes are unknown. `BaselinesOK` says what the baselines
  *are*: the outcome of one update from nothing, with the tables as they are now. An update then
  only has to be shown to forget nothing (`UpdateFollows`: items are added, never removed: `Grow`),
  also after a full packet has given all items new memory. `Follow` says that the parser's items are
  some of the recording's, with their numbers, and with their strings or none (`PartOf`). Items have
  strings (`Named`) on the server always, in the parser's tables unless somebody played on; that is
  why a full packet brings lagging tables up to date (`FullUpdateIs`). `ModeOK` carries what was
  announced to the unchecked accesses.
* `BroadcastBufferProofs` (`BufferAssumption`): `TypeOK`, `ReadsInOrder`, `BuffersAll` and
  `NeverBackwards`, for any packets of any commands. The argument is about the cells ahead of the
  read position, or, during a scan, of the one that it will be put back to (`Resume`): they are
  the cells of some commands, whole (`Ahead`, `Encoded`). What passed and what is ahead
  are together what was stored (`OrderInv`); reading moves the first command from the one to
  the other. For a consumer that does not drain, commands in the last packet's buffer are at
  least later than those that passed (`LastInv`).
* `DecodingProofs`, of string tables (`HistoryAssumption`, `KeysAssumption`, `IndexesAssumption`):
  `HistoryOK`, `RingHoldsRecent` and `ItemsAsSent`, for rings, entries and buffers of any size and
  any keys. The argument counts keys: the one at position `p` of the list was the key of a number
  that, modulo `HistorySize`, is the ring's index of it, and two keys in the list have different
  indexes. That a key is put together right whatever is left in the buffer follows from its
  terminator.
* `DecodingProofs`, of files (`DemoAssumption`): `PositionAgrees`, for all demos, cut off anywhere.
  It is strengthened by `EndMet` (where the end was met, no header is read any more) and
  `NothingYet`. That the commands of a file are in order as a whole is part of the assumption on
  files.
* `DecodingProofs`, of the names of types (`VarTypesAssumption`, that a name is a sequence):
  `ParsedAsWritten` and `RejectsFirstWrong`, for all names, all classes of characters and every
  width of `usize`; and `RejectedForGood`, that nothing whatever that could follow a
  rejected token would have made a type. `Open` says what was begun by the tokens so far:
  how many types, each in the angles of the one before, where each begins and what it is as far
  as it was read; `ReadSoFar` says that this is what the frames hold, though frames and open types
  are off by one while a call waits for its right angle. The chart is built the other way round
  than the parser goes, from the last token, so that two lemmas join them: what a run of
  tokens spells does not depend on what follows (`SpeltAgrees`), and whatever it spells is read from
  the left without a wrong token (`SpeltIsRead`). A beginning that leads to a wrong token is therefore
  the beginning of no type (`WrongForGood`), and one that does not can be completed
  (`OpenIsViable`).
* `DecodingProofs`, of quantized floats (`FloatAssumption`): `ReadsInRange` and `ExactValuesKept`, for
  any number of bits, any range and any flags: the values of the steps, the ends that rounding moves
  by a step, and that a flag which is removed was unnecessary (`DecoderKnows`).
* `DecodingProofs`, of the bit reader (`BitsAssumption`: the values of a message can be encoded, and a
  string buffer holds something): `CheckedReadsRight`, for messages of any length and any values,
  broken off anywhere, over memory that holds anything. `Reads` is the contract of a read: if the
  bits of a value's code lie where it begins and within the data, it yields the value and ends
  where the code does, and it never moves back. There is a lemma of that form for each encoding.
  `BitsInv` then needs only where each value ends: the reader has read right so far, or is beyond
  data of which there is too little, and stays there.

* `EntityFieldsProofs` (`FieldsAssumption`: messages are announcements, bounds are numbers): all six
  properties of the run, for any messages, types of any depth, vectors of any size, paths, entities
  and updates. `ResolvedAtFirstUse` needs nothing of a message but that it is an announcement: a field
  that is not kept yet was in no serializer before the current one, and what a name stands for then
  is the last of its serializers before that (`ByNameIsNewest`). Those of entities are about usual
  messages, and none of them is inductive: that an entity is what was sent to it depends on the walk of
  the next path, and the walk on everything that was parsed. There are two trees. The server's
  descends by types; the parser's by serializers, which were resolved one field after the
  other, by name, with what was known then, and shared. `ParseInv` says of the parser, at any moment,
  what the serializers so far hold: the fields that were announced, and if versions come before
  their use, each as it would be parsed now (`FieldsCurrent`), which is what makes sharing
  sound. With the last serializer this becomes `Complete`: every name stands for its last definition,
  and every field for its announcement. `NewFieldIs` says what that is for each kind of type, so that
  a child of a node is the child of the node's field (`ChildField`); by induction over the tree
  (`TreeInduction`), a path of the server walks to its node's field, with the node's key and the
  decoder of its type, and to nothing that is not there (`WalkIsThere`, `PathWalked`), and looking it
  up finds the same field (`LookupIsThere`). A path tells its node (`NodesUnique`). A key
  does so too, but for elements of fixed arrays and what is inside of them (`KeysDiffer`).
  `Reflects` relates the fields of an entity to what was sent to it, by keys; one field of an update
  keeps it (`SetFieldReflects`), whichever path of the same key came before, so a whole update
  does (`ParseReflects`), and so do the copies of the baseline.
  `EntityInv` is that for every entity.

`Induction` supplies what the provers have no rule for: that a set of numbers which holds 0, and with
each number the next, holds all, shown from the pigeonhole principle for finite sets; strong
induction and least elements follow. Recursive functions (the chart of `VarTypes`, concatenations of
packets, sums of bits, the visits of a type, the server's tree, walks and updates of
`EntityFields`) are reasoned about with it.

For the sake of the proofs, constants whose kind had gone without saying have named
assumptions (`BufferAssumption`, `BitsAssumption`, `FloatAssumption`, `VarTypesAssumption`,
`FieldsAssumption`), which
TLC evaluates in the runs; the grammar of `VarTypes` and everything recursive in `EntityFields` and
`FieldTypes` are recursive functions.

Only model-checked: `CallsReturn`, `KeepsUp` and `BroadcastEnds`, since liveness is out of the
prover's reach. Every other property of a passing run is stated by a theorem.

## 6. What is not modelled, and why

* The wire format: protobuf and compression are external, and pure; what they yield is an input
  of the models. So are the readers of `dungers::bitbuf`, which are modelled by what `BitReader`
  expects of them.
* HTTP (`broadcast/httpclient.rs`) and files: pure I/O; their outcomes are the answers of
  `BroadcastHttp`, and in `Playback` and `DemoFile` the failing reader and the streams that are
  broken off.
* `BroadcastFile` has no behaviour of its own: it hands its reader to the functions that
  `BroadcastBuffer` models.
* Field values (`core/fieldvalue.rs`): conversions without state.
* Rounding of floats, but for the two places where the code depends on it, where both outcomes are
  taken; decoders that read a value and return it are told apart by what they read.
* Collisions of hashes: a hash is what was hashed into it. Ranges of floats whose low end is the
  higher one.
* Tools and examples other than the loop of `tools/broadcast`.

## 7. What could come next

`DemoStream` as an abstract specification (headers and bodies handed out in order, given back,
skipped, sought) that `DemoFile` and the broadcast buffers implement, so that `Playback`'s stream
is one instance of it.

-------------------------- MODULE BroadcastBuffer ---------------------------
(***************************************************************************)
(* What BroadcastHttp does with the packets that next_packet returns, and  *)
(* how a parser reads them back: the buffer that keeps only the last       *)
(* packet, the one that keeps all of them (start_streaming_and_buffer),    *)
(* and the parser and scan_for_last_tick moving the read position.         *)
(*                                                                         *)
(* Bytes are cells: a command is a header cell and some body cells.  The   *)
(* parser borrows the stream, so that next_packet is only called when it   *)
(* is idle.  What the parser makes of a command is Playback's concern.     *)
(***************************************************************************)
EXTENDS Integers, SequencesExt

CONSTANTS
    Signup, First,      \* as in PacketStream
    Packets,            \* the contents of the broadcast's packets
    Buffers,            \* the kinds of StreamBuffer considered
    Targets             \* the ticks that may be sought

Commands == [tick : Int, body_size : Nat]
None == <<>>
Some(t) == <<t>>

ASSUME BufferAssumption ==
    /\ Signup \in Nat /\ First \in Nat
    /\ Packets \in Seq(Seq(Commands))
    /\ Buffers \subseteq {"Last", "Seekable"}
    /\ Targets \subseteq Int

VARIABLES
    received, ended,    \* what next_packet returned: see PacketStream
    stream_buffer,      \* which variant of StreamBuffer; never changes
    drains,             \* the kind of consumer; never changes
    buffer, position,   \* its cells, and how many of them were read
    total_ticks,        \* the cached answer of total_ticks: None or Some(tick)
    mode,               \* what is being executed
    target_tick,
    backup, last_tick,  \* the locals of scan_for_last_tick
    passed,             \* history: the commands read since the last reset
    stored              \* history: a packet joined them in the cursor since

Source == INSTANCE PacketStream

setup == <<stream_buffer, drains>>
scan == <<backup, last_tick>>
history == <<passed, stored>>
vars == <<received, ended, setup, buffer, position, total_ticks, mode,
          target_tick, scan, history>>

\* The commands of the n-th packet, and their cells.
Ids(n) == [k \in 1..Len(Packets[n]) |-> <<n, k>>]
CommandOf(id) == Packets[id[1]][id[2]]
CellsOf(id) == [i \in 1..(1 + CommandOf(id).body_size) |-> [id |-> id, part |-> i - 1]]
PacketCells(n) == FlattenSeq([k \in 1..Len(Packets[n]) |-> CellsOf(<<n, k>>)])

AllIds == FlattenSeq([n \in 1..Len(received) |-> Ids(n)])
AllCells == FlattenSeq([n \in 1..Len(received) |-> PacketCells(n)])

CommandId == UNION {{n} \X (1..Len(Packets[n])) : n \in 1..Len(Packets)}
Cell == [id : CommandId, part : Nat]

TypeOK ==
    /\ received \in Seq(Source!Packet) /\ Len(received) <= Len(Packets)
    /\ ended \in {"no", "none", "error"}
    /\ stream_buffer \in Buffers /\ drains \in BOOLEAN
    /\ buffer \in Seq(Cell) /\ \A i \in 1..Len(buffer) : buffer[i].id[1] <= Len(received)
    /\ position \in 0..Len(buffer)
    /\ total_ticks \in Seq(Int) /\ Len(total_ticks) <= 1
    /\ mode \in {"idle", "run_to_end", "run_to_tick", "scan", "garbled", "panic"}
    /\ target_tick \in Int /\ last_tick \in Int
    /\ backup \in 0..Len(buffer)
    /\ passed \in Seq(CommandId) /\ \A i \in 1..Len(passed) : passed[i][1] <= Len(received)
    /\ stored \in BOOLEAN

Init ==
    /\ Source!Init
    /\ stream_buffer \in Buffers /\ drains \in BOOLEAN
    /\ buffer = <<>> /\ position = 0
    /\ total_ticks = None
    /\ mode = "idle" /\ target_tick = -1
    /\ backup = 0 /\ last_tick = -1
    /\ passed = <<>> /\ stored = FALSE

-----------------------------------------------------------------------------
(* Storing a packet.                                                       *)

AtEof == position = Len(buffer)

\* Cursor::write_all: it writes at the position that reads use, too, over what
\* is there, and extends the vector when it reaches its end.
WriteAll(cells) ==
    /\ buffer' = SubSeq(buffer, 1, position) \o cells
                   \o SubSeq(buffer, position + Len(cells) + 1, Len(buffer))
    /\ position' = position + Len(cells)

\* Mutant of Store: the reader of the last packet is not replaced.
StoreKeepsPosition(cells) ==
    IF stream_buffer = "Last"
    THEN /\ buffer' = cells
         /\ UNCHANGED <<position, total_ticks, stored>>
    ELSE /\ WriteAll(cells)
         /\ total_ticks' = None
         /\ stored' = TRUE

\* Mutant of Store: both kinds of buffer keep one packet.
StoreReplaces(cells) ==
    /\ buffer' = cells /\ position' = Len(cells)
    /\ total_ticks' = None
    /\ stored' = TRUE

\* Mutant of Store: the packet before is kept for another reading.
StoreKeepsPacket(cells) ==
    IF stream_buffer = "Last"
    THEN /\ buffer' = buffer \o cells /\ position' = 0
         /\ UNCHANGED <<total_ticks, stored>>
    ELSE /\ WriteAll(cells)
         /\ total_ticks' = None
         /\ stored' = TRUE

Store(cells) ==
    IF stream_buffer = "Last"
    THEN /\ buffer' = cells /\ position' = 0
         /\ UNCHANGED <<total_ticks, stored>>
    ELSE /\ WriteAll(cells)
         /\ total_ticks' = None
         /\ stored' = TRUE

\* A consumer that drains, as tools/broadcast does, asks for a packet only when
\* it has read everything before it; it may still seek and scan in between.
NextPacket ==
    /\ mode = "idle" /\ Len(received) < Len(Packets)
    /\ drains => AtEof
    /\ Source!Deliver
    /\ Store(PacketCells(Len(received) + 1))
    /\ UNCHANGED <<setup, mode, target_tick, scan, passed>>

StreamEnds ==
    /\ mode = "idle"
    /\ Source!End
    /\ UNCHANGED <<setup, buffer, position, total_ticks, mode,
                   target_tick, scan, history>>

-----------------------------------------------------------------------------
(* The calls of a consumer.                                                *)

\* no_packet_panic and not_seekable_panic
NoPacket == stream_buffer = "Last" /\ received = <<>>
NotSeekable == stream_buffer = "Last"

Panic ==
    /\ mode' = "panic"
    /\ UNCHANGED <<received, ended, setup, buffer, position,
                   total_ticks, target_tick, scan, history>>

CallRunToEnd ==
    /\ mode = "idle" /\ ~NoPacket
    /\ mode' = "run_to_end"
    /\ UNCHANGED <<received, ended, setup, buffer, position,
                   total_ticks, target_tick, scan, history>>

CallRunToTick(target) ==
    /\ mode = "idle" /\ ~NotSeekable
    /\ mode' = "run_to_tick" /\ target_tick' = target
    /\ position' = 0 /\ passed' = <<>> /\ stored' = FALSE
    /\ UNCHANGED <<received, ended, setup, buffer, total_ticks, scan>>

\* A cached answer is returned as it is.
CallTotalTicks ==
    /\ mode = "idle" /\ ~NotSeekable /\ total_ticks = None
    /\ mode' = "scan"
    /\ backup' = position /\ last_tick' = -1
    /\ UNCHANGED <<received, ended, setup, buffer, position,
                   total_ticks, target_tick, history>>

Misuse == mode = "idle" /\ (NoPacket \/ NotSeekable) /\ Panic

-----------------------------------------------------------------------------
(* Reading.                                                                *)

Reading == mode \in {"run_to_end", "run_to_tick", "scan"}

\* The command that begins at the read position, if it is whole.
Here == buffer[position + 1].id
Whole ==
    LET cells == CellsOf(Here) IN
    /\ position + Len(cells) <= Len(buffer)
    /\ SubSeq(buffer, position + 1, position + Len(cells)) = cells

ReadsTooFar == mode = "run_to_tick" /\ CommandOf(Here).tick > target_tick

\* read_cmd_header, then read_cmd or skip_cmd: both move behind the body.
ReadCmd ==
    /\ Reading /\ ~AtEof /\ Whole /\ ~ReadsTooFar
    /\ position' = position + 1 + CommandOf(Here).body_size
    /\ IF mode = "scan"
       THEN last_tick' = CommandOf(Here).tick /\ UNCHANGED passed
       ELSE passed' = Append(passed, Here) /\ UNCHANGED last_tick
    /\ UNCHANGED <<received, ended, setup, buffer, total_ticks, mode,
                   target_tick, backup, stored>>

\* unread_cmd_header puts the position back.
StopAtTarget ==
    /\ Reading /\ ~AtEof /\ Whole /\ ReadsTooFar
    /\ mode' = "idle"
    /\ UNCHANGED <<received, ended, setup, buffer, position,
                   total_ticks, target_tick, scan, history>>

\* What is read is no command, or one mixed with another: anything may follow.
ReadGarbage ==
    /\ Reading /\ ~AtEof /\ ~Whole
    /\ mode' = "garbled"
    /\ UNCHANGED <<received, ended, setup, buffer, position,
                   total_ticks, target_tick, scan, history>>

EndOfRun ==
    /\ mode \in {"run_to_end", "run_to_tick"} /\ AtEof
    /\ mode' = "idle"
    /\ UNCHANGED <<received, ended, setup, buffer, position,
                   total_ticks, target_tick, scan, history>>

\* Mutant of EndOfScan: the position is not put back.
EndOfScanStays ==
    /\ mode = "scan" /\ AtEof
    /\ mode' = "idle"
    /\ total_ticks' = Some(last_tick)
    /\ UNCHANGED <<received, ended, setup, buffer, position,
                   target_tick, scan, history>>

EndOfScan ==
    /\ mode = "scan" /\ AtEof
    /\ mode' = "idle"
    /\ position' = backup
    /\ total_ticks' = Some(last_tick)
    /\ UNCHANGED <<received, ended, setup, buffer, target_tick, scan,
                   history>>

Consumer ==
    \/ CallRunToEnd
    \/ \E target \in Targets : CallRunToTick(target)
    \/ CallTotalTicks
    \/ Misuse
    \/ ReadCmd \/ StopAtTarget \/ ReadGarbage \/ EndOfRun \/ EndOfScan

Next == NextPacket \/ StreamEnds \/ Consumer

Spec == Init /\ [][Next]_vars

-----------------------------------------------------------------------------
(* What is promised.                                                       *)

\* A consumer that drains the buffer before it asks for the next packet reads
\* whole commands, each once and in order, and is never given the end before
\* the last of them: always with the last packet's buffer, and with the
\* cursor from a seek until the next packet.  Scans change nothing of that.
ReadsInOrder ==
    drains =>
        /\ mode # "garbled"
        /\ ~stored =>
            /\ IsPrefix(passed, AllIds)
            /\ mode \in {"idle", "run_to_end"} /\ AtEof => passed = AllIds

\* With the last packet's buffer a consumer that asks for packets too early
\* loses commands, but never reads one twice or after a later one.
NeverBackwards ==
    stream_buffer = "Last" =>
        \A i, j \in 1..Len(passed) :
            i < j => \/ passed[i][1] < passed[j][1]
                     \/ passed[i][1] = passed[j][1] /\ passed[i][2] < passed[j][2]

\* start_streaming_and_buffer keeps all packets, in order, however often its
\* consumer seeks and scans, if it drains the buffer before it asks for more.
\* Otherwise, after a seek, a packet overwrites the packets behind the reader.
BuffersAll == drains /\ stream_buffer = "Seekable" => buffer = AllCells

\* tools/broadcast/src/main.rs:71-73 says of run_to_end that "it is okay to run
\* it again when you know that more data was supplied, it'll continue from where
\* it stopped at".
ContinuesWhereItStopped ==
    drains /\ mode = "run_to_end" /\ AtEof => passed = AllIds

\* broadcasthttp.rs:400 says that total_ticks is invalidated "so that it can be
\* re-scanned": what the scan caches is the tick of the last command buffered.
TotalTicksIsLast ==
    total_ticks # None =>
        total_ticks = Some(IF AllIds = <<>> THEN -1
                           ELSE CommandOf(Last(AllIds)).tick)
=============================================================================

------------------------------ MODULE Playback ------------------------------
(***************************************************************************)
(* The run loop of the demo parser (parser.rs): playing a recording        *)
(* command by command and seeking in it.                                   *)
(*                                                                         *)
(* A recording is a sequence of commands together with the state of the    *)
(* game server after each of them.  The server's state is never read by    *)
(* the parser; it is what the parser's state is compared with.  A packet   *)
(* carries the changes since the previous one, a full packet a snapshot of *)
(* everything, and a seek skips packets in the hope that the last snapshot *)
(* on the way to the target makes up for what it skipped.                  *)
(*                                                                         *)
(* State is kept in slots: one per entity and one per string table.  What  *)
(* a slot holds is a value, or None while the entity or table is absent.   *)
(***************************************************************************)
EXTENDS Integers, Sequences

CONSTANTS
    Entity, Table,                \* the slots
    Value, None, Keep,            \* their contents; Keep: "not in this delta"
    Demos,                        \* the recordings that may be played, by name
    Targets,                      \* the ticks that may be sought
    DefaultFullPacketInterval,    \* parser.rs: 1800
    DefaultTicksPerSecond,        \* parser.rs: 1 / DEFAULT_TICK_INTERVAL
    Slack                         \* parser.rs: the 100 in run_to_tick

Slot == Entity \cup Table
World == [Slot -> Value \cup {None}]
Delta == [Slot -> Value \cup {None, Keep}]
EmptyWorld == [s \in Slot |-> None]

(***************************************************************************)
(* "Other" stands for every command that the parser reads and ignores, and *)
(* for SendTables and ClassInfo, which change nothing that is kept here.   *)
(* needs: the slots a packet updates or deletes, as opposed to creates.    *)
(* tps: the tick rate that a server info message announces, 0 without one. *)
(***************************************************************************)
Command == [cmd   : {"Packet", "FullPacket", "SyncTick", "Other"},
            tick  : Int,
            delta : Delta,
            needs : SUBSET Slot,
            tps   : Nat]

\* What a delta makes of world w when only the slots in S are written.
Merge(w, delta, S) ==
    [s \in Slot |-> IF s \in S /\ delta[s] # Keep THEN delta[s] ELSE w[s]]

Live(w) == {s \in Slot : w[s] # None}

\* The delta that recreates w from nothing: the payload of a full packet.
Snapshot(w) == [s \in Slot |-> IF w[s] = None THEN Keep ELSE w[s]]

\* Integer division: the float ratio is truncated by `as i32`.
FullPacketInterval(tps) ==
    DefaultFullPacketInterval * (tps \div DefaultTicksPerSecond)

FullPackets(d) == {i \in 1..Len(d.cmds) : d.cmds[i].cmd = "FullPacket"}
LastTick(d) == d.cmds[Len(d.cmds)].tick

-----------------------------------------------------------------------------
(* What is assumed of a recording.                                         *)

WellTyped(d) ==
    /\ d.cmds \in Seq(Command) /\ d.cmds # <<>>
    /\ d.server \in [0..Len(d.cmds) -> World]
    /\ d.sync \in 1..Len(d.cmds)
    /\ d.tps \in Nat
    /\ d.rest \in Nat             \* unreadable headers that follow the commands
    /\ d.cut \in BOOLEAN          \* the last command's body is not all there
    /\ d.cut => d.rest = 0

\* The commands tell what the server did.
Faithful(d) ==
    /\ d.server[0] = EmptyWorld
    /\ \A i \in 1..Len(d.cmds) :
        LET c == d.cmds[i] IN
        /\ c.cmd = "Packet" =>
            /\ c.needs \subseteq Live(d.server[i - 1])
            /\ d.server[i] = Merge(d.server[i - 1], c.delta, Slot)
        /\ c.cmd # "Packet" =>
            /\ d.server[i] = d.server[i - 1]
            /\ c.tps = 0
        /\ c.cmd = "FullPacket" => c.delta = Snapshot(d.server[i])

TicksGrow(d) ==
    \A i, j \in 1..Len(d.cmds) : i < j => d.cmds[i].tick <= d.cmds[j].tick

\* The sign-on ends with the only SyncTick, the last command of tick -1; the
\* string tables are created and the tick rate is announced by then, and
\* entities and full packets come after it.
SignsOn(d) ==
    LET n == Len(d.cmds) IN
    /\ \A i \in 1..n : d.cmds[i].cmd = "SyncTick" <=> i = d.sync
    /\ \A i \in 1..n : d.cmds[i].tick = -1 <=> i <= d.sync
    /\ \A i \in 1..n : d.cmds[i].tick >= -1
    /\ \A i \in FullPackets(d) : i > d.sync
    /\ \E i \in 1..d.sync : d.cmds[i].tps # 0
    /\ \A i \in 1..n : d.cmds[i].tps # 0 => d.cmds[i].tps = d.tps /\ i <= d.sync
    /\ \A e \in Entity : d.server[d.sync][e] = None
    /\ \A i \in d.sync..n, t \in Table :
           d.server[i][t] = None <=> d.server[d.sync][t] = None

\* Every full packet is followed, within the interval the parser reckons
\* with, by another one or by the end of the recording.
SnapshotsRegular(d) ==
    LET reach == FullPacketInterval(d.tps) + Slack IN
    \A i \in FullPackets(d) :
        \/ LastTick(d) - d.cmds[i].tick <= reach
        \/ \E j \in FullPackets(d) :
              i < j /\ d.cmds[j].tick - d.cmds[i].tick <= reach

WellFormed(d) ==
    /\ WellTyped(d)
    /\ Faithful(d)
    /\ TicksGrow(d)
    /\ SignsOn(d)
    /\ SnapshotsRegular(d)

ASSUME PlaybackAssumption ==
    /\ Entity \cap Table = {}
    /\ None # Keep /\ None \notin Value /\ Keep \notin Value
    /\ DefaultFullPacketInterval \in Nat
    /\ DefaultTicksPerSecond \in Nat \ {0}
    /\ Slack \in Nat
    /\ Targets \subseteq Int
    /\ \A id \in DOMAIN Demos : WellFormed(Demos[id])

-----------------------------------------------------------------------------
VARIABLES
    demo,                   \* the name of the recording; never changes
    pos,                    \* stream position: commands consumed
    rest,                   \* stream position: unreadable headers passed
    astray,                 \* the reader failed and stands somewhere else
    tick, prev_tick,        \* ctx.tick, ctx.prev_tick
    full_packet_interval,   \* ctx.full_packet_interval
    world,                  \* ctx.entities and ctx.string_tables
    mode,                   \* what the parser is executing
    target_tick,            \* the argument of run_to_tick
    did_handle_first_sync_tick,
    did_handle_last_full_packet,
    result,                 \* what the last call returned, once it has
    missed,                 \* history: see below
    tick_end                \* history: the last tick reported to on_tick_end

\* The recording that is played.
Rec == Demos[demo]

stream == <<demo, pos, rest, astray>>
ctx == <<tick, prev_tick, full_packet_interval, world>>
locals == <<target_tick, did_handle_first_sync_tick, did_handle_last_full_packet>>
vars == <<stream, ctx, locals, mode, result, missed, tick_end>>

(***************************************************************************)
(* missed is TRUE when some command was passed over, or given up half way, *)
(* since the parser was last reset or last handled a whole full packet.    *)
(***************************************************************************)

Running == {"run_to_end", "run_to_tick"}
NoResult == [call |-> "none", ok |-> TRUE]

TypeOK ==
    /\ demo \in DOMAIN Demos
    /\ pos \in 0..Len(Rec.cmds)
    /\ rest \in Nat
    /\ astray \in BOOLEAN
    /\ tick \in Int /\ prev_tick \in Int
    /\ full_packet_interval \in Nat
    /\ world \in World
    /\ mode \in Running \cup {"idle", "crashed", "lost"}
    /\ target_tick \in Int
    /\ did_handle_first_sync_tick \in BOOLEAN
    /\ did_handle_last_full_packet \in BOOLEAN
    /\ result \in [call : Running \cup {"none"}, ok : BOOLEAN]
    /\ missed \in BOOLEAN
    /\ tick_end \in Int

Init ==
    /\ demo \in DOMAIN Demos
    /\ pos = 0 /\ rest = 0 /\ astray = FALSE
    /\ tick = -1 /\ prev_tick = -1
    /\ full_packet_interval = 0
    /\ world = EmptyWorld
    /\ mode = "idle"
    /\ target_tick = -1
    /\ did_handle_first_sync_tick = FALSE
    /\ did_handle_last_full_packet = FALSE
    /\ result = NoResult
    /\ missed = FALSE
    /\ tick_end = -1

-----------------------------------------------------------------------------
(* Calls, and how they return.                                             *)

\* The stream is sought to its start.
Rewind == pos' = 0 /\ rest' = 0 /\ astray' = FALSE

\* The locals of run_to_tick are of no use here.
CallRunToEnd ==
    /\ mode = "idle"
    /\ mode' = "run_to_end"
    /\ result' = NoResult
    /\ target_tick' = -1
    /\ did_handle_first_sync_tick' = FALSE
    /\ did_handle_last_full_packet' = FALSE
    /\ UNCHANGED <<stream, ctx, missed, tick_end>>

\* Mutant of Reset: the containers are not cleared.
ResetKeepsWorld ==
    /\ Rewind
    /\ tick' = -1 /\ prev_tick' = -1
    /\ missed' = FALSE
    /\ tick_end' = -1
    /\ UNCHANGED <<full_packet_interval, world>>

\* Mutant of Reset: the context's ticks are not set back.
ResetKeepsTick ==
    /\ Rewind
    /\ world' = EmptyWorld
    /\ missed' = FALSE
    /\ tick_end' = -1
    /\ UNCHANGED <<full_packet_interval, tick, prev_tick>>

\* full_packet_interval, serializers and entity classes survive a reset.
Reset ==
    /\ Rewind
    /\ world' = EmptyWorld
    /\ tick' = -1 /\ prev_tick' = -1
    /\ missed' = FALSE
    /\ tick_end' = -1
    /\ UNCHANGED full_packet_interval

CallRunToTick(target) ==
    /\ mode = "idle"
    /\ Reset
    /\ mode' = "run_to_tick"
    /\ target_tick' = target
    /\ did_handle_first_sync_tick' = FALSE
    /\ did_handle_last_full_packet' = FALSE
    /\ result' = NoResult
    /\ UNCHANGED demo

Return(ok) ==
    /\ mode' = "idle"
    /\ result' = [call |-> mode, ok |-> ok]

\* No header can be read: fine if the reader is then at the end of the stream,
\* an error elsewhere.  It stays where the attempt left it: after a header of an
\* unknown command behind what was read of it, at the end after one that is cut
\* short, and behind the end if a body was skipped that is not all there.
HeaderUnreadable ==
    /\ mode \in Running /\ ~astray
    /\ pos = Len(Rec.cmds)
    /\ rest' = IF rest < Rec.rest THEN rest + 1 ELSE rest
    /\ Return(rest' = Rec.rest)
    /\ UNCHANGED <<demo, pos, astray, ctx, locals, missed, tick_end>>

-----------------------------------------------------------------------------
(* One cycle of the run loop: a header is read, then its command treated.  *)

More == mode \in Running /\ ~astray /\ pos < Len(Rec.cmds)
Cmd == Rec.cmds[pos + 1]

ReadHeader ==
    /\ prev_tick' = tick
    /\ tick' = Cmd.tick

\* Mutant of Consume: the body is peeked at and stays in the stream.
ConsumeNothing ==
    /\ ReadHeader
    /\ UNCHANGED <<demo, pos, astray>>

Consume ==
    /\ ReadHeader
    /\ pos' = pos + 1
    /\ UNCHANGED <<demo, astray>>

\* The body of the next command is all there.
BodyThere == ~(Rec.cut /\ pos + 1 = Len(Rec.cmds))

\* The flow that the handler chooses for the header it is given.
PastTarget == mode = "run_to_tick" /\ Cmd.tick > target_tick

Flow ==
    IF mode = "run_to_end" THEN "HandleCmd"
    ELSE IF PastTarget THEN "Break"
    ELSE IF ~did_handle_first_sync_tick THEN "HandleCmd"
    ELSE IF Cmd.cmd = "FullPacket" THEN "IgnoreCmd"
    ELSE IF did_handle_last_full_packet THEN "HandleCmd"
    ELSE "SkipCmd"

\* The handler's closure notes that the sign-on is over.
NoteSyncTick ==
    did_handle_first_sync_tick' =
        IF mode = "run_to_tick" /\ ~did_handle_first_sync_tick
        THEN Cmd.cmd = "SyncTick"
        ELSE did_handle_first_sync_tick

\* handle_cmd_packet; a full packet is ignored outside the seeking handler.
HandleCmdEffect ==
    IF Cmd.cmd = "Packet"
    THEN /\ world' = Merge(world, Cmd.delta, Slot)
         /\ full_packet_interval' = IF Cmd.tps = 0
                                    THEN full_packet_interval
                                    ELSE FullPacketInterval(Cmd.tps)
    ELSE UNCHANGED <<world, full_packet_interval>>

\* handle_update_unchecked, handle_delete_unchecked and get_table_mut are
\* told that the entity or table exists.
Sound == Cmd.cmd = "Packet" => Cmd.needs \subseteq Live(world)

\* `failed`: the visitor's on_tick_end returns an error.
HandleCmd(failed) ==
    /\ More /\ Flow = "HandleCmd" /\ BodyThere /\ Sound
    /\ failed => Cmd.tick # tick
    /\ Consume
    /\ NoteSyncTick
    /\ HandleCmdEffect
    /\ tick_end' = IF Cmd.tick # tick THEN Cmd.tick ELSE tick_end
    /\ IF failed THEN Return(FALSE) ELSE UNCHANGED <<mode, result>>
    /\ UNCHANGED <<rest, target_tick, did_handle_last_full_packet, missed>>

\* unwrap_unchecked on None: nothing can be said of the parser afterwards.
HandleCmdUndefined ==
    /\ More /\ Flow = "HandleCmd" /\ BodyThere /\ ~Sound
    /\ mode' = "crashed"
    /\ UNCHANGED <<stream, ctx, locals, result, missed, tick_end>>

\* Seeking behind the end of the stream is no error.
SkipCmd ==
    /\ More /\ Flow = "SkipCmd"
    /\ Consume
    /\ rest' = IF BodyThere THEN rest ELSE rest + 1
    /\ missed' = TRUE
    /\ UNCHANGED <<full_packet_interval, world, locals, mode, result, tick_end>>

\* Mutant of HasFullPacketAhead: any distance to the target counts.
AnyFullPacketAhead == target_tick > Cmd.tick

HasFullPacketAhead == target_tick - Cmd.tick > full_packet_interval + Slack

\* Mutant of HandleFullPacketEffect: the snapshot replaces the containers.
FullPacketReplaces == world' = IF HasFullPacketAhead THEN world ELSE Cmd.delta

\* Mutant of HandleFullPacketEffect: the packet is dropped every time.
FullPacketWithoutEntities ==
    world' = Merge(world, Cmd.delta, Table \cap Live(world))

\* handle_cmd_full_packet: do_full_update writes the tables that exist, then
\* the packet, unless it was set to None, creates the entities.
FullPacketSlots ==
    (Table \cap Live(world)) \cup (IF HasFullPacketAhead THEN {} ELSE Entity)

HandleFullPacketEffect == world' = Merge(world, Cmd.delta, FullPacketSlots)

SeekFullPacket(failed) ==
    /\ More /\ Flow = "IgnoreCmd" /\ BodyThere
    /\ Consume
    /\ HandleFullPacketEffect
    /\ tick_end' = Cmd.tick
    /\ did_handle_last_full_packet' =
           IF failed THEN did_handle_last_full_packet ELSE ~HasFullPacketAhead
    /\ missed' = (missed /\ HasFullPacketAhead)
    /\ IF failed THEN Return(FALSE) ELSE UNCHANGED <<mode, result>>
    /\ UNCHANGED <<rest, full_packet_interval, target_tick, did_handle_first_sync_tick>>

\* The slots that a command may have written when it is given up.
Writable ==
    IF Flow = "IgnoreCmd" THEN FullPacketSlots
    ELSE IF Cmd.cmd = "Packet" THEN Slot
    ELSE {}

\* A command is given up behind its body, or at the end of the stream if that is
\* not all there: read_cmd cannot read or decompress it, it or a message in it
\* cannot be decoded, a handler refuses one, or the visitor's on_cmd, on_packet
\* or on_entity does.  What was written up to there stays.
CmdFails(written) ==
    /\ More /\ Flow \in {"HandleCmd", "IgnoreCmd"}
    /\ BodyThere \/ written = {}
    /\ Cmd.needs \cap written \subseteq Live(world)
    /\ Consume
    /\ NoteSyncTick
    /\ world' = Merge(world, Cmd.delta, written)
    /\ \/ UNCHANGED full_packet_interval
       \/ /\ BodyThere /\ Flow = "HandleCmd" /\ Cmd.tps # 0
          /\ full_packet_interval' = FullPacketInterval(Cmd.tps)
    /\ missed' = TRUE
    /\ Return(FALSE)
    /\ UNCHANGED <<rest, target_tick, did_handle_last_full_packet, tick_end>>

\* The reader fails, in read_cmd_header or later in the cycle: nobody knows where
\* it stands then, and ctx.tick is not restored when unread_cmd_header fails.
ReaderFails ==
    /\ mode \in Running /\ ~astray
    /\ \/ UNCHANGED <<tick, prev_tick>>
       \/ More /\ ReadHeader
    /\ astray' = TRUE
    /\ missed' = TRUE
    /\ Return(FALSE)
    /\ UNCHANGED <<demo, pos, rest, full_packet_interval, world, locals, tick_end>>

\* What is read in the middle of a command can be anything; only a reset helps.
PlayAstray ==
    /\ mode \in Running /\ astray
    /\ mode' = "lost"
    /\ UNCHANGED <<stream, ctx, locals, result, missed, tick_end>>

\* Mutant of StopAtTarget: ctx.tick is not restored.
StopAtTargetKeepsTick ==
    /\ More /\ Flow = "Break"
    /\ ReadHeader
    /\ Return(TRUE)
    /\ UNCHANGED <<stream, full_packet_interval, world, locals, missed, tick_end>>

\* Break: the header is unread and ctx.tick restored; prev_tick is not.
StopAtTarget ==
    /\ More /\ Flow = "Break"
    /\ prev_tick' = tick
    /\ Return(TRUE)
    /\ UNCHANGED <<stream, tick, full_packet_interval, world, locals, missed, tick_end>>

BodyMissing == ~BodyThere /\ CmdFails({})

Advance ==
    \/ HeaderUnreadable
    \/ HandleCmd(FALSE)
    \/ HandleCmdUndefined
    \/ SkipCmd
    \/ SeekFullPacket(FALSE)
    \/ StopAtTarget
    \/ BodyMissing
    \/ PlayAstray

Fails ==
    \/ HandleCmd(TRUE)
    \/ SeekFullPacket(TRUE)
    \/ More /\ \E written \in SUBSET Writable : CmdFails(written)
    \/ ReaderFails

Next ==
    \/ CallRunToEnd
    \/ \E target \in Targets : CallRunToTick(target)
    \/ Advance
    \/ Fails

Spec == Init /\ [][Next]_vars

\* The loop runs on the caller's thread: a call that was made is executed.  The
\* visitor, the reader and the decoders owe nobody an error.
FairSpec == Spec /\ WF_vars(Advance)

-----------------------------------------------------------------------------
(* What is promised.                                                       *)

\* While no command was passed over since the last reset or snapshot, entities
\* and string tables are those the server had at the stream's position.
ReplayFaithful == mode # "crashed" /\ ~missed => world = Rec.server[pos]

\* How many commands a seek to the target has to consume.
Landing(target) ==
    {n \in 0..Len(Rec.cmds) :
        /\ \A i \in 1..n : Rec.cmds[i].tick <= target
        /\ \A i \in (n + 1)..Len(Rec.cmds) : Rec.cmds[i].tick > target}

SoughtWell == mode = "idle" /\ result = [call |-> "run_to_tick", ok |-> TRUE]

\* A seek that returns Ok stands right behind the last command whose tick does
\* not exceed the target, and ctx.tick is that command's tick: the header that
\* was read too far is given back, also when the recording ends first.
SeekLands ==
    SoughtWell =>
        /\ pos \in Landing(target_tick)
        /\ tick = IF pos = 0 THEN -1 ELSE Rec.cmds[pos].tick

\* A seek between the first full packet and the end of the recording arrives
\* with the state that playing everything up to there would have produced:
\* handling only the strings of the full packets on the way, and the packet of
\* none but the last, loses nothing (the TODOs at parser.rs:259 and :275).
SeekExact ==
    SoughtWell
    /\ target_tick <= LastTick(Rec)
    /\ (\E i \in FullPackets(Rec) : Rec.cmds[i].tick <= target_tick)
        => world = Rec.server[pos] /\ ~missed

\* The unchecked accesses are only ever wrong after a command was passed over.
UncheckedAccessSound == mode = "crashed" => missed

\* Whoever plays without gaps has been told, by on_tick_end, of the tick that
\* the parser is in; nobody is told of the sign-on's tick -1.
TickReported == ~missed => tick_end = tick

\* Every call returns, unless it accesses what is not there or plays on where the
\* reader failed.
CallsReturn == mode \in Running ~> mode \in {"idle", "crashed", "lost"}

\* parser.rs:280 says of the on_tick_end call that follows a full packet that
\* there is "absolutely no reason to check if tick changed because it changed":
\* the tick it is called for is not the one it was called for last.
FullPacketEndsNewTick ==
    [][(\E failed \in BOOLEAN : SeekFullPacket(failed)) => Cmd.tick # tick_end]_vars
=============================================================================

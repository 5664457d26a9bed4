--------------------------- MODULE PlaybackProofs ---------------------------
(***************************************************************************)
(* Playback's properties, for every recording that is well-formed, every   *)
(* target and every interval: the type invariant, and that what is played  *)
(* or sought is what the server had.                                       *)
(*                                                                         *)
(* The argument is about the phases of a seek.  Up to the sync tick every  *)
(* command is handled.  Then, until a full packet is handled whole, no     *)
(* entity exists and the tables that exist are those of the sign-on; the   *)
(* last full packet met, if any, lies further from the target than the     *)
(* interval, so that the recording must hold another one before the        *)
(* target.  From the first full packet that is handled whole on, nothing   *)
(* is skipped and no later full packet is cut short.                       *)
(***************************************************************************)
EXTENDS Playback, TLAPS

\* How far behind the target a full packet must be for another to be expected.
Reach == FullPacketInterval(Rec.tps) + Slack

NoFullPacketYet == \A i \in FullPackets(Rec) : i > pos

\* The last full packet before the position was too far from the target.
LastOneCutShort ==
    \E i \in FullPackets(Rec) :
        /\ i <= pos
        /\ \A j \in FullPackets(Rec) : j <= pos => j <= i
        /\ target_tick - Rec.cmds[i].tick > Reach

TickTracksPosition == ~astray => tick = IF pos = 0 THEN -1 ELSE Rec.cmds[pos].tick

\* After the sync tick and before a full packet has been handled whole.
AwaitingSnapshot ==
    /\ \A e \in Entity : world[e] = None
    /\ \A t \in Table : world[t] = None <=> Rec.server[pos][t] = None
    /\ NoFullPacketYet \/ LastOneCutShort

SignOnTracked == did_handle_first_sync_tick <=> pos >= Rec.sync
NotPastTarget == \A i \in 1..pos : Rec.cmds[i].tick <= target_tick
IntervalKnown == (\E i \in 1..pos : Rec.cmds[i].tps # 0)
                     => full_packet_interval = FullPacketInterval(Rec.tps)
MissedOnlyAwaiting == missed => pos >= Rec.sync /\ ~did_handle_last_full_packet
HandledOneClose == did_handle_last_full_packet =>
                       pos >= Rec.sync /\ target_tick - tick <= Reach
Awaiting == pos >= Rec.sync /\ ~did_handle_last_full_packet => AwaitingSnapshot

SeekPhase ==
    /\ SignOnTracked
    /\ NotPastTarget
    /\ IntervalKnown
    /\ MissedOnlyAwaiting
    /\ HandledOneClose
    /\ Awaiting

SeekInv == mode = "run_to_tick" => SeekPhase

IInv ==
    /\ TypeOK
    /\ TickTracksPosition
    /\ ReplayFaithful
    /\ SeekInv
    /\ SeekLands
    /\ SeekExact
    /\ UncheckedAccessSound
    /\ TickReported
-----------------------------------------------------------------------------
(* Facts about recordings and deltas.                                      *)

\* The recording that is played is well-formed, and no action changes it.
LEMMA RecWellFormed ==
    ASSUME TypeOK
    PROVE  WellFormed(Rec) /\ Len(Rec.cmds) \in Nat /\ Len(Rec.cmds) > 0
<1>1. WellFormed(Rec)
  BY PlaybackAssumption DEF TypeOK, Rec
<1>2. Rec.cmds \in Seq(Command) /\ Rec.cmds # <<>>
  BY <1>1 DEF WellFormed, WellTyped
<1>. QED
  BY <1>1, <1>2

\* The recording stays the same as long as its name does.
LEMMA RecFixed ==
    ASSUME demo' = demo
    PROVE  Rec' = Rec
BY DEF Rec

\* Every command of the recording, and the server's state around it, is typed.
LEMMA CommandTyped ==
    ASSUME TypeOK, NEW i \in 1..Len(Rec.cmds)
    PROVE  /\ Rec.cmds[i].tick \in Int
           /\ Rec.cmds[i].delta \in Delta
           /\ Rec.cmds[i].tps \in Nat
           /\ Rec.server[i] \in World
           /\ Rec.server[i - 1] \in World
<1>1. WellTyped(Rec) /\ Len(Rec.cmds) \in Nat
  BY RecWellFormed DEF WellFormed
<1>2. Rec.cmds[i] \in Command
  BY <1>1 DEF WellTyped
<1>3. i \in 0..Len(Rec.cmds) /\ i - 1 \in 0..Len(Rec.cmds)
  BY <1>1
<1>4. Rec.server[i] \in World /\ Rec.server[i - 1] \in World
  BY <1>1, <1>3 DEF WellTyped
<1>. QED
  BY <1>2, <1>4 DEF Command

\* The command that a cycle of the loop treats.
LEMMA NextCommand ==
    ASSUME TypeOK, More
    PROVE  /\ pos \in Nat /\ pos + 1 \in 1..Len(Rec.cmds)
           /\ Cmd = Rec.cmds[pos + 1]
           /\ Cmd.tick \in Int /\ Cmd.delta \in Delta /\ Cmd.tps \in Nat
           /\ Rec.server[pos] \in World /\ Rec.server[pos + 1] \in World
<1>1. pos \in Nat /\ pos + 1 \in 1..Len(Rec.cmds)
  BY RecWellFormed DEF TypeOK, More
<1>2. pos + 1 - 1 = pos
  BY <1>1
<1>3. Cmd = Rec.cmds[pos + 1]
  BY DEF Cmd
<1>. QED
  BY <1>1, <1>2, <1>3, CommandTyped

\* Writing a delta to a world gives a world.
LEMMA MergeTyped ==
    ASSUME NEW w \in World, NEW delta \in Delta, NEW S
    PROVE  Merge(w, delta, S) \in World
BY DEF Merge, World, Delta

\* Nothing at all is a state of the server, too.
LEMMA EmptyWorldTyped == EmptyWorld \in World
BY DEF EmptyWorld, World

\* The reckoned interval is a number of ticks.
LEMMA IntervalTyped ==
    ASSUME NEW tps \in Nat
    PROVE  FullPacketInterval(tps) \in Nat
<1>1. tps \div DefaultTicksPerSecond \in Nat
  BY PlaybackAssumption, SMT
<1>. QED
  BY <1>1, PlaybackAssumption DEF FullPacketInterval

-----------------------------------------------------------------------------
(* Type correctness.                                                       *)

\* The first state is well-typed.
LEMMA InitTyped == Init => TypeOK
<1>. SUFFICES ASSUME Init PROVE TypeOK
  OBVIOUS
<1>1. pos \in 0..Len(Rec.cmds)
  <2>1. Rec.cmds \in Seq(Command)
    BY PlaybackAssumption DEF Init, Rec, WellFormed, WellTyped
  <2>. QED
    BY <2>1 DEF Init
<1>2. result \in [call : Running \cup {"none"}, ok : BOOLEAN]
  BY DEF Init, NoResult
<1>3. world \in World
  BY EmptyWorldTyped DEF Init
<1>4. tick \in Int /\ prev_tick \in Int /\ target_tick \in Int /\ tick_end \in Int
  BY DEF Init
<1>5. mode \in Running \cup {"idle", "crashed", "lost"} /\ demo \in DOMAIN Demos
  BY DEF Init
<1>6. full_packet_interval \in Nat /\ missed \in BOOLEAN /\ did_handle_first_sync_tick \in BOOLEAN
         /\ did_handle_last_full_packet \in BOOLEAN /\ rest \in Nat /\ astray \in BOOLEAN
  BY DEF Init
<1>. QED
  BY <1>1, <1>2, <1>3, <1>4, <1>5, <1>6 DEF TypeOK

\* A call returns what a call may return.
LEMMA ReturnTyped ==
    ASSUME mode \in Running, NEW ok \in BOOLEAN, Return(ok)
    PROVE  /\ mode' \in Running \cup {"idle", "crashed", "lost"}
           /\ result' \in [call : Running \cup {"none"}, ok : BOOLEAN]
BY DEF Return

\* Every step keeps the variables in their types.
LEMMA NextTyped == TypeOK /\ [Next]_vars => TypeOK'
<1>. SUFFICES ASSUME TypeOK, [Next]_vars PROVE TypeOK'
  OBVIOUS
<1>a. Rec' = Rec /\ demo' \in DOMAIN Demos
  BY RecFixed DEF TypeOK, Next, vars, stream, CallRunToEnd, CallRunToTick, Advance, Fails,
     HeaderUnreadable, HandleCmd, HandleCmdUndefined, SkipCmd, SeekFullPacket, BodyMissing,
     CmdFails, ReaderFails, PlayAstray, StopAtTarget, Consume
<1>b. pos \in Nat /\ Len(Rec.cmds) \in Nat
  BY RecWellFormed DEF TypeOK
<1>1. CASE CallRunToEnd
  <2>1. result' \in [call : Running \cup {"none"}, ok : BOOLEAN] /\ target_tick' \in Int
    BY <1>1 DEF CallRunToEnd, NoResult
  <2>. QED
    BY <1>1, <1>a, <2>1 DEF CallRunToEnd, TypeOK, stream, ctx, Running
<1>2. ASSUME NEW target \in Targets, CallRunToTick(target) PROVE TypeOK'
  <2>1. target \in Int /\ 0 \in 0..Len(Rec.cmds)
    BY <1>b, PlaybackAssumption
  <2>2. pos' \in 0..Len(Rec.cmds) /\ world' \in World
    BY <1>2, <2>1, EmptyWorldTyped DEF CallRunToTick, Reset, Rewind
  <2>3. /\ tick' \in Int /\ prev_tick' \in Int /\ tick_end' \in Int
        /\ target_tick' \in Int /\ full_packet_interval' \in Nat
    BY <1>2, <2>1 DEF CallRunToTick, Reset, TypeOK
  <2>5. rest' \in Nat /\ astray' \in BOOLEAN
        /\ result' \in [call : Running \cup {"none"}, ok : BOOLEAN]
    BY <1>2 DEF CallRunToTick, Reset, Rewind, NoResult
  <2>4. missed' \in BOOLEAN /\ mode' \in Running \cup {"idle", "crashed", "lost"}
    BY <1>2 DEF CallRunToTick, Reset, Running
  <2>. QED
    BY <1>2, <1>a, <2>2, <2>3, <2>4, <2>5 DEF CallRunToTick, TypeOK
<1>3. CASE HeaderUnreadable
  <2>1. (rest' = Rec.rest) \in BOOLEAN
    OBVIOUS
  <2>2. rest' \in Nat
    BY <1>3 DEF HeaderUnreadable, TypeOK
  <2>3. /\ mode' \in Running \cup {"idle", "crashed", "lost"}
        /\ result' \in [call : Running \cup {"none"}, ok : BOOLEAN]
    BY <1>3, <2>1, ReturnTyped DEF HeaderUnreadable
  <2>. QED
    BY <1>3, <1>a, <2>2, <2>3 DEF HeaderUnreadable, TypeOK, ctx, locals
<1>4. ASSUME NEW failed \in BOOLEAN, HandleCmd(failed) PROVE TypeOK'
  <2>a. More
    BY <1>4 DEF HandleCmd
  <2>b. Merge(world, Cmd.delta, Slot) \in World /\ FullPacketInterval(Cmd.tps) \in Nat
    BY <2>a, NextCommand, MergeTyped, IntervalTyped DEF TypeOK
  <2>1. world' \in World /\ full_packet_interval' \in Nat
    BY <1>4, <2>b DEF HandleCmd, HandleCmdEffect, TypeOK
  <2>2. /\ tick' \in Int /\ prev_tick' \in Int /\ tick_end' \in Int
        /\ pos' \in 0..Len(Rec.cmds)
    BY <1>4, <1>b, NextCommand DEF HandleCmd, Consume, ReadHeader, TypeOK
  <2>3. did_handle_first_sync_tick' \in BOOLEAN
    BY <1>4 DEF HandleCmd, NoteSyncTick, TypeOK
  <2>4. /\ mode' \in Running \cup {"idle", "crashed", "lost"}
        /\ result' \in [call : Running \cup {"none"}, ok : BOOLEAN]
    BY <1>4, ReturnTyped DEF HandleCmd, TypeOK, More
  <2>. QED
    BY <1>4, <1>a, <2>1, <2>2, <2>3, <2>4 DEF HandleCmd, Consume, TypeOK
<1>5. CASE HandleCmdUndefined
  BY <1>5, <1>a DEF HandleCmdUndefined, TypeOK, stream, ctx, locals
<1>6. CASE SkipCmd
  <2>1. rest' \in Nat
    BY <1>6 DEF SkipCmd, TypeOK
  <2>. QED
    BY <1>6, <1>a, <1>b, <2>1, NextCommand
       DEF SkipCmd, Consume, ReadHeader, TypeOK, locals
<1>7. ASSUME NEW failed \in BOOLEAN, SeekFullPacket(failed) PROVE TypeOK'
  <2>1. world' \in World
    BY <1>7, NextCommand, MergeTyped DEF SeekFullPacket, HandleFullPacketEffect, TypeOK
  <2>2. /\ tick' \in Int /\ prev_tick' \in Int /\ tick_end' \in Int
        /\ pos' \in 0..Len(Rec.cmds)
    BY <1>7, <1>b, NextCommand DEF SeekFullPacket, Consume, ReadHeader, TypeOK
  <2>3. did_handle_last_full_packet' \in BOOLEAN /\ missed' \in BOOLEAN
    BY <1>7 DEF SeekFullPacket, HasFullPacketAhead, TypeOK
  <2>4. /\ mode' \in Running \cup {"idle", "crashed", "lost"}
        /\ result' \in [call : Running \cup {"none"}, ok : BOOLEAN]
    BY <1>7, ReturnTyped DEF SeekFullPacket, TypeOK, More
  <2>. QED
    BY <1>7, <1>a, <2>1, <2>2, <2>3, <2>4 DEF SeekFullPacket, Consume, TypeOK
<1>8. ASSUME NEW written, CmdFails(written) PROVE TypeOK'
  <2>1. /\ tick' \in Int /\ prev_tick' \in Int
        /\ pos' \in 0..Len(Rec.cmds)
    BY <1>8, <1>b, NextCommand DEF CmdFails, Consume, ReadHeader, TypeOK
  <2>2. did_handle_first_sync_tick' \in BOOLEAN
    BY <1>8 DEF CmdFails, NoteSyncTick, TypeOK
  <2>3. world' \in World /\ full_packet_interval' \in Nat
    BY <1>8, NextCommand, MergeTyped, IntervalTyped DEF CmdFails, TypeOK
  <2>4. /\ mode' \in Running \cup {"idle", "crashed", "lost"}
        /\ result' \in [call : Running \cup {"none"}, ok : BOOLEAN]
    BY <1>8, ReturnTyped DEF CmdFails, More
  <2>. QED
    BY <1>8, <1>a, <2>1, <2>2, <2>3, <2>4 DEF CmdFails, Consume, TypeOK
<1>11. CASE ReaderFails
  <2>1. /\ mode' \in Running \cup {"idle", "crashed", "lost"}
        /\ result' \in [call : Running \cup {"none"}, ok : BOOLEAN]
    BY <1>11, ReturnTyped DEF ReaderFails
  <2>2. tick' \in Int /\ prev_tick' \in Int
    BY <1>11, NextCommand DEF ReaderFails, ReadHeader, TypeOK
  <2>. QED
    BY <1>11, <1>a, <2>1, <2>2 DEF ReaderFails, TypeOK, locals
<1>12. CASE PlayAstray
  BY <1>12, <1>a DEF PlayAstray, TypeOK, stream, ctx, locals
<1>9. CASE StopAtTarget
  BY <1>9, <1>a DEF StopAtTarget, Return, More, TypeOK, stream, locals, Running
<1>10. CASE UNCHANGED vars
  BY <1>10, <1>a DEF vars, stream, ctx, locals, TypeOK
<1>. QED
  BY <1>1, <1>2, <1>3, <1>4, <1>5, <1>6, <1>7, <1>8, <1>9, <1>10, <1>11, <1>12
     DEF Next, Advance, Fails, BodyMissing

\* Every variable keeps its type, whatever the recording and the targets.
THEOREM PlaybackTypeOK == Spec => []TypeOK
<1>. QED
  BY InitTyped, NextTyped, PTL DEF Spec

-----------------------------------------------------------------------------
(* What one command does to a world that is, or is not yet, the server's.  *)

\* The recording's promise about the command that is next.
LEMMA ServerStep ==
    ASSUME TypeOK, More
    PROVE  /\ Cmd.cmd = "Packet" =>
                /\ Cmd.needs \subseteq Live(Rec.server[pos])
                /\ Rec.server[pos + 1] = Merge(Rec.server[pos], Cmd.delta, Slot)
           /\ Cmd.cmd # "Packet" => Rec.server[pos + 1] = Rec.server[pos] /\ Cmd.tps = 0
           /\ Cmd.cmd = "FullPacket" => Cmd.delta = Snapshot(Rec.server[pos + 1])
<1>. DEFINE n == pos + 1
<1>1. n \in 1..Len(Rec.cmds) /\ n - 1 = pos /\ Cmd = Rec.cmds[n]
  BY NextCommand
<1>2. Faithful(Rec)
  BY RecWellFormed DEF WellFormed
<1>. HIDE DEF n
<1>3. /\ Cmd.cmd = "Packet" =>
           /\ Cmd.needs \subseteq Live(Rec.server[n - 1])
           /\ Rec.server[n] = Merge(Rec.server[n - 1], Cmd.delta, Slot)
      /\ Cmd.cmd # "Packet" => Rec.server[n] = Rec.server[n - 1] /\ Cmd.tps = 0
      /\ Cmd.cmd = "FullPacket" => Cmd.delta = Snapshot(Rec.server[n])
  BY <1>1, <1>2, Zenon DEF Faithful
<1>. QED
  BY <1>1, <1>3 DEF n

\* Handling a command of the linear kind keeps the world the server's.
LEMMA HandleCmdFaithful ==
    ASSUME TypeOK, More, HandleCmdEffect, world = Rec.server[pos]
    PROVE  world' = Rec.server[pos + 1]
BY ServerStep DEF HandleCmdEffect

\* A snapshot written over the server's own state changes nothing ...
LEMMA SnapshotIdempotent ==
    ASSUME NEW w \in World, NEW S
    PROVE  Merge(w, Snapshot(w), S) = w
<1>1. w = [s \in Slot |-> w[s]]
  BY DEF World
<1>2. \A s \in Slot : Snapshot(w)[s] # Keep => Snapshot(w)[s] = w[s]
  BY DEF Snapshot
<1>. QED
  BY <1>1, <1>2 DEF Merge

\* ... and written over a world without entities, whose tables are the live
\* ones, it makes that world the server's.
LEMMA SnapshotRestores ==
    ASSUME NEW w \in World, NEW server \in World,
           \A e \in Entity : w[e] = None,
           \A t \in Table : w[t] = None <=> server[t] = None
    PROVE  Merge(w, Snapshot(server), (Table \cap Live(w)) \cup Entity) = server
<1>. DEFINE S == (Table \cap Live(w)) \cup Entity
            merged == Merge(w, Snapshot(server), S)
<1>1. server = [s \in Slot |-> server[s]]
  BY DEF World
<1>2. ASSUME NEW s \in Slot PROVE merged[s] = server[s]
  <2>1. merged[s] = IF s \in S /\ Snapshot(server)[s] # Keep
                    THEN Snapshot(server)[s] ELSE w[s]
    BY DEF Merge
  <2>2. Snapshot(server)[s] = IF server[s] = None THEN Keep ELSE server[s]
    BY DEF Snapshot
  <2>3. server[s] # Keep /\ s \in Entity \cup Table
    BY PlaybackAssumption DEF World, Slot
  <2>4. CASE server[s] = None
    BY <2>1, <2>2, <2>3, <2>4
  <2>5. CASE server[s] # None
    <3>1. s \in S
      BY <2>3, <2>5 DEF Live
    <3>. QED
      BY <3>1, <2>1, <2>2, <2>3, <2>5
  <2>. QED
    BY <2>4, <2>5
<1>3. merged = [s \in Slot |-> merged[s]]
  BY DEF Merge
<1>. HIDE DEF merged
<1>4. merged = server
  BY <1>1, <1>2, <1>3
<1>. QED
  BY <1>4 DEF merged

\* The string part alone leaves entities alone and the same tables alive.
LEMMA StringPartOnly ==
    ASSUME NEW w \in World, NEW server \in World,
           \A e \in Entity : w[e] = None,
           \A t \in Table : w[t] = None <=> server[t] = None,
           NEW m, m = Merge(w, Snapshot(server), Table \cap Live(w))
    PROVE  /\ \A e \in Entity : m[e] = None
           /\ \A t \in Table : m[t] = None <=> server[t] = None
<1>1. \A s \in Slot : m[s] = IF s \in Table /\ w[s] # None /\ Snapshot(server)[s] # Keep
                            THEN Snapshot(server)[s] ELSE w[s]
  BY DEF Merge, Live
<1>2. \A s \in Slot : Snapshot(server)[s] = IF server[s] = None THEN Keep ELSE server[s]
  BY DEF Snapshot
<1>. QED
  BY <1>1, <1>2, PlaybackAssumption DEF Slot

-----------------------------------------------------------------------------
(* The phases of a seek.                                                   *)

\* ctx.tick is always the tick of the last command consumed.
LEMMA TickStep ==
    ASSUME TypeOK, TickTracksPosition, [Next]_vars
    PROVE  TickTracksPosition'
<1>1. ASSUME Consume, More PROVE TickTracksPosition'
  <2>1. pos' = pos + 1 /\ pos' # 0 /\ tick' = Rec.cmds[pos + 1].tick /\ Rec' = Rec
    BY <1>1, NextCommand, RecFixed DEF Consume, ReadHeader
  <2>. QED
    BY <2>1 DEF TickTracksPosition
<1>2. ASSUME UNCHANGED <<demo, pos, astray, tick>> PROVE TickTracksPosition'
  BY <1>2, RecFixed DEF TickTracksPosition
<1>3. ASSUME NEW target \in Targets, CallRunToTick(target) PROVE TickTracksPosition'
  BY <1>3 DEF CallRunToTick, Reset, Rewind, TickTracksPosition
<1>4. CASE ReaderFails
  BY <1>4 DEF ReaderFails, TickTracksPosition
<1>5. CASE HandleCmdUndefined \/ HeaderUnreadable \/ StopAtTarget \/ PlayAstray \/ CallRunToEnd
  BY <1>2, <1>5 DEF HandleCmdUndefined, HeaderUnreadable, StopAtTarget, PlayAstray,
     CallRunToEnd, stream, ctx
<1>6. CASE UNCHANGED vars
  BY <1>2, <1>6 DEF vars, stream, ctx
<1>7. ASSUME NEW failed \in BOOLEAN, HandleCmd(failed) \/ SeekFullPacket(failed)
      PROVE  TickTracksPosition'
  BY <1>1, <1>7 DEF HandleCmd, SeekFullPacket
<1>8. CASE SkipCmd
  BY <1>1, <1>8 DEF SkipCmd
<1>9. ASSUME NEW written, CmdFails(written) PROVE TickTracksPosition'
  BY <1>1, <1>9 DEF CmdFails
<1>. QED
  BY <1>3, <1>4, <1>5, <1>6, <1>7, <1>8, <1>9 DEF Next, Advance, Fails, BodyMissing

\* Nothing is consumed that lies beyond the target.
LEMMA NotPastTargetStep ==
    ASSUME TypeOK, NotPastTarget, More, mode = "run_to_tick", ~PastTarget, Consume,
           target_tick' = target_tick
    PROVE  NotPastTarget'
<1>1. pos \in Nat /\ pos' = pos + 1 /\ Rec' = Rec /\ Cmd = Rec.cmds[pos + 1]
      /\ Cmd.tick \in Int
  BY NextCommand, RecFixed DEF Consume
<1>2. Rec.cmds[pos + 1].tick <= target_tick
  BY <1>1 DEF PastTarget, TypeOK
<1>3. \A i \in 1..(pos + 1) : i \in 1..pos \/ i = pos + 1
  BY <1>1
<1>. QED
  BY <1>1, <1>2, <1>3 DEF NotPastTarget

\* A command after the sync tick that is no full packet leaves the wait as it is.
LEMMA StillAwaiting ==
    ASSUME TypeOK, AwaitingSnapshot, More, pos >= Rec.sync, Cmd.cmd # "FullPacket",
           Consume, world' = world, target_tick' = target_tick
    PROVE  AwaitingSnapshot'
<1>. DEFINE n == Len(Rec.cmds)
<1>1. /\ pos \in Nat /\ pos' = pos + 1 /\ pos + 1 \in 1..n /\ Rec' = Rec
      /\ Cmd = Rec.cmds[pos + 1] /\ n \in Nat
  BY NextCommand, RecWellFormed, RecFixed DEF Consume
<1>2. SignsOn(Rec) /\ Rec.sync \in Nat
  BY RecWellFormed DEF WellFormed, WellTyped
<1>3. pos \in Rec.sync..n /\ pos + 1 \in Rec.sync..n
  BY <1>1, <1>2
<1>4. \A t \in Table : Rec.server[pos + 1][t] = None <=> Rec.server[pos][t] = None
  BY <1>2, <1>3 DEF SignsOn
<1>5. pos + 1 \notin FullPackets(Rec)
  BY <1>1 DEF FullPackets
<1>6. \A i \in FullPackets(Rec) : i \in Nat /\ (i <= pos + 1 => i <= pos)
  BY <1>1, <1>5 DEF FullPackets
<1>7. NoFullPacketYet => NoFullPacketYet'
  BY <1>1, <1>6 DEF NoFullPacketYet
<1>8. LastOneCutShort => LastOneCutShort'
  <2>1. SUFFICES ASSUME NEW i \in FullPackets(Rec), i <= pos,
                        \A j \in FullPackets(Rec) : j <= pos => j <= i,
                        target_tick - Rec.cmds[i].tick > Reach
                 PROVE  LastOneCutShort'
    BY DEF LastOneCutShort
  <2>2. i <= pos + 1 /\ \A j \in FullPackets(Rec) : j <= pos + 1 => j <= i
    BY <1>1, <1>6, <2>1
  <2>3. Reach' = Reach
    BY <1>1 DEF Reach
  <2>. QED
    BY <1>1, <2>1, <2>2, <2>3 DEF LastOneCutShort
<1>. QED
  BY <1>1, <1>4, <1>7, <1>8 DEF AwaitingSnapshot

\* The interval that the parser reckons with is right once the sync tick has
\* been handled.
LEMMA IntervalAfterSync ==
    ASSUME TypeOK, IntervalKnown, pos >= Rec.sync
    PROVE  full_packet_interval = FullPacketInterval(Rec.tps)
<1>1. PICK i \in 1..Rec.sync : Rec.cmds[i].tps # 0
  BY RecWellFormed DEF WellFormed, SignsOn
<1>2. i \in 1..pos
  BY RecWellFormed DEF TypeOK, WellFormed, WellTyped
<1>. QED
  BY <1>1, <1>2 DEF IntervalKnown

\* A server info message announces the recording's tick rate, before the sync.
LEMMA IntervalStep ==
    ASSUME TypeOK, IntervalKnown, More, Consume,
           \/ HandleCmdEffect
           \/ UNCHANGED full_packet_interval /\ pos >= Rec.sync
    PROVE  IntervalKnown'
<1>1. /\ pos \in Nat /\ pos' = pos + 1 /\ pos + 1 \in 1..Len(Rec.cmds) /\ Rec' = Rec
      /\ Cmd = Rec.cmds[pos + 1]
  BY NextCommand, RecFixed DEF Consume
<1>2. \A i \in 1..(pos + 1) : i \in 1..pos \/ i = pos + 1
  BY <1>1
<1>3. Cmd.tps # 0 => Cmd.tps = Rec.tps /\ pos + 1 <= Rec.sync
  BY <1>1, RecWellFormed DEF WellFormed, SignsOn
<1>4. Cmd.cmd # "Packet" => Cmd.tps = 0
  BY ServerStep
<1>5. CASE Cmd.tps # 0
  <2>1. Cmd.cmd = "Packet" /\ ~(pos >= Rec.sync)
    BY <1>1, <1>3, <1>4, <1>5, RecWellFormed DEF WellFormed, WellTyped
  <2>2. full_packet_interval' = FullPacketInterval(Rec.tps)
    BY <1>3, <1>5, <2>1 DEF HandleCmdEffect
  <2>. QED
    BY <1>1, <2>2 DEF IntervalKnown
<1>6. CASE Cmd.tps = 0
  <2>1. full_packet_interval' = full_packet_interval
    BY <1>6 DEF HandleCmdEffect
  <2>2. \A i \in 1..(pos + 1) : Rec.cmds[i].tps # 0 => i \in 1..pos
    BY <1>1, <1>2, <1>6
  <2>. QED
    BY <1>1, <2>1, <2>2 DEF IntervalKnown
<1>. QED
  BY <1>5, <1>6

\* So is what the parser reckons with.
LEMMA ReachTyped ==
    ASSUME TypeOK
    PROVE  Reach \in Nat
<1>1. Rec.tps \in Nat
  BY RecWellFormed DEF WellFormed, WellTyped
<1>2. FullPacketInterval(Rec.tps) \in Nat
  BY <1>1, IntervalTyped
<1>. QED
  BY <1>2, PlaybackAssumption DEF Reach

\* Ticks do not decrease, so that what was close to the target stays close.
LEMMA CloserAndCloser ==
    ASSUME TypeOK, TickTracksPosition, More, pos >= Rec.sync,
           target_tick - tick <= Reach
    PROVE  target_tick - Cmd.tick <= Reach
<1>1. /\ pos \in Nat /\ pos + 1 \in 1..Len(Rec.cmds) /\ Cmd = Rec.cmds[pos + 1]
      /\ Cmd.tick \in Int /\ Rec.sync \in Nat /\ Rec.sync > 0
  BY NextCommand, RecWellFormed DEF WellFormed, WellTyped
<1>2. pos \in 1..Len(Rec.cmds) /\ pos < pos + 1
  BY <1>1
<1>3. tick <= Cmd.tick
  BY <1>1, <1>2, RecWellFormed DEF WellFormed, TicksGrow, TickTracksPosition, More
<1>. QED
  BY <1>1, <1>3, ReachTyped DEF TypeOK

\* The sign-on: every command is handled, up to and including the sync tick.
LEMMA SignOnStep ==
    ASSUME TypeOK, SeekPhase, ReplayFaithful, mode = "run_to_tick", More,
           ~did_handle_first_sync_tick, ~PastTarget, Consume, NoteSyncTick,
           HandleCmdEffect, UNCHANGED <<target_tick, did_handle_last_full_packet, missed>>
    PROVE  SeekPhase'
<1>1. /\ pos \in Nat /\ pos' = pos + 1 /\ pos + 1 \in 1..Len(Rec.cmds) /\ Rec' = Rec
      /\ Cmd = Rec.cmds[pos + 1]
  BY NextCommand, RecFixed DEF Consume
<1>2. Rec.sync \in Nat /\ Rec.sync > 0 /\ SignsOn(Rec)
  BY RecWellFormed DEF WellFormed, WellTyped
<1>3. ~(pos >= Rec.sync) /\ ~missed /\ ~did_handle_last_full_packet
  BY DEF SeekPhase, SignOnTracked, MissedOnlyAwaiting, HandledOneClose
<1>4. SignOnTracked'
  <2>1. did_handle_first_sync_tick' <=> Cmd.cmd = "SyncTick"
    BY DEF NoteSyncTick
  <2>2. Cmd.cmd = "SyncTick" <=> pos + 1 = Rec.sync
    BY <1>1, <1>2 DEF SignsOn
  <2>. QED
    BY <1>1, <1>2, <1>3, <2>1, <2>2 DEF SignOnTracked
<1>5. NotPastTarget'
  BY NotPastTargetStep DEF SeekPhase
<1>6. IntervalKnown'
  BY IntervalStep DEF SeekPhase
<1>7. MissedOnlyAwaiting' /\ HandledOneClose'
  BY <1>3 DEF MissedOnlyAwaiting, HandledOneClose
<1>8. ASSUME pos' >= Rec.sync PROVE AwaitingSnapshot'
  <2>1. pos + 1 = Rec.sync
    BY <1>1, <1>2, <1>3, <1>8
  <2>2. world' = Rec.server[pos + 1]
    BY <1>3, HandleCmdFaithful DEF ReplayFaithful
  <2>3. \A e \in Entity : world'[e] = None
    BY <1>2, <2>1, <2>2 DEF SignsOn
  <2>4. NoFullPacketYet'
    BY <1>1, <1>2, <2>1 DEF NoFullPacketYet, SignsOn
  <2>. QED
    BY <1>1, <2>2, <2>3, <2>4 DEF AwaitingSnapshot
<1>9. Awaiting'
  BY <1>1, <1>8 DEF Awaiting
<1>. QED
  BY <1>4, <1>5, <1>6, <1>7, <1>9 DEF SeekPhase

\* Between the sync tick and a full packet handled whole, commands are skipped.
LEMMA SkipStep ==
    ASSUME TypeOK, SeekPhase, mode = "run_to_tick", SkipCmd
    PROVE  SeekPhase'
<1>1. /\ More /\ Consume /\ ~PastTarget /\ did_handle_first_sync_tick
      /\ Cmd.cmd # "FullPacket" /\ ~did_handle_last_full_packet
  BY DEF SkipCmd, Flow
<1>2. /\ pos \in Nat /\ pos' = pos + 1 /\ Rec' = Rec
      /\ UNCHANGED <<full_packet_interval, world, locals>>
  BY <1>1, NextCommand, RecFixed DEF Consume, SkipCmd
<1>3. pos >= Rec.sync /\ pos + 1 >= Rec.sync
  BY <1>1, <1>2, RecWellFormed DEF SeekPhase, SignOnTracked, WellFormed, WellTyped
<1>4. SignOnTracked' /\ MissedOnlyAwaiting' /\ HandledOneClose'
  BY <1>1, <1>2, <1>3 DEF locals, SignOnTracked, MissedOnlyAwaiting, HandledOneClose
<1>5. NotPastTarget'
  BY <1>1, <1>2, NotPastTargetStep DEF SeekPhase, locals
<1>6. IntervalKnown'
  BY <1>1, <1>2, <1>3, IntervalStep DEF SeekPhase
<1>7. Awaiting'
  <2>1. AwaitingSnapshot
    BY <1>1, <1>3 DEF SeekPhase, Awaiting
  <2>. QED
    BY <1>1, <1>2, <1>3, <2>1, StillAwaiting DEF locals, Awaiting
<1>. QED
  BY <1>4, <1>5, <1>6, <1>7 DEF SeekPhase

\* After the full packet that was handled whole, commands are handled again.
LEMMA ResumedStep ==
    ASSUME TypeOK, TickTracksPosition, SeekPhase, mode = "run_to_tick", More,
           did_handle_first_sync_tick, did_handle_last_full_packet, ~PastTarget,
           Consume, NoteSyncTick, HandleCmdEffect,
           UNCHANGED <<target_tick, did_handle_last_full_packet, missed>>
    PROVE  SeekPhase'
<1>1. /\ pos \in Nat /\ pos' = pos + 1 /\ Rec' = Rec /\ tick' = Cmd.tick
  BY NextCommand, RecFixed DEF Consume, ReadHeader
<1>2. ~missed /\ pos >= Rec.sync /\ pos + 1 >= Rec.sync
  BY <1>1, RecWellFormed
     DEF SeekPhase, MissedOnlyAwaiting, HandledOneClose, WellFormed, WellTyped
<1>3. SignOnTracked' /\ MissedOnlyAwaiting' /\ Awaiting'
  BY <1>1, <1>2 DEF NoteSyncTick, SignOnTracked, MissedOnlyAwaiting, Awaiting
<1>4. HandledOneClose'
  <2>1. target_tick - Cmd.tick <= Reach
    BY <1>2, CloserAndCloser DEF SeekPhase, HandledOneClose
  <2>. QED
    BY <1>1, <1>2, <2>1 DEF HandledOneClose, Reach
<1>5. NotPastTarget'
  BY NotPastTargetStep DEF SeekPhase
<1>6. IntervalKnown'
  BY IntervalStep DEF SeekPhase
<1>. QED
  BY <1>3, <1>4, <1>5, <1>6 DEF SeekPhase

\* What a seek knows when it meets a full packet.
LEMMA FullPacketMet ==
    ASSUME TypeOK, SeekPhase, ReplayFaithful, mode = "run_to_tick", More,
           Flow = "IgnoreCmd"
    PROVE  /\ ~PastTarget /\ did_handle_first_sync_tick /\ pos >= Rec.sync
           /\ pos + 1 \in FullPackets(Rec)
           /\ Cmd.delta = Snapshot(Rec.server[pos + 1])
           /\ Rec.server[pos + 1] = Rec.server[pos]
           /\ HasFullPacketAhead <=> target_tick - Cmd.tick > Reach
           /\ ~missed => world = Rec.server[pos]
<1>1. ~PastTarget /\ did_handle_first_sync_tick /\ Cmd.cmd = "FullPacket"
  BY DEF Flow
<1>2. pos >= Rec.sync
  BY <1>1 DEF SeekPhase, SignOnTracked
<1>3. full_packet_interval = FullPacketInterval(Rec.tps)
  BY <1>2, IntervalAfterSync DEF SeekPhase
<1>4. pos + 1 \in FullPackets(Rec)
  BY <1>1, NextCommand DEF FullPackets
<1>5. HasFullPacketAhead <=> target_tick - Cmd.tick > Reach
  BY <1>3 DEF HasFullPacketAhead, Reach
<1>6. ~missed => world = Rec.server[pos]
  BY DEF ReplayFaithful
<1>. QED
  BY <1>1, <1>2, <1>4, <1>5, <1>6, ServerStep

\* A full packet of which only the strings are handled prolongs the wait.
LEMMA CutShortStep ==
    ASSUME TypeOK, TickTracksPosition, SeekPhase, ReplayFaithful, mode = "run_to_tick",
           NEW failed \in BOOLEAN, SeekFullPacket(failed), HasFullPacketAhead
    PROVE  /\ ~did_handle_last_full_packet
           /\ AwaitingSnapshot'
           /\ ~missed => world' = Rec.server[pos + 1]
<1>1. More /\ Flow = "IgnoreCmd" /\ Consume /\ HandleFullPacketEffect
      /\ UNCHANGED target_tick
  BY DEF SeekFullPacket
<1>2. /\ pos \in Nat /\ pos' = pos + 1 /\ Rec' = Rec /\ Cmd = Rec.cmds[pos + 1]
      /\ Cmd.tick \in Int /\ Rec.server[pos + 1] \in World
  BY <1>1, NextCommand, RecFixed DEF Consume
<1>3. /\ pos >= Rec.sync /\ pos + 1 \in FullPackets(Rec)
      /\ Cmd.delta = Snapshot(Rec.server[pos + 1])
      /\ Rec.server[pos + 1] = Rec.server[pos]
      /\ target_tick - Cmd.tick > Reach
      /\ ~missed => world = Rec.server[pos]
  BY <1>1, FullPacketMet
<1>4. ~did_handle_last_full_packet
  <2>. SUFFICES ASSUME did_handle_last_full_packet PROVE FALSE
    OBVIOUS
  <2>1. target_tick - Cmd.tick <= Reach
    BY <1>1, <1>3, CloserAndCloser DEF SeekPhase, HandledOneClose
  <2>. QED
    BY <1>2, <1>3, <2>1, ReachTyped DEF TypeOK
<1>5. AwaitingSnapshot
  BY <1>3, <1>4 DEF SeekPhase, Awaiting
<1>6. world' = Merge(world, Snapshot(Rec.server[pos + 1]), Table \cap Live(world))
  BY <1>1, <1>3 DEF HandleFullPacketEffect, FullPacketSlots
<1>7. /\ \A e \in Entity : world[e] = None
      /\ \A t \in Table : world[t] = None <=> Rec.server[pos + 1][t] = None
  BY <1>3, <1>5 DEF AwaitingSnapshot
<1>8. /\ \A e \in Entity : world'[e] = None
      /\ \A t \in Table : world'[t] = None <=> Rec.server[pos + 1][t] = None
  <2>. DEFINE server == Rec.server[pos + 1]
              m == world'
  <2>1. server \in World /\ world \in World
    BY <1>2 DEF TypeOK
  <2>2. /\ m = Merge(world, Snapshot(server), Table \cap Live(world))
        /\ \A e \in Entity : world[e] = None
        /\ \A t \in Table : world[t] = None <=> server[t] = None
    BY <1>6, <1>7
  <2>. HIDE DEF server, m
  <2>3. /\ \A e \in Entity : m[e] = None
        /\ \A t \in Table : m[t] = None <=> server[t] = None
    BY <2>1, <2>2, StringPartOnly
  <2>. QED
    BY <2>3 DEF server, m
<1>9. LastOneCutShort'
  <2>1. pos + 1 <= pos + 1 /\ \A j \in FullPackets(Rec) : j <= pos + 1 => j <= pos + 1
    BY <1>2
  <2>2. Reach' = Reach
    BY <1>2 DEF Reach
  <2>. QED
    BY <1>1, <1>2, <1>3, <2>1, <2>2 DEF LastOneCutShort
<1>10. AwaitingSnapshot'
  BY <1>2, <1>8, <1>9 DEF AwaitingSnapshot
<1>11. ~missed => world' = Rec.server[pos + 1]
  BY <1>2, <1>3, <1>6, SnapshotIdempotent
<1>. QED
  BY <1>4, <1>10, <1>11

\* A full packet handled whole makes the world the server's, whatever was
\* skipped before it.
LEMMA WholeStep ==
    ASSUME TypeOK, SeekPhase, ReplayFaithful, mode = "run_to_tick",
           NEW failed \in BOOLEAN, SeekFullPacket(failed), ~HasFullPacketAhead
    PROVE  world' = Rec.server[pos + 1]
<1>1. More /\ Flow = "IgnoreCmd" /\ HandleFullPacketEffect
  BY DEF SeekFullPacket
<1>2. Rec.server[pos + 1] \in World /\ world \in World
  BY <1>1, NextCommand DEF TypeOK
<1>3. /\ pos >= Rec.sync
      /\ Cmd.delta = Snapshot(Rec.server[pos + 1])
      /\ Rec.server[pos + 1] = Rec.server[pos]
      /\ ~missed => world = Rec.server[pos]
  BY <1>1, FullPacketMet
<1>4. world' = Merge(world, Snapshot(Rec.server[pos + 1]), (Table \cap Live(world)) \cup Entity)
  BY <1>1, <1>3 DEF HandleFullPacketEffect, FullPacketSlots
<1>5. CASE ~missed
  BY <1>2, <1>3, <1>4, <1>5, SnapshotIdempotent
<1>6. CASE missed
  <2>1. AwaitingSnapshot
    BY <1>3, <1>6 DEF SeekPhase, MissedOnlyAwaiting, Awaiting
  <2>2. /\ \A e \in Entity : world[e] = None
        /\ \A t \in Table : world[t] = None <=> Rec.server[pos + 1][t] = None
    BY <1>3, <2>1 DEF AwaitingSnapshot
  <2>. QED
    BY <1>2, <1>4, <2>2, SnapshotRestores
<1>7. missed \in BOOLEAN
  BY DEF TypeOK
<1>. QED
  BY <1>5, <1>6, <1>7

\* A full packet handled by a seek keeps the phase, cut short or whole.
LEMMA FullPacketStep ==
    ASSUME TypeOK, TickTracksPosition, SeekPhase, ReplayFaithful, mode = "run_to_tick",
           SeekFullPacket(FALSE)
    PROVE  SeekPhase'
<1>1. More /\ Flow = "IgnoreCmd" /\ Consume
      /\ UNCHANGED <<full_packet_interval, target_tick, did_handle_first_sync_tick>>
      /\ did_handle_last_full_packet' = ~HasFullPacketAhead
      /\ missed' = (missed /\ HasFullPacketAhead)
  BY DEF SeekFullPacket
<1>2. /\ pos \in Nat /\ pos' = pos + 1 /\ Rec' = Rec /\ tick' = Cmd.tick
      /\ Cmd.tick \in Int
  BY <1>1, NextCommand, RecFixed DEF Consume, ReadHeader
<1>3. /\ ~PastTarget /\ did_handle_first_sync_tick /\ pos >= Rec.sync
      /\ HasFullPacketAhead <=> target_tick - Cmd.tick > Reach
  BY <1>1, FullPacketMet
<1>4. pos + 1 >= Rec.sync
  BY <1>2, <1>3, RecWellFormed DEF WellFormed, WellTyped
<1>5. SignOnTracked' /\ MissedOnlyAwaiting'
  BY <1>1, <1>2, <1>3, <1>4 DEF SignOnTracked, MissedOnlyAwaiting
<1>6. NotPastTarget'
  BY <1>1, <1>3, NotPastTargetStep DEF SeekPhase
<1>7. IntervalKnown'
  BY <1>1, <1>3, IntervalStep DEF SeekPhase
<1>8. HandledOneClose'
  <2>1. ~HasFullPacketAhead => target_tick - Cmd.tick <= Reach
    BY <1>2, <1>3, ReachTyped DEF TypeOK
  <2>2. Reach' = Reach /\ target_tick' = target_tick
    BY <1>1, <1>2 DEF Reach
  <2>. QED
    BY <1>1, <1>2, <1>4, <2>1, <2>2 DEF HandledOneClose
<1>9. Awaiting'
  BY <1>1, CutShortStep DEF Awaiting
<1>. QED
  BY <1>5, <1>6, <1>7, <1>8, <1>9 DEF SeekPhase

-----------------------------------------------------------------------------
(* The inductive step, one lemma per conjunct of IInv.                     *)

\* Every step keeps a running seek in its phase.
LEMMA SeekInvStep ==
    ASSUME TypeOK, TickTracksPosition, ReplayFaithful, SeekInv, [Next]_vars
    PROVE  SeekInv'
<1>. SUFFICES ASSUME mode' = "run_to_tick" PROVE SeekPhase'
  BY DEF SeekInv
<1>1. ASSUME NEW target \in Targets, CallRunToTick(target) PROVE SeekPhase'
  <2>1. pos' = 0 /\ ~missed' /\ ~did_handle_first_sync_tick' /\ ~did_handle_last_full_packet'
        /\ Rec' = Rec
    BY <1>1, RecFixed DEF CallRunToTick, Reset, Rewind
  <2>2. Rec.sync \in Nat /\ Rec.sync > 0
    BY RecWellFormed DEF WellFormed, WellTyped
  <2>. QED
    BY <2>1, <2>2 DEF SeekPhase, SignOnTracked, NotPastTarget, IntervalKnown,
       MissedOnlyAwaiting, HandledOneClose, Awaiting
<1>2. ASSUME NEW failed \in BOOLEAN, HandleCmd(failed) PROVE SeekPhase'
  <2>1. ~failed /\ mode = "run_to_tick"
    BY <1>2 DEF HandleCmd, Return
  <2>2. SeekPhase /\ More /\ Consume /\ NoteSyncTick /\ HandleCmdEffect
        /\ UNCHANGED <<target_tick, did_handle_last_full_packet, missed>>
    BY <1>2, <2>1 DEF HandleCmd, SeekInv
  <2>3. /\ ~PastTarget
        /\ \/ ~did_handle_first_sync_tick
           \/ did_handle_first_sync_tick /\ did_handle_last_full_packet
    BY <1>2, <2>1 DEF HandleCmd, Flow
  <2>. QED
    BY <2>1, <2>2, <2>3, SignOnStep, ResumedStep
<1>3. CASE SkipCmd
  <2>1. mode = "run_to_tick" /\ SeekPhase
    BY <1>3 DEF SkipCmd, SeekInv
  <2>. QED
    BY <1>3, <2>1, SkipStep
<1>4. ASSUME NEW failed \in BOOLEAN, SeekFullPacket(failed) PROVE SeekPhase'
  <2>1. ~failed /\ mode = "run_to_tick"
    BY <1>4 DEF SeekFullPacket, Return
  <2>2. SeekPhase /\ SeekFullPacket(FALSE)
    BY <1>4, <2>1 DEF SeekInv
  <2>. QED
    BY <2>1, <2>2, FullPacketStep
<1>5. CASE UNCHANGED vars
  <2>1. /\ UNCHANGED <<pos, tick, full_packet_interval, world, target_tick, missed,
                       did_handle_first_sync_tick, did_handle_last_full_packet>>
        /\ Rec' = Rec /\ SeekPhase
    BY <1>5, RecFixed DEF vars, stream, ctx, locals, SeekInv
  <2>. QED
    BY <2>1 DEF SeekPhase, SignOnTracked, NotPastTarget, IntervalKnown,
       MissedOnlyAwaiting, HandledOneClose, Awaiting, AwaitingSnapshot, NoFullPacketYet,
       LastOneCutShort, Reach
<1>6. CASE CallRunToEnd \/ HeaderUnreadable \/ HandleCmdUndefined \/ ReaderFails \/ PlayAstray
             \/ StopAtTarget
  BY <1>6 DEF CallRunToEnd, HeaderUnreadable, HandleCmdUndefined, ReaderFails, PlayAstray,
     StopAtTarget, Return
<1>7. ASSUME NEW written, CmdFails(written) PROVE FALSE
  BY <1>7 DEF CmdFails, Return
<1>. QED
  BY <1>1, <1>2, <1>3, <1>4, <1>5, <1>6, <1>7 DEF Next, Advance, Fails, BodyMissing

\* Every step keeps the containers faithful.
LEMMA FaithfulStep ==
    ASSUME TypeOK, TickTracksPosition, ReplayFaithful, SeekInv, [Next]_vars
    PROVE  ReplayFaithful'
<1>. SUFFICES ASSUME mode' # "crashed", ~missed' PROVE world' = Rec'.server[pos']
  BY DEF ReplayFaithful
<1>1. ASSUME NEW target \in Targets, CallRunToTick(target)
      PROVE  world' = Rec'.server[pos']
  BY <1>1, RecWellFormed, RecFixed DEF CallRunToTick, Reset, Rewind, WellFormed, Faithful
<1>2. ASSUME NEW failed \in BOOLEAN, HandleCmd(failed) PROVE world' = Rec'.server[pos']
  <2>1. More /\ HandleCmdEffect /\ pos' = pos + 1 /\ Rec' = Rec /\ ~missed
    BY <1>2, RecFixed DEF HandleCmd, Consume
  <2>2. world = Rec.server[pos]
    BY <2>1 DEF ReplayFaithful, More, Running
  <2>. QED
    BY <2>1, <2>2, HandleCmdFaithful
<1>3. ASSUME NEW failed \in BOOLEAN, SeekFullPacket(failed)
      PROVE  world' = Rec'.server[pos']
  <2>1. More /\ Flow = "IgnoreCmd" /\ pos' = pos + 1 /\ Rec' = Rec
        /\ missed' = (missed /\ HasFullPacketAhead)
    BY <1>3, RecFixed DEF SeekFullPacket, Consume
  <2>2. mode = "run_to_tick" /\ SeekPhase
    BY <2>1 DEF Flow, SeekInv, More, Running
  <2>3. CASE HasFullPacketAhead
    BY <1>3, <2>1, <2>2, <2>3, CutShortStep
  <2>4. CASE ~HasFullPacketAhead
    BY <1>3, <2>1, <2>2, <2>4, WholeStep
  <2>. QED
    BY <2>3, <2>4
<1>4. CASE CallRunToEnd \/ HeaderUnreadable \/ StopAtTarget \/ PlayAstray \/ UNCHANGED vars
  <2>1. UNCHANGED <<world, pos, missed>> /\ Rec' = Rec /\ mode # "crashed"
    BY <1>4, RecFixed DEF CallRunToEnd, HeaderUnreadable, StopAtTarget, PlayAstray, More,
       Running, vars, stream, ctx
  <2>. QED
    BY <2>1 DEF ReplayFaithful
<1>5. CASE SkipCmd \/ ReaderFails \/ HandleCmdUndefined
  BY <1>5 DEF SkipCmd, ReaderFails, HandleCmdUndefined
<1>6. ASSUME NEW written, CmdFails(written) PROVE FALSE
  BY <1>6 DEF CmdFails
<1>. QED
  BY <1>1, <1>2, <1>3, <1>4, <1>5, <1>6 DEF Next, Advance, Fails, BodyMissing

\* No step accesses what is missing unless commands were passed over.
LEMMA SoundStep ==
    ASSUME TypeOK, ReplayFaithful, UncheckedAccessSound, [Next]_vars
    PROVE  UncheckedAccessSound'
<1>. SUFFICES ASSUME mode' = "crashed" PROVE missed'
  BY DEF UncheckedAccessSound
<1>1. CASE HandleCmdUndefined
  <2>. SUFFICES ASSUME ~missed PROVE FALSE
    BY <1>1 DEF HandleCmdUndefined, TypeOK
  <2>1. More /\ ~Sound
    BY <1>1 DEF HandleCmdUndefined
  <2>2. world = Rec.server[pos]
    BY <2>1 DEF ReplayFaithful, More, Running
  <2>. QED
    BY <2>1, <2>2, ServerStep DEF Sound
<1>2. CASE UNCHANGED vars
  BY <1>2 DEF vars, UncheckedAccessSound
<1>3. ~(mode \in Running \cup {"idle"} /\ UNCHANGED mode)
  BY DEF Running
<1>. QED
  BY <1>1, <1>2, <1>3 DEF Next, Advance, Fails, CallRunToEnd, CallRunToTick, HeaderUnreadable,
     HandleCmd, SkipCmd, SeekFullPacket, CmdFails, BodyMissing, ReaderFails, PlayAstray,
     StopAtTarget, Return, More

\* Every step reports the tick it arrives at.
LEMMA ReportedStep ==
    ASSUME TypeOK, TickReported, [Next]_vars
    PROVE  TickReported'
<1>1. ASSUME NEW failed \in BOOLEAN, HandleCmd(failed) PROVE TickReported'
  BY <1>1 DEF HandleCmd, Consume, ReadHeader, TickReported
<1>2. ASSUME NEW failed \in BOOLEAN, SeekFullPacket(failed) PROVE TickReported'
  BY <1>2 DEF SeekFullPacket, Consume, ReadHeader, TickReported
<1>3. CASE SkipCmd \/ ReaderFails
  BY <1>3 DEF SkipCmd, ReaderFails, TickReported
<1>6. ASSUME NEW written, CmdFails(written) PROVE TickReported'
  BY <1>6 DEF CmdFails, TickReported
<1>4. ASSUME NEW target \in Targets, CallRunToTick(target) PROVE TickReported'
  BY <1>4 DEF CallRunToTick, Reset, TickReported
<1>5. CASE UNCHANGED <<tick, missed, tick_end>>
  BY <1>5 DEF TickReported
<1>. QED
  BY <1>1, <1>2, <1>3, <1>4, <1>5, <1>6 DEF Next, vars, ctx, Advance, Fails, CallRunToEnd,
     HeaderUnreadable, HandleCmdUndefined, StopAtTarget, BodyMissing, PlayAstray

-----------------------------------------------------------------------------
(* How a seek returns.                                                     *)

\* The two ways in which run_to_tick returns Ok.
SeekReturns ==
    /\ mode = "run_to_tick"
    /\ HeaderUnreadable \/ StopAtTarget

\* What comes after the position lies beyond the target.
LEMMA RestIsBeyond ==
    ASSUME TypeOK, SeekReturns
    PROVE  \A i \in 1..Len(Rec.cmds) : i > pos => Rec.cmds[i].tick > target_tick
<1>1. CASE HeaderUnreadable
  BY <1>1, RecWellFormed DEF HeaderUnreadable
<1>2. CASE StopAtTarget
  <2>1. More /\ PastTarget
    BY <1>2 DEF StopAtTarget, Flow, SeekReturns
  <2>2. /\ pos \in Nat /\ pos + 1 \in 1..Len(Rec.cmds)
        /\ Rec.cmds[pos + 1].tick > target_tick
    BY <2>1, NextCommand DEF PastTarget
  <2>3. SUFFICES ASSUME NEW i \in 1..Len(Rec.cmds), i > pos
                 PROVE  Rec.cmds[i].tick > target_tick
    OBVIOUS
  <2>4. CASE i = pos + 1
    BY <2>2, <2>4
  <2>5. CASE i > pos + 1
    <3>1. Rec.cmds[pos + 1].tick <= Rec.cmds[i].tick
      BY <2>2, <2>5, RecWellFormed DEF WellFormed, TicksGrow
    <3>2. Rec.cmds[i].tick \in Int /\ Rec.cmds[pos + 1].tick \in Int
      BY <2>2, CommandTyped
    <3>. QED
      BY <2>2, <3>1, <3>2 DEF TypeOK
  <2>. QED
    BY <2>2, <2>3, <2>4, <2>5
<1>. QED
  BY <1>1, <1>2 DEF SeekReturns

\* A seek that has met no full packet, or whose last one was cut short, has
\* a target that no full packet precedes, or that lies beyond the recording.
LEMMA NothingMissed ==
    ASSUME TypeOK, SeekInv, SeekReturns, target_tick <= LastTick(Rec),
           NEW i \in FullPackets(Rec), Rec.cmds[i].tick <= target_tick
    PROVE  ~missed
<1>. SUFFICES ASSUME missed PROVE FALSE
  OBVIOUS
<1>. DEFINE n == Len(Rec.cmds)
<1>1. SeekPhase
  BY DEF SeekInv, SeekReturns
<1>2. NoFullPacketYet \/ LastOneCutShort
  BY <1>1 DEF SeekPhase, MissedOnlyAwaiting, Awaiting, AwaitingSnapshot
<1>3. \A k \in FullPackets(Rec) : k \in 1..n /\ (Rec.cmds[k].tick <= target_tick => k <= pos)
  <2>1. SUFFICES ASSUME NEW k \in FullPackets(Rec), Rec.cmds[k].tick <= target_tick, ~(k <= pos)
                 PROVE  FALSE
    BY DEF FullPackets
  <2>2. k \in 1..n /\ k > pos
    BY <2>1, RecWellFormed DEF FullPackets, TypeOK
  <2>3. Rec.cmds[k].tick > target_tick /\ Rec.cmds[k].tick \in Int
    BY <2>2, RestIsBeyond, CommandTyped
  <2>. QED
    BY <2>1, <2>3 DEF TypeOK
<1>4. CASE NoFullPacketYet
  BY <1>3, <1>4, RecWellFormed DEF NoFullPacketYet, TypeOK
<1>5. CASE LastOneCutShort
  <2>1. PICK l \in FullPackets(Rec) :
            /\ \A j \in FullPackets(Rec) : j <= pos => j <= l
            /\ target_tick - Rec.cmds[l].tick > Reach
    BY <1>5 DEF LastOneCutShort
  <2>2. /\ l \in 1..n /\ n \in 1..n /\ Rec.cmds[l].tick \in Int
        /\ LastTick(Rec) \in Int /\ Reach \in Nat /\ target_tick \in Int
    <3>1. l \in 1..n /\ n \in 1..n
      BY <1>3, RecWellFormed
    <3>2. Rec.cmds[l].tick \in Int /\ LastTick(Rec) \in Int
      BY <3>1, CommandTyped DEF LastTick
    <3>. QED
      BY <3>1, <3>2, ReachTyped DEF TypeOK
  <2>3. ~(LastTick(Rec) - Rec.cmds[l].tick <= Reach)
    BY <2>1, <2>2
  <2>4. PICK j \in FullPackets(Rec) : l < j /\ Rec.cmds[j].tick - Rec.cmds[l].tick <= Reach
    BY <2>3, RecWellFormed DEF WellFormed, SnapshotsRegular, Reach
  <2>5. j \in 1..n /\ Rec.cmds[j].tick \in Int
    BY <1>3, CommandTyped
  <2>6. Rec.cmds[j].tick <= target_tick
    BY <2>1, <2>2, <2>4, <2>5
  <2>. QED
    BY <1>3, <2>1, <2>2, <2>4, <2>5, <2>6
<1>. QED
  BY <1>2, <1>4, <1>5

\* Who has sought well after a step has just returned, or had done so before.
LEMMA SoughtWellStep ==
    ASSUME TypeOK, [Next]_vars, SoughtWell'
    PROVE  \/ SeekReturns /\ UNCHANGED <<pos, tick, world, missed, target_tick>>
           \/ SoughtWell /\ UNCHANGED <<pos, tick, world, missed, target_tick>>
<1>1. CASE HeaderUnreadable \/ StopAtTarget
  <2>1. result' = [call |-> mode, ok |-> result'.ok] /\ result'.call = "run_to_tick"
    BY <1>1 DEF HeaderUnreadable, StopAtTarget, Return, SoughtWell
  <2>2. mode = "run_to_tick"
    BY <2>1
  <2>. QED
    BY <1>1, <2>2 DEF SeekReturns, HeaderUnreadable, StopAtTarget, stream, ctx, locals
<1>2. ASSUME NEW failed \in BOOLEAN, HandleCmd(failed) \/ SeekFullPacket(failed) PROVE FALSE
  BY <1>2 DEF HandleCmd, SeekFullPacket, More, Running, Return, SoughtWell
<1>3. CASE SkipCmd \/ ReaderFails \/ PlayAstray \/ HandleCmdUndefined
  BY <1>3 DEF SkipCmd, ReaderFails, PlayAstray, HandleCmdUndefined, More, Running, Return,
     SoughtWell
<1>7. ASSUME NEW written, CmdFails(written) PROVE FALSE
  BY <1>7 DEF CmdFails, Return, SoughtWell
<1>4. CASE CallRunToEnd
  BY <1>4 DEF CallRunToEnd, SoughtWell
<1>5. ASSUME NEW target \in Targets, CallRunToTick(target) PROVE FALSE
  BY <1>5 DEF CallRunToTick, SoughtWell
<1>6. CASE UNCHANGED vars
  BY <1>6 DEF vars, stream, ctx, locals, SoughtWell
<1>. QED
  BY <1>1, <1>2, <1>3, <1>4, <1>5, <1>6, <1>7 DEF Next, Advance, Fails, BodyMissing

\* No step changes the recording.
LEMMA RecKept ==
    ASSUME [Next]_vars
    PROVE  Rec' = Rec
BY RecFixed DEF Next, vars, stream, CallRunToEnd, CallRunToTick, Advance, Fails,
   HeaderUnreadable, HandleCmd, HandleCmdUndefined, SkipCmd, SeekFullPacket, BodyMissing,
   CmdFails, ReaderFails, PlayAstray, StopAtTarget, Consume

\* A seek that returns has landed.
LEMMA LandsStep ==
    ASSUME TypeOK, TickTracksPosition, SeekInv, SeekLands, [Next]_vars
    PROVE  SeekLands'
<1>. SUFFICES ASSUME SoughtWell'
              PROVE  (/\ pos \in Landing(target_tick)
                      /\ tick = IF pos = 0 THEN -1 ELSE Rec.cmds[pos].tick)'
  BY DEF SeekLands
<1>1. CASE SeekReturns /\ UNCHANGED <<pos, tick, target_tick>>
  <2>1. pos \in 0..Len(Rec.cmds) /\ pos \in Nat
    BY RecWellFormed DEF TypeOK
  <2>2. \A i \in 1..pos : Rec.cmds[i].tick <= target_tick
    BY <1>1 DEF SeekReturns, SeekInv, SeekPhase, NotPastTarget
  <2>3. \A i \in (pos + 1)..Len(Rec.cmds) : i \in 1..Len(Rec.cmds) /\ i > pos
    BY <2>1
  <2>4. \A i \in (pos + 1)..Len(Rec.cmds) : Rec.cmds[i].tick > target_tick
    BY <1>1, <2>3, RestIsBeyond
  <2>5. pos \in Landing(target_tick)
    BY <2>1, <2>2, <2>4 DEF Landing
  <2>. QED
    BY <1>1, <2>5, RecKept DEF TickTracksPosition, Landing, SeekReturns, HeaderUnreadable,
       StopAtTarget, More
<1>2. CASE SoughtWell /\ UNCHANGED <<pos, tick, target_tick>>
  BY <1>2, RecKept DEF SeekLands, Landing
<1>. QED
  BY <1>1, <1>2, SoughtWellStep

\* A seek that returns within the recording has the server's state.
LEMMA ExactStep ==
    ASSUME TypeOK, ReplayFaithful, SeekInv, SeekExact, [Next]_vars
    PROVE  SeekExact'
<1>. SUFFICES ASSUME SoughtWell', (target_tick <= LastTick(Rec))',
                     (\E i \in FullPackets(Rec) : Rec.cmds[i].tick <= target_tick)'
              PROVE  (world = Rec.server[pos] /\ ~missed)'
  BY DEF SeekExact
<1>1. CASE SeekReturns /\ UNCHANGED <<pos, world, missed, target_tick>>
  <2>1. target_tick <= LastTick(Rec)
    BY <1>1, RecKept DEF LastTick
  <2>2. PICK i \in FullPackets(Rec) : Rec.cmds[i].tick <= target_tick
    BY <1>1, RecKept DEF FullPackets
  <2>3. ~missed
    BY <1>1, <2>1, <2>2, NothingMissed
  <2>4. world = Rec.server[pos]
    BY <1>1, <2>3 DEF ReplayFaithful, SeekReturns
  <2>. QED
    BY <1>1, <2>3, <2>4, RecKept
<1>2. CASE SoughtWell /\ UNCHANGED <<pos, world, missed, target_tick>>
  BY <1>2, RecKept DEF SeekExact, LastTick, FullPackets
<1>. QED
  BY <1>1, <1>2, SoughtWellStep

-----------------------------------------------------------------------------
\* The first state satisfies the invariant.
LEMMA InitIInv == Init => IInv
<1>. SUFFICES ASSUME Init PROVE IInv
  OBVIOUS
<1>1. TypeOK
  BY InitTyped
<1>2. TickTracksPosition /\ SeekInv /\ UncheckedAccessSound /\ TickReported
  BY DEF Init, TickTracksPosition, SeekInv, UncheckedAccessSound, TickReported
<1>3. SeekLands /\ SeekExact
  BY DEF Init, NoResult, SeekLands, SeekExact, SoughtWell
<1>4. ReplayFaithful
  BY <1>1, RecWellFormed DEF Init, ReplayFaithful, WellFormed, Faithful
<1>. QED
  BY <1>1, <1>2, <1>3, <1>4 DEF IInv

\* Every step keeps it.
LEMMA NextIInv == IInv /\ [Next]_vars => IInv'
BY NextTyped, TickStep, FaithfulStep, SeekInvStep, LandsStep, ExactStep, SoundStep,
   ReportedStep DEF IInv

\* So it always holds.
LEMMA PlaybackInvariant == Spec => []IInv
BY InitIInv, NextIInv, PTL DEF Spec

\* While nothing was passed over, entities and string tables are the server's.
THEOREM PlaybackFaithful == Spec => []ReplayFaithful
<1>1. IInv => ReplayFaithful
  BY DEF IInv
<1>. QED
  BY <1>1, PlaybackInvariant, PTL

\* run_to_tick stops behind the last command of the target, with its tick.
THEOREM PlaybackSeekLands == Spec => []SeekLands
<1>1. IInv => SeekLands
  BY DEF IInv
<1>. QED
  BY <1>1, PlaybackInvariant, PTL

\* Skipping packets and cutting full packets short loses nothing: run_to_tick
\* arrives with the state of the server.
THEOREM PlaybackSeekExact == Spec => []SeekExact
<1>1. IInv => SeekExact
  BY DEF IInv
<1>. QED
  BY <1>1, PlaybackInvariant, PTL

\* No entity or table is taken for present that is not, unless after a gap.
THEOREM PlaybackSound == Spec => []UncheckedAccessSound
<1>1. IInv => UncheckedAccessSound
  BY DEF IInv
<1>. QED
  BY <1>1, PlaybackInvariant, PTL

\* on_tick_end has been called for the tick that the parser is in.
THEOREM PlaybackTickReported == Spec => []TickReported
<1>1. IInv => TickReported
  BY DEF IInv
<1>. QED
  BY <1>1, PlaybackInvariant, PTL
=============================================================================

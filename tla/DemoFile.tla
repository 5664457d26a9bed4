------------------------------ MODULE DemoFile ------------------------------
(***************************************************************************)
(* A demo in a file, as the parser reads it: crates/haste_core/src/         *)
(* demofile.rs with the defaults of demostream.rs.  Playback is about the   *)
(* order in which the parser calls these operations; here they are on       *)
(* positions, compressed bodies, a buffer and a file that may be broken off. *)
(***************************************************************************)
EXTENDS Integers, Sequences

CONSTANTS
  Files,       \* the files that are read
  HeaderSize,  \* of the demo header
  BufSize      \* DEMO_RECORD_BUFFER_SIZE

VARIABLES
  file,       \* stamped, commands, length and info, the command of the file info
  state,      \* "new", "reading", "refused" or "panicked"
  rdr,        \* the position of the reader
  file_info,  \* the command that the file info was read from, or 0
  held,       \* the command whose header was read last and is not done, or 0
  read,       \* the command whose body is handed out until the next call, or 0
  next,       \* history: the command that the caller is to get next
  lost        \* history: reading the file info failed, and nothing was sought since

demoVars == <<file, state, rdr, file_info, held, read, next, lost>>

\* A command has a header and a body of some bytes behind its start; unpacked
\* is the size of a compressed body's contents, 0 where the body is not
\* compressed, and -1 where it cannot be decompressed.
Command(start, header, body, unpacked) ==
  [start |-> start, header |-> header, body |-> body, unpacked |-> unpacked]

End(c) == c.start + c.header + c.body

\* A file's commands follow each other behind the demo header.  (That each
\* begins behind all that are before it takes induction to derive.)
IsDemo(f) ==
  /\ f.stamped \in BOOLEAN /\ f.length \in Nat /\ f.info \in Nat
  /\ f.commands \in Seq([start : Nat, header : Nat \ {0}, body : Nat, unpacked : Int])
  /\ \A k \in DOMAIN f.commands :
       /\ f.commands[k].start = IF k = 1 THEN HeaderSize ELSE End(f.commands[k - 1])
       /\ \A j \in 1 .. k - 1 : End(f.commands[j]) <= f.commands[k].start

ASSUME DemoAssumption ==
  HeaderSize \in Nat /\ BufSize \in Nat /\ \A f \in Files : IsDemo(f)

Start(k) == IF k = 1 THEN HeaderSize ELSE End(file.commands[k - 1])
BodyStart(k) == file.commands[k].start + file.commands[k].header
HeadersAt(position) ==
  {k \in DOMAIN file.commands :
     file.commands[k].start = position /\ BodyStart(k) <= file.length}
BodiesAt(position) == {k \in DOMAIN file.commands : BodyStart(k) = position}

DemoInit ==
  /\ file \in Files
  /\ state = "new" /\ rdr = 0
  /\ file_info = 0
  /\ held = 0 /\ read = 0
  /\ next = 1 /\ lost = FALSE

StartReading ==
  /\ state = "new"
  /\ IF file.stamped /\ file.length >= HeaderSize
     THEN state' = "reading" /\ rdr' = HeaderSize
     ELSE state' = "refused" /\ UNCHANGED rdr
  /\ UNCHANGED <<file, file_info, held, read, next, lost>>

\* Where the position is that of a header, which it is unless it was lost.
ReadCmdHeader ==
  /\ state = "reading" /\ held = 0 /\ ~lost
  /\ \E k \in HeadersAt(rdr) : held' = k /\ rdr' = BodyStart(k)
  /\ read' = 0 /\ UNCHANGED <<file, state, file_info, next, lost>>

\* The bytes that are left, if any, are no header.
ReadCmdHeaderAtEnd ==
  /\ state = "reading" /\ held = 0 /\ ~lost
  /\ HeadersAt(rdr) = {}
  /\ rdr' = IF rdr < file.length THEN file.length ELSE rdr
  /\ next' = 0
  /\ read' = 0 /\ UNCHANGED <<file, state, file_info, held, lost>>

UnreadCmdHeader ==
  /\ state = "reading" /\ held # 0 /\ ~lost
  /\ rdr' = rdr - file.commands[held].header
  /\ held' = 0
  /\ read' = 0 /\ UNCHANGED <<file, state, file_info, next, lost>>

SkipCmd ==
  /\ state = "reading" /\ held # 0 /\ ~lost
  /\ rdr' = rdr + file.commands[held].body
  /\ held' = 0 /\ next' = held + 1
  /\ read' = 0 /\ UNCHANGED <<file, state, file_info, lost>>

\* What read_cmd does to a command whose body is where the reader is.
ReadsWhole(k)  == BodyStart(k) + file.commands[k].body <= file.length
Overflows(k)   == file.commands[k].body > BufSize
Unpacks(k)     == file.commands[k].unpacked \in 0 .. BufSize - file.commands[k].body

ReadCmd ==
  /\ state = "reading" /\ held # 0 /\ ~lost
  /\ IF Overflows(held)
     THEN state' = "panicked" /\ UNCHANGED <<rdr, read, next, held>>
     ELSE /\ UNCHANGED state
          /\ held' = 0
          /\ IF ReadsWhole(held)
             THEN /\ rdr' = rdr + file.commands[held].body
                  /\ next' = held + 1
                  /\ \E k \in BodiesAt(rdr) : read' = IF Unpacks(k) THEN k ELSE 0
             ELSE rdr' \in rdr .. file.length /\ next' = 0 /\ read' = 0
  /\ UNCHANGED <<file, file_info, lost>>

\* Whether the file info is where the demo header says, and can be read.
InfoReadable ==
  /\ file.info \in DOMAIN file.commands
  /\ ReadsWhole(file.info) /\ Unpacks(file.info)
InfoOverflows ==
  /\ file.info \in DOMAIN file.commands
  /\ BodyStart(file.info) <= file.length /\ Overflows(file.info)

\* Mutant of FileInfo: the position is left behind the file info.
FileInfoLeaving ==
  /\ state = "reading"
  /\ IF file_info # 0 THEN UNCHANGED <<state, rdr, file_info, lost>>
     ELSE IF InfoReadable
     THEN /\ file_info' = file.info /\ UNCHANGED <<state, lost>>
          /\ rdr' = BodyStart(file.info) + file.commands[file.info].body
     ELSE /\ lost' = TRUE /\ rdr' \in 0 .. file.length /\ UNCHANGED file_info
          /\ state' = IF InfoOverflows THEN "panicked" ELSE state
  /\ read' = 0 /\ UNCHANGED <<file, held, next>>

\* file_info: kept, or read from its own place and back again.  Where it is
\* not there, or its body cannot be read, the position stays behind.
FileInfo ==
  /\ state = "reading"
  /\ IF file_info # 0 THEN UNCHANGED <<state, rdr, file_info, lost>>
     ELSE IF InfoReadable
     THEN file_info' = file.info /\ UNCHANGED <<state, rdr, lost>>
     ELSE /\ lost' = TRUE /\ rdr' \in 0 .. file.length /\ UNCHANGED file_info
          /\ state' = IF InfoOverflows THEN "panicked" ELSE state
  /\ read' = 0 /\ UNCHANGED <<file, held, next>>

\* Parser::reset and the seeks begin again at start_position.
SeekStart ==
  /\ state = "reading"
  /\ rdr' = HeaderSize
  /\ held' = 0 /\ next' = 1 /\ lost' = FALSE
  /\ read' = 0 /\ UNCHANGED <<file, state, file_info>>

DemoNext ==
  \/ StartReading \/ ReadCmdHeader \/ ReadCmdHeaderAtEnd \/ UnreadCmdHeader \/ SkipCmd
  \/ ReadCmd \/ FileInfo \/ SeekStart

DemoSpec == DemoInit /\ [][DemoNext]_demoVars

-----------------------------------------------------------------------------
(* Whatever was read, skipped, given back or failed to decompress, and        *)
(* whenever the file info was asked for, the reader is where the command is *)
(* that the caller is to get next, or where the body is whose header it      *)
(* holds, and a body that was handed out is that of the command before.      *)
(* Only a file that is broken off, or a file info that cannot be read,       *)
(* leave the reader elsewhere (demofile.rs:92-104, 132-194;                  *)
(* demostream.rs:81-120).                                                    *)
PositionAgrees ==
  (state = "reading" /\ ~lost) =>
    IF next = 0 THEN held = 0 /\ read = 0
    ELSE /\ rdr = IF held = 0 THEN Start(next) ELSE BodyStart(held)
         /\ held # 0 => held = next
         /\ read # 0 => read = next - 1
=============================================================================

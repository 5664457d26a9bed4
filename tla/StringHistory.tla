--------------------------- MODULE StringHistory ----------------------------
(***************************************************************************)
(* One string table and the updates that are parsed into it:                *)
(* StringTable::parse_update of crates/haste_core/src/stringtables.rs.      *)
(*                                                                         *)
(* A key may be sent as a position in the history of the update's keys, a   *)
(* number of characters to copy from there, and the rest.  The server keeps *)
(* a list and removes the first key when there are too many of them (the    *)
(* comment at stringtables.rs:153); the parser has a ring, and copies a     *)
(* buffer with whatever earlier keys left behind in it.                     *)
(***************************************************************************)
EXTENDS Integers, Sequences

CONSTANTS
  HistorySize,    \* HISTORY_SIZE; & HISTORY_BITMASK is % HistorySize
  MaxStringSize,  \* MAX_STRING_SIZE, the characters that the history keeps
  BufferSize,     \* of string_buf
  Chars, Keys,    \* characters, and the keys that the server uses
  Terminator, Junk,      \* characters that no key has; Junk was never written
  EntryIndexes,   \* the indexes that the server uses
  UserData, NoData, NoKey,
  MaxKeys         \* an update has at most that many keys

ASSUME HistoryAssumption ==
  /\ HistorySize \in Nat \ {0} /\ MaxStringSize \in Nat \ {0}
  /\ BufferSize \in Nat /\ BufferSize > MaxStringSize
ASSUME KeysAssumption ==
  /\ NoKey \notin Keys
  /\ Keys \subseteq Seq(Chars)
  /\ \A key \in Keys : Len(key) < BufferSize
ASSUME IndexesAssumption == EntryIndexes \subseteq Nat

VARIABLES
  parsing,              \* whether an update is being parsed
  entry_index,
  history, history_delta_index, string_buf,
  items,                \* the table
  recent,               \* the server's list of the update's last keys
  server                \* history: the entries that the server sent

historyVars == <<parsing, entry_index, history, history_delta_index, string_buf, items, recent, server>>

HistoryInit ==
  /\ parsing = FALSE
  /\ entry_index = -1
  /\ history = [i \in 0 .. HistorySize - 1 |-> [c \in 1 .. MaxStringSize |-> Junk]]
  /\ history_delta_index = 0
  /\ string_buf = [c \in 1 .. BufferSize |-> Junk]
  /\ items = <<>>
  /\ recent = <<>>
  /\ server = <<>>

\* Mutant of BeginUpdate: an update goes on in the history of the last one.
BeginUpdateKeeping ==
  /\ ~parsing
  /\ parsing' = TRUE
  /\ entry_index' = -1
  /\ recent' = <<>>
  /\ UNCHANGED <<history, history_delta_index, string_buf, items, server>>

BeginUpdate ==
  /\ ~parsing
  /\ parsing' = TRUE
  /\ entry_index' = -1
  /\ history_delta_index' = 0
  /\ recent' = <<>>
  /\ UNCHANGED <<history, string_buf, items, server>>

EndUpdate ==
  /\ parsing
  /\ parsing' = FALSE
  /\ UNCHANGED <<entry_index, history, history_delta_index, string_buf, items, recent, server>>

-----------------------------------------------------------------------------
(* The server's part of an entry.                                           *)

\* A key goes whole (nothing is copied), or refers to one of the list.
Whole(key) == [position |-> 0, copied |-> 0, rest |-> key]
Referring(key, p, n) == [position |-> p - 1, copied |-> n, rest |-> SubSeq(key, n + 1, Len(key))]
MayCopy(key, p, n) ==
  n <= Len(key) /\ n <= Len(recent[p]) /\ \A c \in 1 .. n : key[c] = recent[p][c]

\* The list has no more than HistorySize keys.
Remember(key) ==
  recent' = IF Len(recent) < HistorySize THEN Append(recent, key) ELSE Append(Tail(recent), key)

\* What an index's key may be sent as: it never changes, and may be left out.
KeysFor(index) ==
  IF index \in DOMAIN server THEN {server[index].string, NoKey} ELSE Keys \union {NoKey}

Merged(entries, index, string, data) ==
  [i \in DOMAIN entries \union {index} |->
     IF i # index THEN entries[i]
     ELSE IF index \notin DOMAIN entries THEN [string |-> string, user_data |-> data]
     ELSE [string |-> entries[i].string,
           user_data |-> IF data = NoData THEN entries[i].user_data ELSE data]]

-----------------------------------------------------------------------------
(* parse_update *)

\* Mutant of HistoryIndex: positions count from the beginning of the ring.
HistoryIndexFromStart(position) == position % HistorySize

HistoryIndex(position) ==
  LET zero == IF history_delta_index > HistorySize THEN history_delta_index % HistorySize ELSE 0
  IN  (zero + position) % HistorySize

\* Mutant of Filled: the rest is read to the beginning of the buffer.
FilledFromStart(sentAs) ==
  [c \in 1 .. BufferSize |->
     IF c <= Len(sentAs.rest) THEN sentAs.rest[c]
     ELSE IF c <= sentAs.copied THEN history[HistoryIndex(sentAs.position)][c]
     ELSE string_buf[c]]

\* string_buf after the characters were copied and the rest was read.
Filled(sentAs) ==
  LET size == sentAs.copied + Len(sentAs.rest)
  IN  [c \in 1 .. BufferSize |->
         IF c <= sentAs.copied THEN history[HistoryIndex(sentAs.position)][c]
         ELSE IF c <= size THEN sentAs.rest[c - sentAs.copied]
         ELSE IF c = size + 1 THEN Terminator
         ELSE string_buf[c]]

\* The key that is made of what was sent.
Made(sentAs) == SubSeq(Filled(sentAs), 1, sentAs.copied + Len(sentAs.rest))

ReadKey(sentAs) ==
  /\ string_buf' = Filled(sentAs)
  /\ history' = [history EXCEPT ![history_delta_index % HistorySize] =
                   [c \in 1 .. MaxStringSize |-> Filled(sentAs)[c]]]
  /\ history_delta_index' = history_delta_index + 1

\* The index is one more than the last one, or its predecessor is sent.
ReadIndex(index) ==
  /\ parsing /\ index > entry_index
  /\ \/ entry_index' = entry_index + 1 /\ index = entry_index + 1
     \/ LET sentIndex == index - 1 IN sentIndex >= 0 /\ entry_index' = sentIndex + 1

\* The entry's value; compressed data may fail to decompress, which ends the
\* update after the key was read.
StoreEntry(index, string, key) ==
  \/ \E data \in UserData \union {NoData} :
       /\ items' = Merged(items, index, string, data)
       /\ server' = Merged(server, index, key, data)
       /\ UNCHANGED parsing
  \/ parsing' = FALSE /\ UNCHANGED <<items, server>>

EntryWithoutKey(index) ==
  /\ ReadIndex(index)
  /\ NoKey \in KeysFor(index)
  /\ StoreEntry(index, NoKey, NoKey)
  /\ UNCHANGED <<history, history_delta_index, string_buf, recent>>

EntryWithKey(index, key, sentAs) ==
  /\ ReadIndex(index)
  /\ history_delta_index < MaxKeys
  /\ ReadKey(sentAs)
  /\ Remember(key)
  /\ StoreEntry(index, Made(sentAs), key)

WholeKey(index) ==
  \E key \in KeysFor(index) \ {NoKey} : EntryWithKey(index, key, Whole(key))

KeyByReference(index) ==
  \E key \in KeysFor(index) \ {NoKey}, p \in DOMAIN recent, n \in 0 .. MaxStringSize - 1 :
    MayCopy(key, p, n) /\ EntryWithKey(index, key, Referring(key, p, n))

HistoryNext ==
  \/ BeginUpdate \/ EndUpdate
  \/ \E index \in EntryIndexes : EntryWithoutKey(index) \/ WholeKey(index) \/ KeyByReference(index)

HistorySpec == HistoryInit /\ [][HistoryNext]_historyVars

-----------------------------------------------------------------------------
(* The variables have their types, and the positions of the list and the     *)
(* ring's writing end are related.                                          *)
HistoryOK ==
  /\ parsing \in BOOLEAN
  /\ entry_index \in Nat \union {-1}
  /\ history_delta_index \in Nat
  /\ history \in [0 .. HistorySize - 1 -> [1 .. MaxStringSize -> Chars \union {Terminator, Junk}]]
  /\ string_buf \in [1 .. BufferSize -> Chars \union {Terminator, Junk}]
  /\ recent \in Seq(Keys)
  /\ \A index \in DOMAIN server : server[index].string \in Keys \union {NoKey}
  /\ Len(recent) = IF history_delta_index < HistorySize THEN history_delta_index ELSE HistorySize

(* The entry that a position of the server's list means is the ring's entry   *)
(* that the code computes for it, and begins with that key up to the number  *)
(* of characters that the history keeps, whatever an earlier key of the same *)
(* or of an earlier update left there (stringtables.rs:153-185).            *)
RingHoldsRecent ==
  \A p \in DOMAIN recent : \A c \in 1 .. MaxStringSize :
    c <= Len(recent[p]) => history[HistoryIndex(p - 1)][c] = recent[p][c]

(* The table has the entries that the server sent, with the keys that it      *)
(* meant, though they were put together from others, and though an update   *)
(* may break off in the middle and leave the history behind                  *)
(* (stringtables.rs:119-246).                                               *)
ItemsAsSent == items = server
=============================================================================

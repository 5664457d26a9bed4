-------------------------- MODULE MessageHandlers ---------------------------
(***************************************************************************)
(* What the parser does with the messages of a command (parser.rs,         *)
(* stringtables.rs, instancebaseline.rs, entities.rs): string tables, the  *)
(* instance baselines that share their memory, the classes, the entities   *)
(* and the cache of baseline entities.                                     *)
(*                                                                         *)
(* The recording is played along: server holds the string tables as the    *)
(* server had them.  A seek passes over updates, so that the parser's      *)
(* tables lag behind until a full packet; a seek that ends before it, or a *)
(* visitor that refuses a command, leaves them behind, and the parser is   *)
(* free to play on from there.  Items are numbered from 1, on the server   *)
(* without gaps, as a full packet has them; tables are created where       *)
(* nothing is passed over, during sign-on.  Entities are created only of   *)
(* classes that the server has a baseline for, and updated and deleted     *)
(* only while they exist, which is Playback's concern.                     *)
(***************************************************************************)
EXTENDS Integers, SequencesExt

CONSTANTS
    Class,          \* the entity classes; the strings of "instancebaseline"
    OtherString,    \* the strings of another table
    Data, NoData,   \* the user data of an item
    NoString,       \* the string of an item that was inserted without one
    EntityIndex,
    MaxItems        \* bounds the items of a table

ASSUME HandlersAssumption ==
    /\ MaxItems \in Nat /\ NoData \notin Data
    /\ NoString \notin Class \cup OtherString

INSTANCE_BASELINE == "instancebaseline"
TableName == {INSTANCE_BASELINE, "other"}
Strings(name) == IF name = INSTANCE_BASELINE THEN Class ELSE OtherString

Item == [string : Class \cup OtherString \cup {NoString}, data : Data \cup {NoData}]
Items == UNION {[numbers -> Item] : numbers \in SUBSET (1..MaxItems)}
Table == [name : TableName, items : Items]
NoItems == [i \in {} |-> NoData]

(***************************************************************************)
(* InstanceBaseline shares the Rc of a string table item: a baseline is    *)
(* the number of the item whose memory it shares, or, with number 0,       *)
(* memory of its own that no item refers to any longer.                    *)
(***************************************************************************)
Shares(i) == [at |-> i, data |-> NoData]
Own(d) == [at |-> 0, data |-> d]
NoBaseline == Own(NoData)

Entity == [class : Class, base : Data \cup {NoData}]

VARIABLES
    server,                 \* the tables that the recording describes
    announced,              \* which of SendTables and ClassInfo it contained
    tables,                 \* ctx.string_tables
    instance_baseline,      \* ctx.instance_baseline, by class
    serializers, entity_classes,    \* whether they are Some
    entities,               \* ctx.entities.entities
    baseline_entities,      \* ctx.entities.baseline_entities: what they hold
    mode,                   \* which readers are alive, or how it ended
    lagging,                \* updates were passed over since the last snapshot
    played_on,              \* packets were handled all the same
    held                    \* history: the baselines seen since the last reset

recording == <<server, announced>>
containers == <<tables, instance_baseline>>
schema == <<serializers, entity_classes>>
entity_state == <<entities, baseline_entities>>
lag == <<lagging, played_on>>
vars == <<recording, containers, schema, entity_state, mode, lag, held>>

TypeOK ==
    /\ server \in Seq(Table) /\ tables \in Seq(Table)
    /\ announced \subseteq {"SendTables", "ClassInfo"}
    /\ instance_baseline \in
           [Class -> [at : 0..MaxItems, data : Data \cup {NoData}]]
    /\ serializers \in BOOLEAN /\ entity_classes \in BOOLEAN
    /\ DOMAIN entities \subseteq EntityIndex /\ Range(entities) \subseteq Entity
    /\ baseline_entities \in [Class -> Data \cup {NoData}]
    /\ mode \in {"idle", "packet", "entities", "panic", "abort",
                 "no_classes", "no_table", "no_baseline"}
    /\ lagging \in BOOLEAN /\ played_on \in BOOLEAN
    /\ held \subseteq Class \X Data

NoBaselines == [c \in Class |-> NoBaseline]
NoEntities == <<>>
NothingCached == [c \in Class |-> NoData]

Init ==
    /\ server = <<>> /\ announced = {}
    /\ tables = <<>> /\ instance_baseline = NoBaselines
    /\ entities = NoEntities /\ baseline_entities = NothingCached
    /\ serializers = FALSE /\ entity_classes = FALSE
    /\ mode = "idle"
    /\ lagging = FALSE /\ played_on = FALSE /\ held = {}

-----------------------------------------------------------------------------
(* String tables and baselines as values.                                  *)

Find(ts, name) == {i \in 1..Len(ts) : ts[i].name = name}
ItemsOf(ts, name) == UNION {Range(ts[i].items) : i \in Find(ts, name)}

\* parse_update, of one entry: an item that exists keeps its string, and its
\* data when the entry has none; data that exists is overwritten in place.  An
\* item that does not exist is inserted, with a string or without.
ParseUpdate(items, entry) ==
    [i \in DOMAIN items \cup {entry.index} |->
        IF i # entry.index THEN items[i]
        ELSE IF i \notin DOMAIN items
        THEN [string |-> entry.string, data |-> entry.data]
        ELSE [items[i] EXCEPT !.data =
                 IF entry.data = NoData THEN @ ELSE entry.data]]

\* An item of the snapshot, next to the one that has its number.
FullUpdateItem(items, incoming, i) ==
    IF i \notin DOMAIN incoming THEN items[i]
    ELSE IF i \notin DOMAIN items THEN incoming[i]
    ELSE [items[i] EXCEPT !.data = incoming[i].data]

\* Mutant of FullUpdateItems: what is unknown is not inserted.
FullUpdateKnownItems(items, incoming) ==
    [i \in DOMAIN items |-> FullUpdateItem(items, incoming, i)]

\* Mutant of FullUpdateItems: what is unknown goes to the next number.
FullUpdateNextItems(items, incoming) ==
    [i \in DOMAIN items \cup {k + 1 : k \in DOMAIN incoming} |->
        IF i \in DOMAIN items THEN FullUpdateItem(items, incoming, i)
        ELSE incoming[i - 1]]

\* do_full_update of a table: items are told apart by their numbers.
FullUpdateItems(items, incoming) ==
    [i \in DOMAIN items \cup DOMAIN incoming |->
        FullUpdateItem(items, incoming, i)]

\* do_full_update of the container: tables that do not exist are left out.
FullUpdate(ts, snapshot) ==
    [i \in 1..Len(ts) |->
        LET found == Find(snapshot, ts[i].name) IN
        IF found = {} THEN ts[i]
        ELSE [ts[i] EXCEPT !.items =
                 FullUpdateItems(@, snapshot[CHOOSE k \in found : TRUE].items)]]

\* The items of the table of baselines, if there is one.
BaselineItems(ts) ==
    LET found == Find(ts, INSTANCE_BASELINE) IN
    IF found = {} THEN NoItems ELSE ts[CHOOSE i \in found : TRUE].items

\* The items of a class.
ItemsFor(items, c) == {i \in DOMAIN items : items[i].string = c}

\* InstanceBaseline::update shares the data of every item of the table, whose
\* strings it takes for granted.
UpdateBaseline(baseline, ts) ==
    LET items == BaselineItems(ts) IN
    [c \in Class |->
        LET found == ItemsFor(items, c) IN
        IF found = {} THEN baseline[c]
        ELSE LET i == CHOOSE i \in found : TRUE IN
             IF items[i].data = NoData THEN NoBaseline ELSE Shares(i)]
Unnamed(ts) == ItemsFor(BaselineItems(ts), NoString) # {}

\* What the class's baseline reads as.
BaselineData(c) ==
    LET b == instance_baseline[c] IN
    IF b.at = 0 THEN b.data ELSE BaselineItems(tables)[b.at].data

\* The baselines when every item of the table is given new memory.
Detached == [c \in Class |-> Own(BaselineData(c))]

Held(ts) ==
    {<<item.string, item.data>> :
        item \in {m \in ItemsOf(ts, INSTANCE_BASELINE) : m.data # NoData}}

-----------------------------------------------------------------------------
(* Commands.                                                               *)

SendTables ==
    /\ mode = "idle"
    /\ announced' = announced \cup {"SendTables"}
    /\ serializers' = TRUE
    /\ UNCHANGED <<server, containers, entity_classes, entity_state, mode,
                   lag, held>>

\* Mutant of ClassInfo: the table is taken to come later, always.
ClassInfoAlone ==
    /\ mode = "idle"
    /\ announced' = announced \cup {"ClassInfo"}
    /\ entity_classes' = TRUE
    /\ UNCHANGED <<server, containers, serializers, entity_state, mode,
                   lag, held>>

\* A second one, after a seek, is not looked at.
ClassInfo ==
    /\ mode = "idle"
    /\ announced' = announced \cup {"ClassInfo"}
    /\ entity_classes' = TRUE
    /\ instance_baseline' = IF entity_classes THEN instance_baseline
                            ELSE UpdateBaseline(instance_baseline, tables)
    /\ mode' = IF ~entity_classes /\ Unnamed(tables) THEN "no_baseline" ELSE mode
    /\ UNCHANGED <<server, tables, serializers, entity_state, lag, held>>

\* Nothing keeps a caller from playing on with tables that lag behind.
PacketBegins ==
    /\ mode = "idle"
    /\ mode' = "packet"
    /\ played_on' = (played_on \/ lagging)
    /\ UNCHANGED <<recording, containers, schema, entity_state, lagging, held>>

\* is_overflowed is called when nothing is left to read.
PacketEnds ==
    /\ mode = "packet"
    /\ mode' = "idle"
    /\ UNCHANGED <<recording, containers, schema, entity_state, lag, held>>

SignedOn == announced = {"SendTables", "ClassInfo"}

\* Where reading goes on after a full packet's tables, or does not.
AfterFullPacket(with_packet) ==
    IF ~entity_classes THEN "no_classes"
    ELSE IF Unnamed(tables') THEN "no_baseline"
    ELSE IF with_packet THEN "packet" ELSE "idle"

\* Mutant of FullPacket: the baselines are left to the next update.
FullPacketNoBaseline(with_packet) ==
    /\ mode = "idle" /\ SignedOn /\ ~played_on
    /\ tables' = FullUpdate(tables, server)
    /\ instance_baseline' = Detached
    /\ mode' = AfterFullPacket(with_packet)
    /\ lagging' = FALSE
    /\ UNCHANGED <<recording, schema, entity_state, played_on, held>>

\* handle_cmd_full_packet: the tables, the baselines, for which entity_classes is
\* taken for granted, then the packet if it was left in.  Only a seek handles full
\* packets, and it begins with a reset and skips until the last of them, so that
\* none is handled after the parser has played on.
FullPacket(with_packet) ==
    /\ mode = "idle" /\ SignedOn /\ ~played_on
    /\ tables' = FullUpdate(tables, server)
    /\ instance_baseline' = UpdateBaseline(Detached, tables')
    /\ mode' = AfterFullPacket(with_packet)
    /\ lagging' = FALSE
    /\ UNCHANGED <<recording, schema, entity_state, played_on, held>>

\* Mutant of Reset: the cache of baseline entities survives.
ResetKeepsCache ==
    /\ mode = "idle"
    /\ server' = <<>> /\ announced' = {}
    /\ tables' = <<>> /\ instance_baseline' = NoBaselines
    /\ entities' = NoEntities
    /\ lagging' = FALSE /\ played_on' = FALSE /\ held' = {}
    /\ UNCHANGED <<schema, mode, baseline_entities>>

\* The recording starts again; what SendTables and ClassInfo left behind stays.
Reset ==
    /\ mode = "idle"
    /\ server' = <<>> /\ announced' = {}
    /\ tables' = <<>> /\ instance_baseline' = NoBaselines
    /\ entities' = NoEntities /\ baseline_entities' = NothingCached
    /\ lagging' = FALSE /\ played_on' = FALSE /\ held' = {}
    /\ UNCHANGED <<schema, mode>>

-----------------------------------------------------------------------------
(* The messages of a packet.                                               *)

\* What the recording may say next of a table: a new item, or new data for one
\* that its receivers should have, whose string it need not repeat.
Fresh(name, items) == Strings(name) \ {items[i].string : i \in DOMAIN items}
NextIndex(items) == {i \in 1..MaxItems : DOMAIN items = 1..(i - 1)}
NewItem(name, items) ==
    [index : NextIndex(items), string : Fresh(name, items), data : Data \cup {NoData}]
NewData(items, i) ==
    [index : {i}, string : {items[i].string, NoString}, data : Data \cup {NoData}]
Entries(name, items) ==
    NewItem(name, items) \cup UNION {NewData(items, i) : i \in DOMAIN items}

\* A table is created empty, or with its first item.
FirstItems(name) ==
    {NoItems} \cup {ParseUpdate(NoItems, entry) : entry \in Entries(name, NoItems)}

Updated(ts, id, entry) == [ts EXCEPT ![id].items = ParseUpdate(@, entry)]

\* After a table was written: the baselines, if it is theirs and classes are known.
RefreshBaseline(name, ts) ==
    IF name = INSTANCE_BASELINE /\ entity_classes
    THEN /\ instance_baseline' = UpdateBaseline(instance_baseline, ts)
         /\ mode' = IF Unnamed(ts) THEN "no_baseline" ELSE mode
    ELSE UNCHANGED <<instance_baseline, mode>>

CreateStringTable(name, items) ==
    /\ mode = "packet" /\ Find(server, name) = {}
    /\ server' = Append(server, [name |-> name, items |-> items])
    /\ tables' = Append(tables, [name |-> name, items |-> items])
    /\ RefreshBaseline(name, tables')
    /\ held' = held \cup Held(server')
    /\ UNCHANGED <<announced, schema, entity_state, lag>>

\* get_table_mut looks the table up by its number, and is taken to find it.
UpdateStringTable(id, entry) ==
    /\ mode = "packet"
    /\ server' = Updated(server, id, entry)
    /\ IF id <= Len(tables)
       THEN /\ tables' = Updated(tables, id, entry)
            /\ RefreshBaseline(tables[id].name, tables')
       ELSE mode' = "no_table" /\ UNCHANGED containers
    /\ held' = held \cup Held(server')
    /\ UNCHANGED <<announced, schema, entity_state, lag>>

\* A seek skips the packet that holds the update, or the visitor refuses it.
PassOver(id, entry) ==
    /\ mode = "idle" /\ SignedOn
    /\ server' = Updated(server, id, entry)
    /\ lagging' = TRUE
    /\ held' = held \cup Held(server')
    /\ UNCHANGED <<announced, containers, schema, entity_state, mode, played_on>>

\* entity_classes and serializers are taken for granted.
PacketEntitiesBegin ==
    /\ mode = "packet" /\ SignedOn
    /\ mode' = IF entity_classes /\ serializers THEN "entities" ELSE "no_classes"
    /\ UNCHANGED <<recording, containers, schema, entity_state, lag, held>>

PacketEntitiesEnd ==
    /\ mode = "entities"
    /\ mode' = "packet"
    /\ UNCHANGED <<recording, containers, schema, entity_state, lag, held>>

\* The server has a baseline for the class.
Creatable(c) == \E item \in ItemsOf(server, INSTANCE_BASELINE) :
                    item.string = c /\ item.data # NoData

\* The baseline that an entity of the class begins with, which is taken for granted.
Baseline(c) ==
    IF baseline_entities[c] # NoData THEN baseline_entities[c] ELSE BaselineData(c)

\* handle_create: the first entity of a class has its baseline parsed and kept.
CreateEntity(e, c) ==
    /\ mode = "entities" /\ Creatable(c)
    /\ \/ /\ Baseline(c) # NoData
          /\ baseline_entities' = [baseline_entities EXCEPT ![c] = Baseline(c)]
          /\ entities' = [x \in DOMAIN entities \cup {e} |->
                 IF x = e THEN [class |-> c, base |-> Baseline(c)] ELSE entities[x]]
          /\ UNCHANGED mode
       \/ /\ Baseline(c) = NoData
          /\ mode' = "no_baseline"
          /\ UNCHANGED entity_state
    /\ UNCHANGED <<recording, containers, schema, lag, held>>

DeleteEntity(e) ==
    /\ mode = "entities" /\ e \in DOMAIN entities
    /\ entities' = Restrict(entities, DOMAIN entities \ {e})
    /\ UNCHANGED <<recording, containers, schema, baseline_entities, mode,
                   lag, held>>

\* on_packet or on_entity returns an error: `?` drops a BitReader that nobody
\* has asked whether it overflowed, and Drop asserts that somebody has.  The
\* reader of the entities panics first, and that of the packet while unwinding.
VisitorFails ==
    /\ mode \in {"packet", "entities"}
    /\ mode' = IF mode = "packet" THEN "panic" ELSE "abort"
    /\ UNCHANGED <<recording, containers, schema, entity_state, lag, held>>

Next ==
    \/ SendTables \/ ClassInfo
    \/ PacketBegins \/ PacketEnds
    \/ \E with_packet \in BOOLEAN : FullPacket(with_packet)
    \/ Reset
    \/ \E name \in TableName : \E items \in FirstItems(name) :
           CreateStringTable(name, items)
    \/ \E id \in 1..Len(server) :
       \E entry \in Entries(server[id].name, server[id].items) :
           UpdateStringTable(id, entry) \/ PassOver(id, entry)
    \/ PacketEntitiesBegin \/ PacketEntitiesEnd
    \/ \E e \in EntityIndex : DeleteEntity(e) \/ \E c \in Class : CreateEntity(e, c)
    \/ VisitorFails

Spec == Init /\ [][Next]_vars

-----------------------------------------------------------------------------
(* What is promised.                                                       *)

\* Unless updates were passed over, the string tables are the server's, also
\* after a seek and a full packet: the same items in the same tables, found
\* under the same numbers.
TablesFaithful == ~lagging => tables = server

\* Whenever the classes are known, the baseline of a class is what the string
\* table has for it: whichever of ClassInfo and the table came first, after
\* updates in place, after a full packet has replaced the memory they share, and
\* also when the parser plays on with tables that lag behind.
BaselineCoherent ==
    entity_classes =>
        \A item \in ItemsOf(tables, INSTANCE_BASELINE), c \in Class :
            item.string = c => BaselineData(c) = item.data

\* Classes, serializers and tables are there whenever they are unwrapped
\* unchecked.  A class's baseline, or an item's string, is missing only after the
\* parser has played on with tables that lag behind: then it may be.
NothingMissing ==
    /\ mode \notin {"no_classes", "no_table"}
    /\ mode = "no_baseline" => played_on

\* Entities and cached baselines stem from what the string table held since the
\* last reset: a seek brings nothing from the recording's future.
BaselineOfThisRun ==
    /\ \A c \in Class :
           baseline_entities[c] # NoData => <<c, baseline_entities[c]>> \in held
    /\ \A entity \in Range(entities) : <<entity.class, entity.base>> \in held

\* bitreader.rs:24-27 asserts of every BitReader that is dropped: "when you are
\* done reading, you must call `is_overflowed` to ensure that there were no out
\* of bounds reads".
ReadersChecked == mode \notin {"panic", "abort"}
=============================================================================

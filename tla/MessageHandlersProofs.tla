----------------------- MODULE MessageHandlersProofs ------------------------
(***************************************************************************)
(* That the string tables, the baselines that share their memory and the   *)
(* entities agree, for any classes, any user data and tables of any size,  *)
(* also where the parser plays on with tables that lag behind.             *)
(***************************************************************************)
EXTENDS MessageHandlers, TLAPS, SequenceTheorems

\* A table's items: typed, of the table's strings, and no string twice.
ItemsOK(name, items) ==
  /\ items \in Items
  /\ \A i \in DOMAIN items : items[i].string \in Strings(name) \cup {NoString}
  /\ \A i, j \in DOMAIN items :
        items[i].string = items[j].string /\ items[i].string # NoString => i = j

\* Every item has a string.
Named(items) == \A i \in DOMAIN items : items[i].string # NoString

\* The tables: such items, and no name twice.
TablesOK(ts) ==
  /\ ts \in Seq(Table)
  /\ \A i \in 1..Len(ts) : ItemsOK(ts[i].name, ts[i].items)
  /\ \A i, j \in 1..Len(ts) : ts[i].name = ts[j].name => i = j

AllNamed(ts) == \A i \in 1..Len(ts) : Named(ts[i].items)

\* The second has the strings of the first, under the same numbers, and maybe more.
Grow(items, more) ==
  /\ DOMAIN items \subseteq DOMAIN more
  /\ \A i \in DOMAIN items : items[i].string = more[i].string

\* ... but for strings that the first was not told.
PartOf(items, more) ==
  /\ DOMAIN items \subseteq DOMAIN more
  /\ \A i \in DOMAIN items : items[i].string \in {more[i].string, NoString}

Follow(ts, more) ==
  /\ Len(ts) = Len(more)
  /\ \A i \in 1..Len(ts) :
       ts[i].name = more[i].name /\ PartOf(ts[i].items, more[i].items)

\* The baselines as they are built from the tables alone.
BaselinesOf(ts) == UpdateBaseline(NoBaselines, ts)

\* InstanceBaseline::update, told the items.
UpdateFrom(baseline, items) ==
  [c \in Class |->
     LET found == ItemsFor(items, c) IN
     IF found = {} THEN baseline[c]
     ELSE LET i == CHOOSE i \in found : TRUE IN
          IF items[i].data = NoData THEN NoBaseline ELSE Shares(i)]

\* What the items of the table of baselines hold has been seen.
ItemsHeld(items) ==
  \A i \in DOMAIN items :
     items[i].string # NoString /\ items[i].data # NoData
        => <<items[i].string, items[i].data>> \in held

RecordingOK ==
  /\ TablesOK(server) /\ TablesOK(tables) /\ Follow(tables, server)
  /\ AllNamed(server) /\ (~played_on => AllNamed(tables))
  /\ Held(server) \subseteq held /\ ItemsHeld(BaselineItems(tables))

\* What the messages that were seen have left behind, and when a packet is read.
ModeOK ==
  /\ mode \in {"packet", "entities"} /\ lagging => played_on
  /\ mode = "entities" => SignedOn
  /\ "ClassInfo" \in announced => entity_classes
  /\ "SendTables" \in announced => serializers

BaselinesOK ==
  instance_baseline = IF entity_classes THEN BaselinesOf(tables) ELSE NoBaselines

\* The types that do not follow from what the tables and baselines are.
OthersTyped ==
  /\ announced \subseteq {"SendTables", "ClassInfo"}
  /\ serializers \in BOOLEAN /\ entity_classes \in BOOLEAN
  /\ DOMAIN entities \subseteq EntityIndex /\ Range(entities) \subseteq Entity
  /\ baseline_entities \in [Class -> Data \cup {NoData}]
  /\ mode \in {"idle", "packet", "entities", "panic", "abort",
               "no_classes", "no_table", "no_baseline"}
  /\ lagging \in BOOLEAN /\ played_on \in BOOLEAN
  /\ held \subseteq Class \X Data

HandlersInv ==
  /\ OthersTyped /\ RecordingOK /\ ModeOK /\ BaselinesOK
  /\ TablesFaithful /\ NothingMissing /\ BaselineOfThisRun

-----------------------------------------------------------------------------
(* Items.                                                                  *)

LEMMA ItemsAre ==
  ASSUME NEW items
  PROVE  items \in Items <=> /\ DOMAIN items \subseteq 1..MaxItems
                            /\ items \in [DOMAIN items -> Item]
<1>1. ASSUME items \in Items
      PROVE  DOMAIN items \subseteq 1..MaxItems /\ items \in [DOMAIN items -> Item]
  <2>1. PICK numbers \in SUBSET (1..MaxItems) : items \in [numbers -> Item]
    BY <1>1 DEF Items
  <2>2. DOMAIN items = numbers BY <2>1
  <2> QED BY <2>1, <2>2
<1>2. ASSUME DOMAIN items \subseteq 1..MaxItems, items \in [DOMAIN items -> Item]
      PROVE  items \in Items
  <2>1. DOMAIN items \in SUBSET (1..MaxItems) BY <1>2
  <2> QED BY <1>2, <2>1 DEF Items
<1> QED BY <1>1, <1>2

\* An item of a well-formed table, as a record.
LEMMA ItemTyped ==
  ASSUME NEW name, NEW items, ItemsOK(name, items), NEW i \in DOMAIN items
  PROVE  /\ items[i] \in Item /\ i \in 1..MaxItems
         /\ items[i].string \in Strings(name) \cup {NoString}
         /\ items[i].data \in Data \cup {NoData}
<1>1. DOMAIN items \subseteq 1..MaxItems /\ items \in [DOMAIN items -> Item]
  BY ItemsAre DEF ItemsOK
<1>2. items[i] \in Item BY <1>1
<1> QED BY <1>1, <1>2 DEF Item, ItemsOK

LEMMA EmptyItems ==
  /\ DOMAIN NoItems = {} /\ Named(NoItems) /\ \A name : ItemsOK(name, NoItems)
<1>1. DOMAIN NoItems = {} BY DEF NoItems
<1>2. NoItems \in [DOMAIN NoItems -> Item] BY <1>1 DEF NoItems
<1>3. NoItems \in Items BY <1>1, <1>2, ItemsAre
<1> QED BY <1>1, <1>3 DEF ItemsOK, Named

\* The strings of a table are strings of some table, and none is missing.
LEMMA StringsTyped ==
  ASSUME NEW name
  PROVE  Strings(name) \subseteq Class \cup OtherString /\ NoString \notin Strings(name)
BY HandlersAssumption DEF Strings

\* An entry that the recording may hold, for a table that it describes.
LEMMA EntryTyped ==
  ASSUME NEW name, NEW items, ItemsOK(name, items), Named(items),
         NEW entry \in Entries(name, items)
  PROVE  /\ entry.index \in 1..MaxItems /\ entry.data \in Data \cup {NoData}
         /\ entry.string \in Strings(name) \cup {NoString}
         /\ entry.index \in DOMAIN items =>
                entry.string \in {items[entry.index].string, NoString}
         /\ entry.index \notin DOMAIN items =>
                entry.string \in Fresh(name, items)
<1>1. CASE entry \in NewItem(name, items)
  <2>1. /\ entry.index \in NextIndex(items) /\ entry.string \in Fresh(name, items)
        /\ entry.data \in Data \cup {NoData}
    BY <1>1 DEF NewItem
  <2>2. entry.index \in 1..MaxItems /\ entry.index \notin DOMAIN items
    BY <2>1 DEF NextIndex
  <2> QED BY <2>1, <2>2 DEF Fresh
<1>2. CASE entry \in UNION {NewData(items, i) : i \in DOMAIN items}
  <2>1. PICK i \in DOMAIN items : entry \in NewData(items, i) BY <1>2
  <2>2. /\ entry.index = i /\ entry.string \in {items[i].string, NoString}
        /\ entry.data \in Data \cup {NoData}
    BY <2>1 DEF NewData
  <2> QED BY <2>2, ItemTyped
<1> QED BY <1>1, <1>2 DEF Entries

\* parse_update, item by item.
LEMMA ParseUpdateIs ==
  ASSUME NEW items \in Items, NEW entry,
         entry.index \in 1..MaxItems, entry.data \in Data \cup {NoData},
         entry.string \in Class \cup OtherString \cup {NoString}
  PROVE  LET new == ParseUpdate(items, entry)
             at == entry.index IN
         /\ new \in Items /\ DOMAIN new = DOMAIN items \cup {at}
         /\ \A i \in DOMAIN items : i # at => new[i] = items[i]
         /\ Grow(items, new)
         /\ at \in DOMAIN items =>
                /\ new[at].string = items[at].string
                /\ new[at].data = IF entry.data = NoData THEN items[at].data
                                  ELSE entry.data
         /\ at \notin DOMAIN items =>
                new[at].string = entry.string /\ new[at].data = entry.data
<1> DEFINE new == ParseUpdate(items, entry)
           at == entry.index
<1>1. DOMAIN items \subseteq 1..MaxItems /\ items \in [DOMAIN items -> Item]
  BY ItemsAre
<1>2. /\ DOMAIN new = DOMAIN items \cup {at}
      /\ new = [i \in DOMAIN new |-> new[i]]
  BY DEF ParseUpdate
<1>3. ASSUME NEW i \in DOMAIN items, i # at PROVE new[i] = items[i]
  BY <1>3 DEF ParseUpdate
<1>4. ASSUME at \in DOMAIN items
      PROVE  /\ new[at] \in Item /\ new[at].string = items[at].string
             /\ new[at].data = IF entry.data = NoData THEN items[at].data
                               ELSE entry.data
  <2>1. items[at] \in Item BY <1>1, <1>4
  <2>2. new[at] = [items[at] EXCEPT !.data =
                      IF entry.data = NoData THEN @ ELSE entry.data]
    BY <1>4 DEF ParseUpdate
  <2> QED BY <2>1, <2>2 DEF Item
<1>5. ASSUME at \notin DOMAIN items
      PROVE  /\ new[at] \in Item
             /\ new[at].string = entry.string /\ new[at].data = entry.data
  <2>1. new[at] = [string |-> entry.string, data |-> entry.data]
    BY <1>5 DEF ParseUpdate
  <2> QED BY <2>1 DEF Item
<1>6. \A i \in DOMAIN new : new[i] \in Item BY <1>1, <1>2, <1>3, <1>4, <1>5
<1>7. new \in [DOMAIN new -> Item] BY <1>2, <1>6
<1>8. DOMAIN new \subseteq 1..MaxItems BY <1>1, <1>2
<1>9. new \in Items BY <1>7, <1>8, ItemsAre
<1>10. Grow(items, new) BY <1>2, <1>3, <1>4 DEF Grow
<1> QED BY <1>2, <1>3, <1>4, <1>5, <1>9, <1>10

\* On the server the items stay well-formed, and all of them named.
LEMMA ParseUpdateOK ==
  ASSUME NEW name, NEW items, ItemsOK(name, items), Named(items),
         NEW entry \in Entries(name, items)
  PROVE  /\ ItemsOK(name, ParseUpdate(items, entry))
         /\ Named(ParseUpdate(items, entry))
         /\ Grow(items, ParseUpdate(items, entry))
<1> DEFINE new == ParseUpdate(items, entry)
           at == entry.index
<1>1. /\ at \in 1..MaxItems /\ entry.data \in Data \cup {NoData}
      /\ entry.string \in Class \cup OtherString \cup {NoString}
      /\ at \notin DOMAIN items => entry.string \in Fresh(name, items)
  BY EntryTyped, StringsTyped
<1>2. /\ new \in Items /\ DOMAIN new = DOMAIN items \cup {at}
      /\ \A i \in DOMAIN items : new[i].string = items[i].string
      /\ at \notin DOMAIN items => new[at].string = entry.string
      /\ Grow(items, new)
  BY <1>1, ParseUpdateIs DEF ItemsOK, Grow
<1> HIDE DEF new
<1>3. ASSUME at \notin DOMAIN items
      PROVE  /\ new[at].string \in Strings(name)
             /\ \A i \in DOMAIN items : items[i].string # new[at].string
  BY <1>1, <1>2, <1>3 DEF Fresh
<1>4. \A i \in DOMAIN new : new[i].string \in Strings(name)
  BY <1>2, <1>3 DEF ItemsOK, Named
<1>5. ASSUME NEW i \in DOMAIN new, NEW j \in DOMAIN new,
             new[i].string = new[j].string
      PROVE  i = j
  <2>1. CASE i \in DOMAIN items /\ j \in DOMAIN items
    BY <1>2, <1>5, <2>1 DEF ItemsOK, Named
  <2>2. CASE i \notin DOMAIN items \/ j \notin DOMAIN items
    BY <1>2, <1>3, <1>5, <2>2
  <2> QED BY <2>1, <2>2
<1>6. ItemsOK(name, new) BY <1>2, <1>4, <1>5 DEF ItemsOK
<1>7. Named(new) BY <1>4, StringsTyped DEF Named
<1> QED BY <1>2, <1>6, <1>7 DEF new

\* Items that are part of well-formed items are well-formed.
LEMMA PartOK ==
  ASSUME NEW name, NEW items \in Items, NEW more, ItemsOK(name, more),
         PartOf(items, more)
  PROVE  ItemsOK(name, items)
BY DEF ItemsOK, PartOf

\* The parser's items, after an update that the recording holds.
LEMMA ParseUpdatePart ==
  ASSUME NEW name, NEW items \in Items, NEW more, ItemsOK(name, more), Named(more),
         PartOf(items, more), NEW entry \in Entries(name, more)
  PROVE  LET new == ParseUpdate(items, entry)
             newer == ParseUpdate(more, entry) IN
         /\ new \in Items /\ PartOf(new, newer) /\ Grow(items, new)
         /\ \A i \in DOMAIN new :
                new[i].string # NoString /\ new[i].data # NoData =>
                \/ new[i].string = newer[i].string /\ new[i].data = newer[i].data
                \/ /\ i \in DOMAIN items /\ items[i].string = new[i].string
                   /\ items[i].data = new[i].data
<1> DEFINE new == ParseUpdate(items, entry)
           newer == ParseUpdate(more, entry)
           at == entry.index
<1>1. /\ at \in 1..MaxItems /\ entry.data \in Data \cup {NoData}
      /\ entry.string \in Class \cup OtherString \cup {NoString}
      /\ at \in DOMAIN more => entry.string \in {more[at].string, NoString}
  BY EntryTyped, StringsTyped
<1>2. /\ new \in Items /\ DOMAIN new = DOMAIN items \cup {at} /\ Grow(items, new)
      /\ \A i \in DOMAIN items : i # at => new[i] = items[i]
      /\ at \in DOMAIN items =>
            /\ new[at].string = items[at].string
            /\ new[at].data = IF entry.data = NoData THEN items[at].data
                              ELSE entry.data
      /\ at \notin DOMAIN items =>
            new[at].string = entry.string /\ new[at].data = entry.data
  BY <1>1, ParseUpdateIs
<1>a. more \in Items BY DEF ItemsOK
<1>3. /\ DOMAIN newer = DOMAIN more \cup {at} /\ Grow(more, newer)
      /\ at \in DOMAIN more =>
            newer[at].data = IF entry.data = NoData THEN more[at].data
                             ELSE entry.data
      /\ at \notin DOMAIN more =>
            newer[at].string = entry.string /\ newer[at].data = entry.data
  BY <1>1, <1>a, ParseUpdateIs
<1>4. DOMAIN items \subseteq DOMAIN more BY DEF PartOf
<1>b. \A i \in DOMAIN more : newer[i].string = more[i].string BY <1>3 DEF Grow
<1> HIDE DEF new, newer, at
<1>5. ASSUME NEW i \in DOMAIN new
      PROVE  new[i].string \in {newer[i].string, NoString}
  <2>1. CASE i \in DOMAIN items
    <3>1. new[i].string = items[i].string BY <1>2, <2>1 DEF Grow
    <3>2. newer[i].string = more[i].string BY <1>4, <1>b, <2>1
    <3> QED BY <2>1, <3>1, <3>2 DEF PartOf
  <2>2. CASE i \notin DOMAIN items
    <3>1. i = at /\ new[i].string = entry.string BY <1>2, <1>5, <2>2
    <3> QED BY <1>1, <1>3, <1>b, <3>1 DEF at
  <2> QED BY <2>1, <2>2
<1>6. PartOf(new, newer) BY <1>2, <1>3, <1>4, <1>5 DEF PartOf
<1>7. ASSUME NEW i \in DOMAIN new, new[i].string # NoString, new[i].data # NoData
      PROVE  \/ new[i].string = newer[i].string /\ new[i].data = newer[i].data
             \/ /\ i \in DOMAIN items /\ items[i].string = new[i].string
                /\ items[i].data = new[i].data
  <2>1. CASE i # at BY <1>2, <2>1
  <2>2. CASE i = at /\ i \in DOMAIN items /\ entry.data = NoData BY <1>2, <2>2
  <2>3. CASE i = at /\ i \in DOMAIN items /\ entry.data # NoData
    BY <1>2, <1>3, <1>4, <1>5, <1>7, <2>3
  <2>4. CASE i = at /\ i \notin DOMAIN items
    <3>1. new[i].data = entry.data /\ new[i].string = newer[i].string
      BY <1>2, <1>5, <1>7, <2>4
    <3>2. entry.data # NoData BY <1>7, <3>1
    <3>3. newer[at].data = entry.data BY <1>3, <3>2
    <3> QED BY <2>4, <3>1, <3>3
  <2> QED BY <2>1, <2>2, <2>3, <2>4
<1> QED BY <1>2, <1>6, <1>7 DEF new, newer

-----------------------------------------------------------------------------
(* Tables.                                                                 *)

\* A table of well-formed tables.
LEMMA TableTyped ==
  ASSUME NEW ts, TablesOK(ts), NEW i \in 1..Len(ts)
  PROVE  /\ Len(ts) \in Nat /\ DOMAIN ts = 1..Len(ts)
         /\ ts[i] \in Table /\ ts[i].name \in TableName /\ ts[i].items \in Items
         /\ ItemsOK(ts[i].name, ts[i].items)
<1>1. ts \in Seq(Table) BY DEF TablesOK
<1>2. ts[i] \in Table BY <1>1, ElementOfSeq
<1>3. Len(ts) \in Nat /\ DOMAIN ts = 1..Len(ts) BY <1>1, LenProperties
<1> QED BY <1>2, <1>3 DEF Table, TablesOK

LEMMA EmptyTables ==
  /\ TablesOK(<<>>) /\ AllNamed(<<>>) /\ Len(<<>>) = 0
  /\ Find(<<>>, INSTANCE_BASELINE) = {} /\ Follow(<<>>, <<>>)
<1>1. <<>> \in Seq(Table) /\ Len(<<>>) = 0 BY EmptySeq
<1> QED BY <1>1 DEF TablesOK, AllNamed, Find, Follow

\* Names are unique: the table with a name is the only one.
LEMMA FoundIs ==
  ASSUME NEW ts, TablesOK(ts), NEW i \in 1..Len(ts)
  PROVE  Find(ts, ts[i].name) = {i}
BY DEF Find, TablesOK

\* A table whose items are replaced, and what stays as it is.
LEMMA UpdatedIs ==
  ASSUME NEW ts, TablesOK(ts), NEW id \in 1..Len(ts), NEW entry,
         ItemsOK(ts[id].name, ParseUpdate(ts[id].items, entry))
  PROVE  LET new == Updated(ts, id, entry) IN
         /\ TablesOK(new) /\ Len(new) = Len(ts)
         /\ new[id].items = ParseUpdate(ts[id].items, entry)
         /\ \A i \in 1..Len(ts) : new[i].name = ts[i].name
         /\ \A i \in 1..Len(ts) : i # id => new[i] = ts[i]
<1> DEFINE items == ParseUpdate(ts[id].items, entry)
           table == [ts[id] EXCEPT !.items = items]
           new == Updated(ts, id, entry)
<1>1. ts \in Seq(Table) /\ ts[id] \in Table BY TableTyped DEF TablesOK
<1>2. items \in Items /\ ItemsOK(ts[id].name, items) BY DEF ItemsOK
<1>4. new = [ts EXCEPT ![id] = table] BY <1>1 DEF Updated
<1>a. items = ParseUpdate(ts[id].items, entry) OBVIOUS
<1> HIDE DEF items
<1>3. table \in Table /\ table.name = ts[id].name /\ table.items = items
  BY <1>1, <1>2 DEF Table
<1> HIDE DEF table, new
<1>5. /\ new \in Seq(Table) /\ Len(new) = Len(ts)
      /\ \A i \in 1..Len(ts) : new[i] = IF i = id THEN table ELSE ts[i]
  BY <1>1, <1>3, <1>4, ExceptSeq
<1>6. \A i \in 1..Len(ts) : new[i].name = ts[i].name BY <1>3, <1>5
<1>7. \A i \in 1..Len(ts) : ItemsOK(new[i].name, new[i].items)
  BY <1>2, <1>3, <1>5 DEF TablesOK
<1>8. TablesOK(new) BY <1>5, <1>6, <1>7 DEF TablesOK
<1> QED BY <1>3, <1>5, <1>6, <1>8, <1>a DEF new

\* A new table behind the others.
LEMMA CreatedOK ==
  ASSUME NEW ts, TablesOK(ts), NEW name \in TableName, Find(ts, name) = {},
         NEW items, ItemsOK(name, items)
  PROVE  LET new == Append(ts, [name |-> name, items |-> items]) IN
         /\ TablesOK(new)
         /\ Len(new) = Len(ts) + 1 /\ Len(ts) \in Nat
         /\ new[Len(ts) + 1] = [name |-> name, items |-> items]
         /\ \A i \in 1..Len(ts) : new[i] = ts[i]
<1> DEFINE table == [name |-> name, items |-> items]
           new == Append(ts, table)
<1>1. ts \in Seq(Table) /\ Len(ts) \in Nat BY LenProperties DEF TablesOK
<1>2. table \in Table BY DEF Table, ItemsOK
<1>3. table.name = name /\ table.items = items OBVIOUS
<1>a. new = Append(ts, table) OBVIOUS
<1>b. table = [name |-> name, items |-> items] OBVIOUS
<1> HIDE DEF table, new
<1>4. /\ new \in Seq(Table) /\ Len(new) = Len(ts) + 1
      /\ new[Len(ts) + 1] = table
      /\ \A i \in 1..Len(ts) : new[i] = ts[i]
  BY <1>1, <1>2, <1>a, AppendProperties
<1>5. \A i \in 1..Len(ts) : new[i].name # table.name BY <1>3, <1>4 DEF Find
<1>6. \A i \in 1..Len(new) : i \in 1..Len(ts) \/ i = Len(ts) + 1 BY <1>1, <1>4
<1>7. \A i \in 1..Len(new) : ItemsOK(new[i].name, new[i].items)
  BY <1>3, <1>4, <1>6 DEF TablesOK
<1>8. \A i, j \in 1..Len(new) : new[i].name = new[j].name => i = j
  BY <1>4, <1>5, <1>6 DEF TablesOK
<1>9. TablesOK(new) BY <1>4, <1>7, <1>8 DEF TablesOK
<1> QED BY <1>1, <1>4, <1>9, <1>b DEF new

\* Tables that only miss items and data have them after a full packet.
LEMMA FullUpdateItemsIs ==
  ASSUME NEW items \in Items, NEW more \in Items, Grow(items, more)
  PROVE  FullUpdateItems(items, more) = more
<1>1. /\ items \in [DOMAIN items -> Item] /\ more \in [DOMAIN more -> Item]
      /\ more = [i \in DOMAIN more |-> more[i]]
  BY ItemsAre
<1>2. DOMAIN items \cup DOMAIN more = DOMAIN more BY DEF Grow
<1>3. ASSUME NEW i \in DOMAIN more PROVE FullUpdateItem(items, more, i) = more[i]
  <2>1. CASE i \notin DOMAIN items BY <2>1 DEF FullUpdateItem
  <2>2. CASE i \in DOMAIN items
    <3>1. items[i] \in Item /\ more[i] \in Item BY <1>1, <2>2
    <3>2. items[i].string = more[i].string BY <2>2 DEF Grow
    <3>3. [items[i] EXCEPT !.data = more[i].data] = more[i]
      BY <3>1, <3>2 DEF Item
    <3>4. FullUpdateItem(items, more, i) = [items[i] EXCEPT !.data = more[i].data]
      BY <2>2 DEF FullUpdateItem
    <3> QED BY <3>3, <3>4
  <2> QED BY <2>1, <2>2
<1>4. FullUpdateItems(items, more) = [i \in DOMAIN more |-> more[i]]
  BY <1>2, <1>3 DEF FullUpdateItems
<1> QED BY <1>1, <1>4

\* ... and the tables are those of the recording, if they are the same tables.
LEMMA FullUpdateIs ==
  ASSUME NEW ts, NEW more, TablesOK(ts), TablesOK(more), Follow(ts, more),
         AllNamed(ts)
  PROVE  FullUpdate(ts, more) = more
<1>1. /\ Len(ts) = Len(more) /\ more \in Seq(Table)
      /\ more = [i \in 1..Len(more) |-> more[i]]
  BY LenProperties DEF TablesOK, Follow
<1>2. ASSUME NEW i \in 1..Len(ts)
      PROVE  (LET found == Find(more, ts[i].name) IN
              IF found = {} THEN ts[i]
              ELSE [ts[i] EXCEPT !.items =
                 FullUpdateItems(@, more[CHOOSE k \in found : TRUE].items)])
             = more[i]
  <2>1. Find(more, ts[i].name) = {i} BY <1>1, FoundIs DEF Follow
  <2>2. (CHOOSE k \in {i} : TRUE) = i OBVIOUS
  <2>a. Grow(ts[i].items, more[i].items) BY DEF Follow, PartOf, Grow, AllNamed, Named
  <2>3. FullUpdateItems(ts[i].items, more[i].items) = more[i].items
    BY <1>1, <2>a, FullUpdateItemsIs, TableTyped
  <2>4. ts[i] \in Table /\ more[i] \in Table /\ ts[i].name = more[i].name
    BY <1>1, TableTyped DEF Follow
  <2>5. [ts[i] EXCEPT !.items = more[i].items] = more[i] BY <2>4 DEF Table
  <2> QED BY <2>1, <2>2, <2>3, <2>5
<1>3. FullUpdate(ts, more) = [i \in 1..Len(more) |-> more[i]]
  BY <1>1, <1>2 DEF FullUpdate
<1> QED BY <1>1, <1>3

-----------------------------------------------------------------------------
(* Baselines.                                                              *)

\* The items of the table of baselines.
LEMMA BaselineItemsAre ==
  ASSUME NEW ts, TablesOK(ts)
  PROVE  /\ ItemsOK(INSTANCE_BASELINE, BaselineItems(ts))
         /\ ItemsOf(ts, INSTANCE_BASELINE) = Range(BaselineItems(ts))
         /\ \A i \in 1..Len(ts) : ts[i].name = INSTANCE_BASELINE =>
                BaselineItems(ts) = ts[i].items
         /\ Find(ts, INSTANCE_BASELINE) = {} => BaselineItems(ts) = NoItems
         /\ AllNamed(ts) => Named(BaselineItems(ts))
<1>1. CASE Find(ts, INSTANCE_BASELINE) = {}
  <2>1. BaselineItems(ts) = NoItems BY <1>1 DEF BaselineItems
  <2>2. ItemsOf(ts, INSTANCE_BASELINE) = {} BY <1>1 DEF ItemsOf
  <2>3. Range(NoItems) = {} BY EmptyItems DEF Range
  <2>4. \A i \in 1..Len(ts) : ts[i].name # INSTANCE_BASELINE BY <1>1 DEF Find
  <2> QED BY <2>1, <2>2, <2>3, <2>4, EmptyItems
<1>2. CASE Find(ts, INSTANCE_BASELINE) # {}
  <2>1. PICK i \in 1..Len(ts) : ts[i].name = INSTANCE_BASELINE BY <1>2 DEF Find
  <2>2. Find(ts, INSTANCE_BASELINE) = {i} BY <2>1, FoundIs
  <2>3. (CHOOSE k \in {i} : TRUE) = i OBVIOUS
  <2>4. BaselineItems(ts) = ts[i].items BY <2>2, <2>3 DEF BaselineItems
  <2>5. ItemsOf(ts, INSTANCE_BASELINE) = Range(ts[i].items)
    BY <2>2 DEF ItemsOf
  <2>6. ItemsOK(INSTANCE_BASELINE, ts[i].items) BY <2>1 DEF TablesOK
  <2>7. \A k \in 1..Len(ts) : ts[k].name = INSTANCE_BASELINE => k = i
    BY <2>1 DEF TablesOK
  <2>8. AllNamed(ts) => Named(ts[i].items) BY DEF AllNamed
  <2> QED BY <1>2, <2>4, <2>5, <2>6, <2>7, <2>8
<1> QED BY <1>1, <1>2

\* No two items have the same class.
LEMMA ItemsForIs ==
  ASSUME NEW items, ItemsOK(INSTANCE_BASELINE, items), NEW i \in DOMAIN items,
         items[i].string # NoString
  PROVE  items[i].string \in Class /\ ItemsFor(items, items[i].string) = {i}
<1>1. items[i].string \in Class BY DEF ItemsOK, Strings
<1>2. ItemsFor(items, items[i].string) = {i} BY DEF ItemsOK, ItemsFor
<1> QED BY <1>1, <1>2

\* InstanceBaseline::update, of a class that the table has.
LEMMA UpdateBaselineOfItem ==
  ASSUME NEW ts, TablesOK(ts), NEW base, NEW i \in DOMAIN BaselineItems(ts),
         BaselineItems(ts)[i].string # NoString
  PROVE  LET item == BaselineItems(ts)[i] IN
         UpdateBaseline(base, ts)[item.string] =
             IF item.data = NoData THEN NoBaseline ELSE Shares(i)
<1> DEFINE items == BaselineItems(ts)
           found == ItemsFor(items, items[i].string)
<1>1. ItemsOK(INSTANCE_BASELINE, items) BY BaselineItemsAre
<1>2. items[i].string \in Class /\ found = {i} BY <1>1, ItemsForIs
<1>3. (CHOOSE k \in {i} : TRUE) = i OBVIOUS
<1>4. UpdateBaseline(base, ts)[items[i].string] =
        IF found = {} THEN base[items[i].string]
        ELSE LET k == CHOOSE k \in found : TRUE IN
             IF items[k].data = NoData THEN NoBaseline ELSE Shares(k)
  BY <1>2 DEF UpdateBaseline
<1> QED BY <1>2, <1>3, <1>4

\* The classes that the table has no item for.
Absent(c, ts) == ItemsFor(BaselineItems(ts), c) = {}

\* ... and of one that it does not have.
LEMMA UpdateBaselineOfNone ==
  ASSUME NEW ts, NEW base, NEW c \in Class, Absent(c, ts)
  PROVE  UpdateBaseline(base, ts)[c] = base[c]
BY DEF UpdateBaseline, Absent

\* A class that the table has.
LEMMA PresentIs ==
  ASSUME NEW ts, NEW c \in Class, ~Absent(c, ts)
  PROVE  \E i \in DOMAIN BaselineItems(ts) :
            BaselineItems(ts)[i].string = c /\ c # NoString
BY HandlersAssumption DEF Absent, ItemsFor

\* Baselines that are updated are those that the tables alone give, if classes
\* without an item had none.
LEMMA UpdateBaselineIs ==
  ASSUME NEW ts, TablesOK(ts), NEW base,
         \A c \in Class : Absent(c, ts) => base[c] = NoBaseline
  PROVE  UpdateBaseline(base, ts) = BaselinesOf(ts)
<1>1. ASSUME NEW c \in Class
      PROVE  UpdateBaseline(base, ts)[c] = BaselinesOf(ts)[c]
  <2>1. CASE Absent(c, ts)
    BY <2>1, UpdateBaselineOfNone DEF BaselinesOf, NoBaselines
  <2>2. CASE ~Absent(c, ts)
    <3>1. PICK i \in DOMAIN BaselineItems(ts) :
             BaselineItems(ts)[i].string = c /\ c # NoString
      BY <2>2, PresentIs
    <3> DEFINE item == BaselineItems(ts)[i]
               b == IF item.data = NoData THEN NoBaseline ELSE Shares(i)
    <3>2. UpdateBaseline(base, ts)[item.string] = b
      BY <3>1, UpdateBaselineOfItem
    <3>3. UpdateBaseline(NoBaselines, ts)[item.string] = b
      BY <3>1, UpdateBaselineOfItem
    <3> QED BY <3>1, <3>2, <3>3 DEF BaselinesOf
  <2> QED BY <2>1, <2>2
<1>2. /\ UpdateBaseline(base, ts) = [c \in Class |-> UpdateBaseline(base, ts)[c]]
      /\ BaselinesOf(ts) = [c \in Class |-> BaselinesOf(ts)[c]]
  BY DEF UpdateBaseline, BaselinesOf
<1> QED BY <1>1, <1>2

\* Classes without an item have no baseline.
LEMMA BaselinesOfNone ==
  ASSUME NEW ts, NEW c \in Class, Absent(c, ts)
  PROVE  BaselinesOf(ts)[c] = NoBaseline
BY UpdateBaselineOfNone DEF BaselinesOf, NoBaselines

LEMMA BaselinesOfNothing ==
  /\ BaselinesOf(<<>>) = NoBaselines
  /\ \A ts, more, base : BaselineItems(ts) = BaselineItems(more) =>
        UpdateBaseline(base, ts) = UpdateBaseline(base, more)
<1>1. BaselineItems(<<>>) = NoItems BY EmptyTables, BaselineItemsAre
<1>2. ASSUME NEW c \in Class PROVE BaselinesOf(<<>>)[c] = NoBaseline
  <2>1. Absent(c, <<>>) BY <1>1, EmptyItems DEF Absent, ItemsFor
  <2> QED BY <2>1, BaselinesOfNone
<1>3. BaselinesOf(<<>>) = [c \in Class |-> BaselinesOf(<<>>)[c]]
  BY DEF BaselinesOf, UpdateBaseline
<1>4. BaselinesOf(<<>>) = NoBaselines BY <1>2, <1>3 DEF NoBaselines
<1>5. ASSUME NEW ts, NEW more, NEW base, BaselineItems(ts) = BaselineItems(more)
      PROVE  UpdateBaseline(base, ts) = UpdateBaseline(base, more)
  <2>1. \A t : UpdateBaseline(base, t) = UpdateFrom(base, BaselineItems(t))
    BY DEF UpdateBaseline, UpdateFrom
  <2> QED BY <1>5, <2>1
<1> QED BY <1>4, <1>5

\* Where items are only added, updating the baselines gives those of the new table.
LEMMA UpdateFollows ==
  ASSUME NEW ts, NEW more, TablesOK(ts), TablesOK(more),
         Grow(BaselineItems(ts), BaselineItems(more))
  PROVE  UpdateBaseline(BaselinesOf(ts), more) = BaselinesOf(more)
<1>1. \A c \in Class : Absent(c, more) => Absent(c, ts)
  BY DEF Absent, ItemsFor, Grow
<1>2. \A c \in Class : Absent(c, more) => BaselinesOf(ts)[c] = NoBaseline
  BY <1>1, BaselinesOfNone
<1> HIDE DEF BaselinesOf
<1> QED BY <1>2, UpdateBaselineIs

\* The tables' baselines are typed.
LEMMA BaselinesTyped ==
  ASSUME NEW ts, TablesOK(ts)
  PROVE  /\ BaselinesOf(ts) \in
               [Class -> [at : 0..MaxItems, data : Data \cup {NoData}]]
         /\ NoBaselines \in
               [Class -> [at : 0..MaxItems, data : Data \cup {NoData}]]
<1> DEFINE B == [at : 0..MaxItems, data : Data \cup {NoData}]
<1>1. NoBaseline \in B BY HandlersAssumption DEF NoBaseline, Own
<1>2. ASSUME NEW i \in DOMAIN BaselineItems(ts) PROVE Shares(i) \in B
  <2>1. i \in 1..MaxItems BY BaselineItemsAre, ItemTyped
  <2>2. i \in 0..MaxItems BY <2>1, HandlersAssumption
  <2> QED BY <2>2 DEF Shares
<1>3. ASSUME NEW c \in Class PROVE BaselinesOf(ts)[c] \in B
  <2>1. CASE Absent(c, ts) BY <1>1, <2>1, BaselinesOfNone
  <2>2. CASE ~Absent(c, ts)
    <3>1. PICK i \in DOMAIN BaselineItems(ts) :
             BaselineItems(ts)[i].string = c /\ c # NoString
      BY <2>2, PresentIs
    <3>2. BaselinesOf(ts)[c] \in {NoBaseline, Shares(i)}
      BY <3>1, UpdateBaselineOfItem DEF BaselinesOf
    <3> QED BY <1>1, <1>2, <3>2
  <2> QED BY <2>1, <2>2
<1>4. BaselinesOf(ts) = [c \in Class |-> BaselinesOf(ts)[c]]
  BY DEF BaselinesOf, UpdateBaseline
<1> QED BY <1>1, <1>3, <1>4 DEF NoBaselines

-----------------------------------------------------------------------------
(* What the invariant says.                                                *)

LEMMA InvariantTyped == HandlersInv => TypeOK
<1> SUFFICES ASSUME HandlersInv PROVE TypeOK OBVIOUS
<1>1. server \in Seq(Table) /\ tables \in Seq(Table) /\ TablesOK(tables)
  BY DEF HandlersInv, RecordingOK, TablesOK
<1>2. instance_baseline \in [Class -> [at : 0..MaxItems, data : Data \cup {NoData}]]
  BY <1>1, BaselinesTyped DEF HandlersInv, BaselinesOK
<1> QED BY <1>1, <1>2 DEF HandlersInv, OthersTyped, TypeOK

\* What a class's baseline reads, where it is built from the tables.
LEMMA BaselineReads ==
  ASSUME HandlersInv, entity_classes, NEW i \in DOMAIN BaselineItems(tables),
         BaselineItems(tables)[i].string # NoString
  PROVE  BaselineData(BaselineItems(tables)[i].string) = BaselineItems(tables)[i].data
<1> DEFINE item == BaselineItems(tables)[i]
<1>1. TablesOK(tables) /\ instance_baseline = BaselinesOf(tables)
  BY DEF HandlersInv, RecordingOK, BaselinesOK
<1>2. i \in 1..MaxItems BY <1>1, BaselineItemsAre, ItemTyped
<1>3. instance_baseline[item.string] =
        IF item.data = NoData THEN NoBaseline ELSE Shares(i)
  BY <1>1, UpdateBaselineOfItem DEF BaselinesOf
<1>4. CASE item.data = NoData
  BY <1>3, <1>4 DEF BaselineData, NoBaseline, Own
<1>5. CASE item.data # NoData
  <2>1. instance_baseline[item.string] = [at |-> i, data |-> NoData]
    BY <1>3, <1>5 DEF Shares
  <2>2. i # 0 BY <1>2, HandlersAssumption
  <2> QED BY <2>1, <2>2 DEF BaselineData
<1> QED BY <1>4, <1>5

LEMMA InvariantCoherent == HandlersInv => BaselineCoherent
<1> SUFFICES ASSUME HandlersInv, entity_classes,
                    NEW item \in ItemsOf(tables, INSTANCE_BASELINE),
                    NEW c \in Class, item.string = c
             PROVE  BaselineData(c) = item.data
  BY DEF BaselineCoherent
<1>1. TablesOK(tables) BY DEF HandlersInv, RecordingOK
<1>2. item \in Range(BaselineItems(tables)) BY <1>1, BaselineItemsAre
<1>3. PICK i \in DOMAIN BaselineItems(tables) : item = BaselineItems(tables)[i]
  BY <1>2 DEF Range
<1> QED BY <1>3, BaselineReads, HandlersAssumption

\* What handle_create finds of a class: nothing, or what the recording held.
LEMMA BaselineHeld ==
  ASSUME HandlersInv, entity_classes, NEW c \in Class, BaselineData(c) # NoData
  PROVE  <<c, BaselineData(c)>> \in held
<1>1. TablesOK(tables) /\ instance_baseline = BaselinesOf(tables)
      /\ ItemsHeld(BaselineItems(tables))
  BY DEF HandlersInv, RecordingOK, BaselinesOK
<1>2. CASE Absent(c, tables)
  <2>1. instance_baseline[c] = NoBaseline BY <1>1, <1>2, BaselinesOfNone
  <2> QED BY <2>1 DEF BaselineData, NoBaseline, Own
<1>3. CASE ~Absent(c, tables)
  <2>1. PICK i \in DOMAIN BaselineItems(tables) :
           BaselineItems(tables)[i].string = c /\ c # NoString
    BY <1>3, PresentIs
  <2>2. BaselineData(c) = BaselineItems(tables)[i].data BY <2>1, BaselineReads
  <2> QED BY <1>1, <2>1, <2>2 DEF ItemsHeld
<1> QED BY <1>2, <1>3

\* Where nothing was passed over, a class that the server has a baseline of has one.
LEMMA CreatableIsDefined ==
  ASSUME HandlersInv, entity_classes, ~lagging, NEW c \in Class, Creatable(c)
  PROVE  BaselineData(c) # NoData
<1>1. tables = server BY DEF HandlersInv, TablesFaithful
<1>2. PICK item \in ItemsOf(server, INSTANCE_BASELINE) :
         item.string = c /\ item.data # NoData
  BY DEF Creatable
<1>3. BaselineData(c) = item.data
  BY <1>1, <1>2, InvariantCoherent DEF BaselineCoherent
<1> QED BY <1>2, <1>3

-----------------------------------------------------------------------------
(* Commands.                                                               *)

LEMMA NothingTyped ==
  /\ DOMAIN NoEntities = {} /\ Range(NoEntities) = {}
  /\ NothingCached \in [Class -> Data \cup {NoData}]
<1>1. DOMAIN NoEntities = {} BY DEF NoEntities
<1> QED BY <1>1 DEF Range, NothingCached

\* No table has been described.
LEMMA NothingRecorded ==
  ASSUME server = <<>>, tables = <<>> PROVE RecordingOK
<1>1. Held(<<>>) = {} BY EmptyTables DEF Held, ItemsOf
<1>2. ItemsHeld(BaselineItems(<<>>))
  BY EmptyTables, BaselineItemsAre, EmptyItems DEF ItemsHeld
<1> QED BY <1>1, <1>2, EmptyTables DEF RecordingOK

LEMMA HandlersInit == Init => HandlersInv
<1> SUFFICES ASSUME Init PROVE HandlersInv OBVIOUS
<1>1. OthersTyped BY NothingTyped DEF Init, OthersTyped
<1>2. RecordingOK BY NothingRecorded DEF Init
<1>3. ModeOK BY DEF Init, ModeOK
<1>4. BaselinesOK BY DEF Init, BaselinesOK
<1>5. TablesFaithful /\ NothingMissing
  BY DEF Init, TablesFaithful, NothingMissing
<1>6. BaselineOfThisRun
  BY DEF Init, BaselineOfThisRun, NoEntities, NothingCached, Range
<1> QED BY <1>1, <1>2, <1>3, <1>4, <1>5, <1>6 DEF HandlersInv

LEMMA SendTablesStep == HandlersInv /\ SendTables => HandlersInv'
<1> SUFFICES ASSUME HandlersInv, SendTables PROVE HandlersInv' OBVIOUS
<1> USE DEF HandlersInv, SendTables, containers, entity_state, lag
<1>1. OthersTyped' BY DEF OthersTyped
<1>2. RecordingOK' BY DEF RecordingOK, ItemsHeld
<1>3. ModeOK' BY DEF ModeOK
<1>4. BaselinesOK' BY DEF BaselinesOK
<1>5. TablesFaithful' /\ NothingMissing' BY DEF TablesFaithful, NothingMissing
<1>6. BaselineOfThisRun' BY DEF BaselineOfThisRun
<1> QED BY <1>1, <1>2, <1>3, <1>4, <1>5, <1>6

\* An item without a string is there only after playing on.
LEMMA NamedUnlessPlayedOn ==
  ASSUME NEW ts, TablesOK(ts), AllNamed(ts) PROVE ~Unnamed(ts)
BY BaselineItemsAre DEF Unnamed, ItemsFor, Named

LEMMA ClassInfoStep == HandlersInv /\ ClassInfo => HandlersInv'
<1> SUFFICES ASSUME HandlersInv, ClassInfo PROVE HandlersInv' OBVIOUS
<1> USE DEF HandlersInv, ClassInfo, entity_state, lag
<1>1. OthersTyped' BY DEF OthersTyped
<1>2. RecordingOK' BY DEF RecordingOK, ItemsHeld
<1>3. ModeOK' BY DEF ModeOK
<1>4. BaselinesOK' BY DEF BaselinesOK, BaselinesOf
<1>5. TablesFaithful' BY DEF TablesFaithful
<1>6. NothingMissing' BY NamedUnlessPlayedOn DEF NothingMissing, RecordingOK
<1>7. BaselineOfThisRun' BY DEF BaselineOfThisRun
<1> QED BY <1>1, <1>2, <1>3, <1>4, <1>5, <1>6, <1>7

\* Steps that only begin or end the reading of something.
LEMMA ModeStep ==
  ASSUME HandlersInv,
         UNCHANGED <<recording, containers, schema, entity_state, lagging, held>>,
         played_on' \in {played_on, played_on \/ lagging},
         mode' \in {"idle", "packet", "entities", "panic", "abort"},
         mode' \in {"packet", "entities"} /\ lagging => played_on',
         mode' = "entities" => SignedOn
  PROVE  HandlersInv'
<1> USE DEF HandlersInv, recording, containers, schema, entity_state
<1>1. played_on' \in BOOLEAN /\ (~played_on' => ~played_on) BY DEF OthersTyped
<1>2. OthersTyped' BY <1>1 DEF OthersTyped
<1>3. RecordingOK' BY <1>1 DEF RecordingOK, ItemsHeld
<1>4. ModeOK' BY DEF ModeOK, SignedOn
<1>5. BaselinesOK' BY DEF BaselinesOK
<1>6. TablesFaithful' /\ NothingMissing' BY DEF TablesFaithful, NothingMissing
<1>7. BaselineOfThisRun' BY DEF BaselineOfThisRun
<1> QED BY <1>2, <1>3, <1>4, <1>5, <1>6, <1>7

LEMMA FullPacketStep ==
  ASSUME HandlersInv, NEW with_packet \in BOOLEAN, FullPacket(with_packet)
  PROVE  HandlersInv'
<1> USE DEF HandlersInv, FullPacket, recording, schema, entity_state
<1>1. entity_classes /\ ~played_on BY DEF SignedOn, ModeOK
<1>2. /\ TablesOK(server) /\ TablesOK(tables) /\ Follow(tables, server)
      /\ AllNamed(server) /\ AllNamed(tables)
  BY <1>1 DEF RecordingOK
<1>3. tables' = server BY <1>2, FullUpdateIs
<1>4. mode' \in {"packet", "idle"}
  BY <1>1, <1>2, <1>3, NamedUnlessPlayedOn DEF AfterFullPacket
<1>5. OthersTyped' BY <1>4 DEF OthersTyped
<1>6. RecordingOK'
  <2>1. Follow(server, server) BY <1>2 DEF Follow, PartOf
  <2>2. ItemsHeld(BaselineItems(server))
    <3>1. ItemsOf(server, INSTANCE_BASELINE) = Range(BaselineItems(server))
      BY <1>2, BaselineItemsAre
    <3>2. ASSUME NEW i \in DOMAIN BaselineItems(server),
                 BaselineItems(server)[i].data # NoData
          PROVE  <<BaselineItems(server)[i].string,
                   BaselineItems(server)[i].data>> \in held
      BY <3>1, <3>2 DEF Held, Range, RecordingOK
    <3> QED BY <3>2 DEF ItemsHeld
  <2> QED BY <1>2, <1>3, <2>1, <2>2 DEF RecordingOK, ItemsHeld
<1>7. ModeOK' BY <1>1, <1>4 DEF ModeOK, SignedOn
<1>8. BaselinesOK'
  <2>1. Grow(BaselineItems(tables), BaselineItems(server))
    <3>1. CASE Find(tables, INSTANCE_BASELINE) = {}
      BY <1>2, <3>1, BaselineItemsAre, EmptyItems DEF Grow
    <3>2. CASE Find(tables, INSTANCE_BASELINE) # {}
      <4>1. PICK i \in 1..Len(tables) : tables[i].name = INSTANCE_BASELINE
        BY <3>2 DEF Find
      <4>2. /\ i \in 1..Len(server) /\ server[i].name = INSTANCE_BASELINE
            /\ PartOf(tables[i].items, server[i].items) /\ Named(tables[i].items)
        BY <1>2, <4>1 DEF Follow, AllNamed
      <4>3. Grow(tables[i].items, server[i].items) BY <4>2 DEF PartOf, Named, Grow
      <4> QED BY <1>2, <4>1, <4>2, <4>3, BaselineItemsAre
    <3> QED BY <3>1, <3>2
  <2>2. ASSUME NEW c \in Class, Absent(c, server)
        PROVE  Detached[c] = NoBaseline
    <3>1. Absent(c, tables) BY <2>1, <2>2 DEF Absent, ItemsFor, Grow
    <3>2. instance_baseline[c] = NoBaseline
      BY <1>1, <3>1, BaselinesOfNone DEF BaselinesOK
    <3>3. BaselineData(c) = NoData BY <3>2 DEF BaselineData, NoBaseline, Own
    <3> QED BY <3>3 DEF Detached, NoBaseline
  <2>3. UpdateBaseline(Detached, server) = BaselinesOf(server)
    BY <1>2, <2>2, UpdateBaselineIs
  <2> QED BY <1>1, <1>3, <2>3 DEF BaselinesOK
<1>9. TablesFaithful' /\ NothingMissing'
  BY <1>3, <1>4 DEF TablesFaithful, NothingMissing
<1>10. BaselineOfThisRun' BY DEF BaselineOfThisRun
<1> QED BY <1>5, <1>6, <1>7, <1>8, <1>9, <1>10

LEMMA ResetStep == HandlersInv /\ Reset => HandlersInv'
<1> SUFFICES ASSUME HandlersInv, Reset PROVE HandlersInv' OBVIOUS
<1> USE DEF HandlersInv, Reset, schema
<1>1. OthersTyped' BY NothingTyped DEF OthersTyped
<1>2. RecordingOK'
  <2>1. Held(<<>>) = {} BY EmptyTables DEF Held, ItemsOf
  <2>2. BaselineItems(<<>>) = NoItems BY EmptyTables, BaselineItemsAre
  <2> QED BY <2>1, <2>2, EmptyTables, EmptyItems DEF RecordingOK, ItemsHeld
<1>3. ModeOK' BY DEF ModeOK
<1>4. BaselinesOK' BY BaselinesOfNothing DEF BaselinesOK
<1>5. TablesFaithful' /\ NothingMissing' BY DEF TablesFaithful, NothingMissing
<1>6. BaselineOfThisRun'
  BY DEF BaselineOfThisRun, NoEntities, NothingCached, Range
<1> QED BY <1>1, <1>2, <1>3, <1>4, <1>5, <1>6

-----------------------------------------------------------------------------
(* The messages of a packet.                                               *)

\* What the server held is remembered, and is of the types that it should be.
LEMMA HeldTyped ==
  ASSUME NEW ts, TablesOK(ts), AllNamed(ts)
  PROVE  /\ Held(ts) \subseteq Class \X Data
         /\ \A i \in DOMAIN BaselineItems(ts) :
               BaselineItems(ts)[i].data # NoData =>
                  <<BaselineItems(ts)[i].string, BaselineItems(ts)[i].data>>
                     \in Held(ts)
<1> DEFINE items == BaselineItems(ts)
<1>1. /\ ItemsOK(INSTANCE_BASELINE, items) /\ Named(items)
      /\ ItemsOf(ts, INSTANCE_BASELINE) = Range(items)
  BY BaselineItemsAre
<1>2. \A i \in DOMAIN items :
         items[i].string \in Class /\ items[i].data \in Data \cup {NoData}
  BY <1>1, ItemTyped DEF Named, Strings
<1> HIDE DEF items
<1>3. Held(ts) = {<<items[i].string, items[i].data>> :
                    i \in {k \in DOMAIN items : items[k].data # NoData}}
  BY <1>1 DEF Held, Range
<1> QED BY <1>2, <1>3 DEF items

LEMMA FirstItemsOK ==
  ASSUME NEW name, NEW items \in FirstItems(name)
  PROVE  ItemsOK(name, items) /\ Named(items)
BY EmptyItems, ParseUpdateOK DEF FirstItems

\* RefreshBaseline, where the table that was written is or is not that of baselines.
LEMMA RefreshOK ==
  ASSUME BaselinesOK, NEW name, NEW more, TablesOK(tables), TablesOK(more),
         name = INSTANCE_BASELINE =>
            Grow(BaselineItems(tables), BaselineItems(more)),
         name # INSTANCE_BASELINE => BaselineItems(tables) = BaselineItems(more),
         RefreshBaseline(name, more)
  PROVE  /\ instance_baseline' =
               IF entity_classes THEN BaselinesOf(more) ELSE NoBaselines
         /\ \/ mode' = mode
            \/ name = INSTANCE_BASELINE /\ Unnamed(more) /\ mode' = "no_baseline"
<1>1. CASE ~entity_classes BY <1>1 DEF BaselinesOK, RefreshBaseline
<1>2. CASE entity_classes /\ name = INSTANCE_BASELINE
  BY <1>2, UpdateFollows DEF BaselinesOK, RefreshBaseline
<1>3. CASE entity_classes /\ name # INSTANCE_BASELINE
  BY <1>3, BaselinesOfNothing DEF BaselinesOK, RefreshBaseline, BaselinesOf
<1> QED BY <1>1, <1>2, <1>3

\* A table that is created by the recording and by the parser.
LEMMA CreatedBaselines ==
  ASSUME NEW ts, TablesOK(ts), NEW name \in TableName, Find(ts, name) = {},
         NEW items, ItemsOK(name, items)
  PROVE  LET new == Append(ts, [name |-> name, items |-> items]) IN
         /\ name = INSTANCE_BASELINE => /\ BaselineItems(ts) = NoItems
                                        /\ BaselineItems(new) = items
                                        /\ Grow(BaselineItems(ts), BaselineItems(new))
         /\ name # INSTANCE_BASELINE => BaselineItems(ts) = BaselineItems(new)
<1> DEFINE new == Append(ts, [name |-> name, items |-> items])
<1>1. /\ TablesOK(new) /\ Len(new) = Len(ts) + 1 /\ Len(ts) \in Nat
      /\ new[Len(ts) + 1] = [name |-> name, items |-> items]
      /\ \A i \in 1..Len(ts) : new[i] = ts[i]
  BY CreatedOK
<1> HIDE DEF new
<1>2. ASSUME name = INSTANCE_BASELINE
      PROVE  /\ BaselineItems(ts) = NoItems /\ BaselineItems(new) = items
             /\ Grow(BaselineItems(ts), BaselineItems(new))
  <2>1. BaselineItems(ts) = NoItems BY <1>2, BaselineItemsAre
  <2>2. Len(ts) + 1 \in 1..Len(new) /\ new[Len(ts) + 1].name = INSTANCE_BASELINE
        /\ new[Len(ts) + 1].items = items
    BY <1>1, <1>2
  <2>3. BaselineItems(new) = items BY <1>1, <2>2, BaselineItemsAre
  <2> QED BY <2>1, <2>3, EmptyItems DEF Grow
<1>3. ASSUME name # INSTANCE_BASELINE
      PROVE  BaselineItems(ts) = BaselineItems(new)
  <2>1. \A i \in 1..Len(new) : i \in 1..Len(ts) \/ i = Len(ts) + 1 BY <1>1
  <2>2. CASE Find(ts, INSTANCE_BASELINE) = {}
    <3>1. \A i \in 1..Len(new) : new[i].name # INSTANCE_BASELINE
      BY <1>1, <1>3, <2>1, <2>2 DEF Find
    <3>2. Find(new, INSTANCE_BASELINE) = {} BY <3>1 DEF Find
    <3> QED BY <1>1, <2>2, <3>2, BaselineItemsAre
  <2>3. CASE Find(ts, INSTANCE_BASELINE) # {}
    <3>1. PICK i \in 1..Len(ts) : ts[i].name = INSTANCE_BASELINE BY <2>3 DEF Find
    <3>2. i \in 1..Len(new) /\ new[i] = ts[i] BY <1>1
    <3> QED BY <1>1, <3>1, <3>2, BaselineItemsAre
  <2> QED BY <2>2, <2>3
<1> QED BY <1>2, <1>3 DEF new

LEMMA CreateStringTableStep ==
  ASSUME HandlersInv, NEW name \in TableName, NEW items \in FirstItems(name),
         CreateStringTable(name, items)
  PROVE  HandlersInv'
<1> DEFINE new == Append(tables, [name |-> name, items |-> items])
           newer == Append(server, [name |-> name, items |-> items])
<1> USE DEF HandlersInv, CreateStringTable, schema, entity_state, lag
<1>1. /\ TablesOK(server) /\ TablesOK(tables) /\ Follow(tables, server)
      /\ AllNamed(server) /\ (~played_on => AllNamed(tables))
      /\ Held(server) \subseteq held /\ ItemsHeld(BaselineItems(tables))
      /\ tables' = new /\ server' = newer /\ RefreshBaseline(name, new)
      /\ held' = held \cup Held(newer)
  BY DEF RecordingOK
<1>2. ItemsOK(name, items) /\ Named(items) BY FirstItemsOK
<1>3. Find(tables, name) = {} BY <1>1 DEF Find, Follow
<1>4. /\ TablesOK(new) /\ Len(new) = Len(tables) + 1 /\ Len(tables) \in Nat
      /\ new[Len(tables) + 1] = [name |-> name, items |-> items]
      /\ \A i \in 1..Len(tables) : new[i] = tables[i]
  BY <1>1, <1>2, <1>3, CreatedOK
<1>5. /\ TablesOK(newer) /\ Len(newer) = Len(server) + 1
      /\ newer[Len(server) + 1] = [name |-> name, items |-> items]
      /\ \A i \in 1..Len(server) : newer[i] = server[i]
  BY <1>1, <1>2, CreatedOK
<1>6. /\ name = INSTANCE_BASELINE =>
            /\ BaselineItems(new) = items
            /\ Grow(BaselineItems(tables), BaselineItems(new))
      /\ name # INSTANCE_BASELINE => BaselineItems(tables) = BaselineItems(new)
  BY <1>1, <1>2, <1>3, CreatedBaselines
<1>7. name = INSTANCE_BASELINE => BaselineItems(newer) = items
  BY <1>1, <1>2, CreatedBaselines
<1> HIDE DEF new, newer
<1>8. Len(tables) = Len(server) BY <1>1 DEF Follow
<1>9. \A i \in 1..Len(new) : i \in 1..Len(tables) \/ i = Len(tables) + 1
  BY <1>4
<1>10. Follow(new, newer)
  <2>1. ASSUME NEW i \in 1..Len(new)
        PROVE  new[i].name = newer[i].name /\ PartOf(new[i].items, newer[i].items)
    <3>1. CASE i \in 1..Len(tables) BY <1>1, <1>4, <1>5, <1>8, <3>1 DEF Follow
    <3>2. CASE i = Len(tables) + 1 BY <1>4, <1>5, <1>8, <3>2 DEF PartOf
    <3> QED BY <1>9, <3>1, <3>2
  <2> QED BY <1>4, <1>5, <1>8, <2>1 DEF Follow
<1>11. AllNamed(newer) /\ (AllNamed(tables) => AllNamed(new))
  BY <1>1, <1>2, <1>4, <1>5, <1>8, <1>9 DEF AllNamed
<1>12. Held(newer) \subseteq Class \X Data BY <1>5, <1>11, HeldTyped
<1>13. /\ instance_baseline' =
             IF entity_classes THEN BaselinesOf(new) ELSE NoBaselines
       /\ \/ mode' = mode
          \/ name = INSTANCE_BASELINE /\ Unnamed(new) /\ mode' = "no_baseline"
  BY <1>1, <1>4, <1>6, RefreshOK
<1>14. mode' = mode
  BY <1>2, <1>6, <1>13 DEF Unnamed, ItemsFor, Named
<1>15. \A i \in DOMAIN BaselineItems(new) :
          BaselineItems(new)[i].string # NoString /\ BaselineItems(new)[i].data # NoData
             => <<BaselineItems(new)[i].string, BaselineItems(new)[i].data>> \in held'
  <2>1. CASE name = INSTANCE_BASELINE
    <3>1. \A i \in DOMAIN items : items[i].data # NoData =>
             <<items[i].string, items[i].data>> \in Held(newer)
      BY <1>5, <1>7, <1>11, <2>1, HeldTyped
    <3> QED BY <1>1, <1>6, <2>1, <3>1
  <2>2. CASE name # INSTANCE_BASELINE BY <1>1, <1>6, <2>2 DEF ItemsHeld
  <2> QED BY <2>1, <2>2
<1>16. OthersTyped' BY <1>1, <1>12, <1>14 DEF OthersTyped
<1>17. RecordingOK'
  BY <1>1, <1>4, <1>5, <1>10, <1>11, <1>15 DEF RecordingOK, ItemsHeld
<1>18. ModeOK' BY <1>14 DEF ModeOK, SignedOn
<1>19. BaselinesOK' BY <1>1, <1>13 DEF BaselinesOK
<1>20. TablesFaithful' /\ NothingMissing'
  BY <1>1, <1>14 DEF TablesFaithful, NothingMissing, new, newer
<1>21. BaselineOfThisRun' BY DEF BaselineOfThisRun
<1> QED BY <1>16, <1>17, <1>18, <1>19, <1>20, <1>21

\* What an update of one table does to the baselines' items.
LEMMA UpdatedBaselines ==
  ASSUME NEW ts, TablesOK(ts), NEW id \in 1..Len(ts), NEW entry,
         LET items == ParseUpdate(ts[id].items, entry) IN
            ItemsOK(ts[id].name, items) /\ Grow(ts[id].items, items)
  PROVE  LET new == Updated(ts, id, entry) IN
         /\ ts[id].name = INSTANCE_BASELINE =>
               /\ BaselineItems(new) = ParseUpdate(BaselineItems(ts), entry)
               /\ Grow(BaselineItems(ts), BaselineItems(new))
         /\ ts[id].name # INSTANCE_BASELINE =>
               BaselineItems(ts) = BaselineItems(new)
<1> DEFINE items == ParseUpdate(ts[id].items, entry)
           new == Updated(ts, id, entry)
<1>1. ItemsOK(ts[id].name, items) /\ Grow(ts[id].items, items) OBVIOUS
<1>2. /\ TablesOK(new) /\ Len(new) = Len(ts)
      /\ new[id].items = items
      /\ \A i \in 1..Len(ts) : new[i].name = ts[i].name
      /\ \A i \in 1..Len(ts) : i # id => new[i] = ts[i]
  BY <1>1, UpdatedIs
<1>a. items = ParseUpdate(ts[id].items, entry) OBVIOUS
<1> HIDE DEF items, new
<1>3. ASSUME ts[id].name = INSTANCE_BASELINE
      PROVE  /\ BaselineItems(new) = ParseUpdate(BaselineItems(ts), entry)
             /\ Grow(BaselineItems(ts), BaselineItems(new))
  <2>1. BaselineItems(ts) = ts[id].items BY <1>3, BaselineItemsAre
  <2>2. BaselineItems(new) = items BY <1>2, <1>3, BaselineItemsAre
  <2> QED BY <1>1, <1>a, <2>1, <2>2
<1>4. ASSUME ts[id].name # INSTANCE_BASELINE
      PROVE  BaselineItems(ts) = BaselineItems(new)
  <2>1. CASE Find(ts, INSTANCE_BASELINE) = {}
    <3>1. Find(new, INSTANCE_BASELINE) = {} BY <1>2, <2>1 DEF Find
    <3> QED BY <1>2, <2>1, <3>1, BaselineItemsAre
  <2>2. CASE Find(ts, INSTANCE_BASELINE) # {}
    <3>1. PICK i \in 1..Len(ts) : ts[i].name = INSTANCE_BASELINE
      BY <2>2 DEF Find
    <3>2. i \in 1..Len(new) /\ new[i] = ts[i] BY <1>2, <1>4, <3>1
    <3> QED BY <1>2, <3>1, <3>2, BaselineItemsAre
  <2> QED BY <2>1, <2>2
<1> QED BY <1>3, <1>4 DEF new

\* An update, on the server.
LEMMA ServerUpdated ==
  ASSUME RecordingOK, NEW id \in 1..Len(server),
         NEW entry \in Entries(server[id].name, server[id].items)
  PROVE  LET newer == Updated(server, id, entry) IN
         /\ ItemsOK(server[id].name, ParseUpdate(server[id].items, entry))
         /\ TablesOK(newer) /\ AllNamed(newer) /\ Len(newer) = Len(server)
         /\ newer[id].items = ParseUpdate(server[id].items, entry)
         /\ \A i \in 1..Len(server) : newer[i].name = server[i].name
         /\ \A i \in 1..Len(server) : i # id => newer[i] = server[i]
         /\ Grow(server[id].items, newer[id].items)
<1> DEFINE newer == Updated(server, id, entry)
<1>1. TablesOK(server) /\ AllNamed(server) BY DEF RecordingOK
<1>2. ItemsOK(server[id].name, server[id].items) /\ Named(server[id].items)
  BY <1>1 DEF TablesOK, AllNamed
<1>3. /\ ItemsOK(server[id].name, ParseUpdate(server[id].items, entry))
      /\ Named(ParseUpdate(server[id].items, entry))
      /\ Grow(server[id].items, ParseUpdate(server[id].items, entry))
  BY <1>2, ParseUpdateOK
<1>4. /\ TablesOK(newer) /\ Len(newer) = Len(server)
      /\ newer[id].items = ParseUpdate(server[id].items, entry)
      /\ \A i \in 1..Len(server) : newer[i].name = server[i].name
      /\ \A i \in 1..Len(server) : i # id => newer[i] = server[i]
  BY <1>1, <1>3, UpdatedIs
<1>5. AllNamed(newer) BY <1>1, <1>3, <1>4 DEF AllNamed
<1> QED BY <1>3, <1>4, <1>5

LEMMA UpdateStringTableStep ==
  ASSUME HandlersInv, NEW id \in 1..Len(server),
         NEW entry \in Entries(server[id].name, server[id].items),
         UpdateStringTable(id, entry)
  PROVE  HandlersInv'
<1> DEFINE new == Updated(tables, id, entry)
           newer == Updated(server, id, entry)
           items == ParseUpdate(tables[id].items, entry)
           more == ParseUpdate(server[id].items, entry)
<1> USE DEF HandlersInv, UpdateStringTable, schema, entity_state, lag
<1>1. /\ TablesOK(server) /\ TablesOK(tables) /\ Follow(tables, server)
      /\ AllNamed(server) /\ (~played_on => AllNamed(tables))
      /\ Held(server) \subseteq held /\ ItemsHeld(BaselineItems(tables))
  BY DEF RecordingOK
<1>2. /\ Len(tables) = Len(server) /\ id \in 1..Len(tables) /\ Len(tables) \in Nat
      /\ tables[id].name = server[id].name
      /\ PartOf(tables[id].items, server[id].items)
  BY <1>1, TableTyped DEF Follow
<1>3. /\ tables' = new /\ server' = newer /\ held' = held \cup Held(newer)
      /\ RefreshBaseline(tables[id].name, tables')
  BY <1>2
<1>4. /\ ItemsOK(server[id].name, more)
      /\ TablesOK(newer) /\ AllNamed(newer) /\ Len(newer) = Len(server)
      /\ newer[id].items = more
      /\ \A i \in 1..Len(server) : newer[i].name = server[i].name
      /\ \A i \in 1..Len(server) : i # id => newer[i] = server[i]
  BY ServerUpdated
<1>5. /\ items \in Items /\ PartOf(items, more) /\ Grow(tables[id].items, items)
      /\ \A i \in DOMAIN items :
            items[i].string # NoString /\ items[i].data # NoData =>
               \/ items[i].string = more[i].string /\ items[i].data = more[i].data
               \/ /\ i \in DOMAIN tables[id].items
                  /\ tables[id].items[i].string = items[i].string
                  /\ tables[id].items[i].data = items[i].data
  <2>1. tables[id].items \in Items BY <1>1, <1>2, TableTyped
  <2>2. ItemsOK(server[id].name, server[id].items) /\ Named(server[id].items)
    BY <1>1 DEF TablesOK, AllNamed
  <2> QED BY <1>2, <2>1, <2>2, ParseUpdatePart
<1>6. ItemsOK(tables[id].name, items) BY <1>2, <1>4, <1>5, PartOK
<1>7. /\ TablesOK(new) /\ Len(new) = Len(tables)
      /\ new[id].items = items
      /\ \A i \in 1..Len(tables) : new[i].name = tables[i].name
      /\ \A i \in 1..Len(tables) : i # id => new[i] = tables[i]
  BY <1>1, <1>2, <1>6, UpdatedIs
<1>8. /\ tables[id].name = INSTANCE_BASELINE =>
            /\ BaselineItems(new) = items
            /\ Grow(BaselineItems(tables), BaselineItems(new))
      /\ tables[id].name # INSTANCE_BASELINE =>
            BaselineItems(tables) = BaselineItems(new)
  <2>1. tables[id].name = INSTANCE_BASELINE => BaselineItems(tables) = tables[id].items
    BY <1>1, <1>2, BaselineItemsAre
  <2> QED BY <1>1, <1>2, <1>5, <1>6, <2>1, UpdatedBaselines
<1>9. /\ ~lagging => tables = server /\ new = newer
      /\ lagging => played_on
  BY DEF ModeOK, TablesFaithful
<1> HIDE DEF new, newer, items, more
<1>10. Follow(new, newer)
  <2>1. ASSUME NEW i \in 1..Len(new)
        PROVE  new[i].name = newer[i].name /\ PartOf(new[i].items, newer[i].items)
    <3>1. i \in 1..Len(tables) /\ i \in 1..Len(server) BY <1>2, <1>7
    <3>2. new[i].name = newer[i].name BY <1>1, <1>4, <1>7, <3>1 DEF Follow
    <3>3. CASE i = id BY <1>4, <1>5, <1>7, <3>2, <3>3
    <3>4. CASE i # id BY <1>1, <1>4, <1>7, <3>1, <3>4 DEF Follow
    <3> QED BY <3>3, <3>4
  <2> QED BY <1>2, <1>4, <1>7, <2>1 DEF Follow
<1>11. Held(newer) \subseteq Class \X Data BY <1>4, HeldTyped
<1>12. /\ instance_baseline' =
             IF entity_classes THEN BaselinesOf(new) ELSE NoBaselines
       /\ \/ mode' = mode
          \/ /\ tables[id].name = INSTANCE_BASELINE /\ Unnamed(new)
             /\ mode' = "no_baseline"
  BY <1>1, <1>3, <1>7, <1>8, RefreshOK
<1>13. mode' = mode \/ (mode' = "no_baseline" /\ played_on)
  <2>1. Unnamed(new) => played_on
    <3>1. CASE lagging BY <1>9, <3>1
    <3>2. CASE ~lagging BY <1>4, <1>9, <3>2, NamedUnlessPlayedOn
    <3> QED BY <3>1, <3>2
  <2> QED BY <1>12, <2>1
<1>14. \A i \in DOMAIN BaselineItems(new) :
          BaselineItems(new)[i].string # NoString /\ BaselineItems(new)[i].data # NoData
             => <<BaselineItems(new)[i].string, BaselineItems(new)[i].data>> \in held'
  <2>1. CASE tables[id].name = INSTANCE_BASELINE
    <3>1. BaselineItems(new) = items /\ BaselineItems(tables) = tables[id].items
      BY <1>1, <1>2, <1>8, <2>1, BaselineItemsAre
    <3>2. BaselineItems(newer) = more
      BY <1>2, <1>4, <2>1, BaselineItemsAre
    <3>3. ASSUME NEW i \in DOMAIN items,
                 items[i].string # NoString, items[i].data # NoData
          PROVE  <<items[i].string, items[i].data>> \in held'
      <4>1. CASE items[i].string = more[i].string /\ items[i].data = more[i].data
        <5>1. i \in DOMAIN more BY <1>5 DEF PartOf
        <5>2. <<more[i].string, more[i].data>> \in Held(newer)
          BY <1>4, <3>2, <3>3, <4>1, <5>1, HeldTyped
        <5> QED BY <1>3, <4>1, <5>2
      <4>2. CASE /\ i \in DOMAIN tables[id].items
                 /\ tables[id].items[i].string = items[i].string
                 /\ tables[id].items[i].data = items[i].data
        <5>1. <<items[i].string, items[i].data>> \in held
          BY <1>1, <3>1, <3>3, <4>2 DEF ItemsHeld
        <5> QED BY <1>3, <5>1
      <4> QED BY <1>5, <3>3, <4>1, <4>2
    <3> QED BY <3>1, <3>3
  <2>2. CASE tables[id].name # INSTANCE_BASELINE
    BY <1>1, <1>3, <1>8, <2>2 DEF ItemsHeld
  <2> QED BY <2>1, <2>2
<1>15. OthersTyped' BY <1>3, <1>11, <1>13 DEF OthersTyped
<1>16. RecordingOK'
  BY <1>1, <1>3, <1>4, <1>7, <1>9, <1>10, <1>14 DEF RecordingOK, ItemsHeld
<1>17. ModeOK' BY <1>13 DEF ModeOK, SignedOn
<1>18. BaselinesOK' BY <1>3, <1>12 DEF BaselinesOK
<1>19. TablesFaithful' BY <1>3, <1>9 DEF TablesFaithful
<1>20. NothingMissing' BY <1>13 DEF NothingMissing
<1>21. BaselineOfThisRun' BY <1>3 DEF BaselineOfThisRun
<1> QED BY <1>15, <1>16, <1>17, <1>18, <1>19, <1>20, <1>21

LEMMA PassOverStep ==
  ASSUME HandlersInv, NEW id \in 1..Len(server),
         NEW entry \in Entries(server[id].name, server[id].items),
         PassOver(id, entry)
  PROVE  HandlersInv'
<1> DEFINE newer == Updated(server, id, entry)
<1> USE DEF HandlersInv, PassOver, containers, schema, entity_state
<1>1. TablesOK(tables) /\ Follow(tables, server) /\ server' = newer
  BY DEF RecordingOK
<1>2. /\ TablesOK(newer) /\ AllNamed(newer) /\ Len(newer) = Len(server)
      /\ \A i \in 1..Len(server) : newer[i].name = server[i].name
      /\ \A i \in 1..Len(server) : i # id => newer[i] = server[i]
      /\ Grow(server[id].items, newer[id].items)
  BY ServerUpdated
<1> HIDE DEF newer
<1>3. Held(newer) \subseteq Class \X Data BY <1>2, HeldTyped
<1>4. OthersTyped' BY <1>1, <1>3 DEF OthersTyped
<1>5. Follow(tables, newer)
  <2>1. Len(tables) = Len(server) /\ Len(server) = Len(newer)
    BY <1>1, <1>2 DEF Follow
  <2>2. ASSUME NEW i \in 1..Len(tables)
        PROVE  /\ tables[i].name = newer[i].name
               /\ PartOf(tables[i].items, newer[i].items)
    <3>1. tables[i].name = newer[i].name BY <1>1, <1>2, <2>1 DEF Follow
    <3>2. PartOf(tables[i].items, server[i].items) BY <1>1 DEF Follow
    <3>3. Grow(server[i].items, newer[i].items)
      BY <1>2, <2>1 DEF Grow
    <3>4. PartOf(tables[i].items, newer[i].items)
      BY <3>2, <3>3 DEF PartOf, Grow
    <3> QED BY <3>1, <3>4
  <2> QED BY <2>1, <2>2 DEF Follow
<1>6. RecordingOK' BY <1>1, <1>2, <1>5 DEF RecordingOK, ItemsHeld
<1>7. ModeOK' BY DEF ModeOK, SignedOn
<1>8. BaselinesOK' BY DEF BaselinesOK
<1>9. TablesFaithful' /\ NothingMissing' BY DEF TablesFaithful, NothingMissing
<1>10. BaselineOfThisRun' BY DEF BaselineOfThisRun
<1> QED BY <1>4, <1>6, <1>7, <1>8, <1>9, <1>10

LEMMA PacketEntitiesBeginStep == HandlersInv /\ PacketEntitiesBegin => HandlersInv'
<1> SUFFICES ASSUME HandlersInv, PacketEntitiesBegin PROVE HandlersInv' OBVIOUS
<1>1. entity_classes /\ serializers
  BY DEF HandlersInv, ModeOK, SignedOn, PacketEntitiesBegin
<1>2. mode' = "entities" /\ (lagging => played_on)
  BY <1>1 DEF HandlersInv, ModeOK, PacketEntitiesBegin
<1> QED BY <1>2, ModeStep DEF PacketEntitiesBegin, lag

LEMMA CreateEntityStep ==
  ASSUME HandlersInv, NEW e \in EntityIndex, NEW c \in Class, CreateEntity(e, c)
  PROVE  HandlersInv'
<1> DEFINE base == Baseline(c)
<1> USE DEF HandlersInv, CreateEntity, recording, containers, schema, lag
<1>1. entity_classes /\ serializers BY DEF ModeOK, SignedOn
<1>2. baseline_entities \in [Class -> Data \cup {NoData}] BY DEF OthersTyped
<1>3. RecordingOK' BY DEF RecordingOK, ItemsHeld
<1>4. BaselinesOK' /\ TablesFaithful' BY DEF BaselinesOK, TablesFaithful
<1>5. CASE base # NoData
  <2>1. <<c, base>> \in held
    BY <1>1, <1>5, BaselineHeld DEF Baseline, BaselineOfThisRun
  <2>2. base \in Data BY <2>1 DEF OthersTyped
  <2>3. /\ mode' = mode
        /\ baseline_entities' = [baseline_entities EXCEPT ![c] = base]
        /\ entities' = [x \in DOMAIN entities \cup {e} |->
              IF x = e THEN [class |-> c, base |-> base] ELSE entities[x]]
    BY <1>5
  <2> HIDE DEF base
  <2>4. [class |-> c, base |-> base] \in Entity BY <2>2 DEF Entity
  <2>5. DOMAIN entities' = DOMAIN entities \cup {e} BY <2>3
  <2>6. \A entity \in Range(entities') :
           entity = [class |-> c, base |-> base] \/ entity \in Range(entities)
    BY <2>3 DEF Range
  <2>7. OthersTyped' BY <1>2, <2>2, <2>3, <2>4, <2>5, <2>6 DEF OthersTyped
  <2>8. ModeOK' /\ NothingMissing' BY <2>3 DEF ModeOK, SignedOn, NothingMissing
  <2>9. BaselineOfThisRun'
    <3>1. ASSUME NEW x \in Class, baseline_entities'[x] # NoData
          PROVE  <<x, baseline_entities'[x]>> \in held'
      <4>1. CASE x = c BY <1>2, <2>1, <2>3, <4>1
      <4>2. CASE x # c BY <1>2, <2>3, <3>1, <4>2 DEF BaselineOfThisRun
      <4> QED BY <4>1, <4>2
    <3>2. ASSUME NEW entity \in Range(entities')
          PROVE  <<entity.class, entity.base>> \in held'
      <4>1. CASE entity = [class |-> c, base |-> base] BY <2>1, <4>1
      <4>2. CASE entity \in Range(entities) BY <4>2 DEF BaselineOfThisRun
      <4> QED BY <2>6, <3>2, <4>1, <4>2
    <3> QED BY <3>1, <3>2 DEF BaselineOfThisRun
  <2> QED BY <1>3, <1>4, <2>7, <2>8, <2>9
<1>6. CASE base = NoData
  <2>1. BaselineData(c) = NoData BY <1>6 DEF Baseline
  <2>2. lagging BY <1>1, <2>1, CreatableIsDefined
  <2>3. played_on BY <2>2 DEF ModeOK
  <2>4. mode' = "no_baseline" /\ UNCHANGED entity_state BY <1>6
  <2>5. OthersTyped' BY <2>4 DEF OthersTyped, entity_state
  <2>6. ModeOK' /\ NothingMissing'
    BY <2>3, <2>4 DEF ModeOK, SignedOn, NothingMissing
  <2>7. BaselineOfThisRun' BY <2>4 DEF BaselineOfThisRun, entity_state
  <2> QED BY <1>3, <1>4, <2>5, <2>6, <2>7
<1> QED BY <1>5, <1>6

LEMMA DeleteEntityStep ==
  ASSUME HandlersInv, NEW e \in EntityIndex, DeleteEntity(e)
  PROVE  HandlersInv'
<1> USE DEF HandlersInv, DeleteEntity, recording, containers, schema, lag
<1>1. Range(entities') \subseteq Range(entities)
      /\ DOMAIN entities' \subseteq DOMAIN entities
  BY DEF Restrict, Range
<1>2. OthersTyped' BY <1>1 DEF OthersTyped
<1>3. RecordingOK' BY DEF RecordingOK, ItemsHeld
<1>4. ModeOK' BY DEF ModeOK, SignedOn
<1>5. BaselinesOK' BY DEF BaselinesOK
<1>6. TablesFaithful' /\ NothingMissing' BY DEF TablesFaithful, NothingMissing
<1>7. BaselineOfThisRun' BY <1>1 DEF BaselineOfThisRun
<1> QED BY <1>2, <1>3, <1>4, <1>5, <1>6, <1>7

-----------------------------------------------------------------------------
(* The invariant, and the properties that it implies.                      *)

LEMMA HandlersNext == HandlersInv /\ [Next]_vars => HandlersInv'
<1> SUFFICES ASSUME HandlersInv, [Next]_vars PROVE HandlersInv' OBVIOUS
<1>1. CASE SendTables BY <1>1, SendTablesStep
<1>2. CASE ClassInfo BY <1>2, ClassInfoStep
<1>3. CASE PacketBegins BY <1>3, ModeStep DEF PacketBegins
<1>4. CASE PacketEnds BY <1>4, ModeStep DEF PacketEnds, lag
<1>5. ASSUME NEW with_packet \in BOOLEAN, FullPacket(with_packet)
      PROVE  HandlersInv'
  BY <1>5, FullPacketStep
<1>6. CASE Reset BY <1>6, ResetStep
<1>7. ASSUME NEW name \in TableName, NEW items \in FirstItems(name),
             CreateStringTable(name, items)
      PROVE  HandlersInv'
  BY <1>7, CreateStringTableStep
<1>8. ASSUME NEW id \in 1..Len(server),
             NEW entry \in Entries(server[id].name, server[id].items),
             UpdateStringTable(id, entry) \/ PassOver(id, entry)
      PROVE  HandlersInv'
  BY <1>8, UpdateStringTableStep, PassOverStep
<1>9. CASE PacketEntitiesBegin BY <1>9, PacketEntitiesBeginStep
<1>10. CASE PacketEntitiesEnd
  <2>1. lagging => played_on BY <1>10 DEF HandlersInv, ModeOK, PacketEntitiesEnd
  <2> QED BY <1>10, <2>1, ModeStep DEF PacketEntitiesEnd, lag
<1>11. ASSUME NEW e \in EntityIndex, DeleteEntity(e) PROVE HandlersInv'
  BY <1>11, DeleteEntityStep
<1>12. ASSUME NEW e \in EntityIndex, NEW c \in Class, CreateEntity(e, c)
       PROVE  HandlersInv'
  BY <1>12, CreateEntityStep
<1>13. CASE VisitorFails BY <1>13, ModeStep DEF VisitorFails, lag
<1>14. CASE UNCHANGED vars
  BY <1>14 DEF vars, recording, containers, schema, entity_state, lag, HandlersInv,
       OthersTyped, RecordingOK, ItemsHeld, ModeOK, SignedOn, BaselinesOK,
       TablesFaithful, NothingMissing, BaselineOfThisRun
<1> QED BY <1>1, <1>2, <1>3, <1>4, <1>5, <1>6, <1>7, <1>8, <1>9, <1>10, <1>11,
           <1>12, <1>13, <1>14 DEF Next

\* What the parser holds is inductive: well-formed tables that are part of the
\* recording's, baselines that are built from the tables alone, and entities
\* that the recording described since the last reset.
THEOREM HandlersInvariant == Spec => []HandlersInv
BY HandlersInit, HandlersNext, PTL DEF Spec

\* The variables keep their types, and tables do not grow beyond their bound.
THEOREM HandlersTyped == Spec => []TypeOK
BY HandlersInvariant, InvariantTyped, PTL

\* Unless updates were passed over, the parser's string tables are those that the
\* recording describes, also after a seek and a full packet.
THEOREM TablesAreServers == Spec => []TablesFaithful
<1>1. HandlersInv => TablesFaithful BY DEF HandlersInv
<1> QED BY <1>1, HandlersInvariant, PTL

\* Every class that the table of baselines has an item for has that item's data
\* for its baseline, whatever came first, however the memory is shared and whatever
\* was passed over.
THEOREM BaselinesAreTables == Spec => []BaselineCoherent
BY HandlersInvariant, InvariantCoherent, PTL

\* Classes, serializers and tables never miss where they are unwrapped unchecked; a
\* baseline or an item's string misses only after the parser has played on with
\* tables that lag behind.
THEOREM UncheckedIsThere == Spec => []NothingMissing
<1>1. HandlersInv => NothingMissing BY DEF HandlersInv
<1> QED BY <1>1, HandlersInvariant, PTL

\* Nothing that an entity or the cache of baselines holds stems from before the
\* last reset.
THEOREM EntitiesOfThisRun == Spec => []BaselineOfThisRun
<1>1. HandlersInv => BaselineOfThisRun BY DEF HandlersInv
<1> QED BY <1>1, HandlersInvariant, PTL
=============================================================================

----------------------------- MODULE MCPlayback -----------------------------
(***************************************************************************)
(* Small recordings for Playback: two sign-on commands, then five or six   *)
(* commands of one of four scripts, with every way of spacing their ticks  *)
(* that keeps the recording well-formed.  The last distances also say how  *)
(* it ends: properly, in one or two headers that cannot be read, or in a   *)
(* body that is cut off.                                                   *)
(***************************************************************************)
EXTENDS Playback, SequencesExt, TLC

CONSTANTS e1, e2, t1, t2, v1, v2

MCEntity == {e1, e2}
MCTable == {t1, t2}
MCValue == {v1, v2}
MCTargets == {-2, -1, 0, 1, 2, 3, 4, 5, 6, 7, 8, 9}

NoDelta == [s \in Slot |-> Keep]

Plain(kind) == [cmd |-> kind, delta |-> NoDelta, needs |-> {}, tps |-> 0]
Packet(writes, needs) ==
    [cmd   |-> "Packet",
     delta |-> [s \in Slot |-> IF s \in DOMAIN writes THEN writes[s] ELSE Keep],
     needs |-> needs,
     tps   |-> 0]
Write(slot, value) == [s \in {slot} |-> value]
Create(s, v) == Packet(Write(s, v), {})
Update(s, v) == Packet(Write(s, v), {s})
Delete(s) == Packet(Write(s, None), {s})
Full == Plain("FullPacket")

\* The tables t1 is created; t2 never is.  The tick rate is 60 per second.
SignOn == << [Create(t1, v1) EXCEPT !.tps = 60], Plain("SyncTick") >>

\* An entity appears, changes and goes between snapshots; the same tick may
\* hold a packet and a full packet, in either order.
Scripts == <<
    << Full, Create(e1, v1), Update(e1, v2), Full, Delete(e1), Update(t1, v2) >>,
    << Create(e1, v1), Full, Delete(e1), Create(e2, v1), Full, Update(e2, v2) >>,
    << Full, Create(e1, v1), Update(t1, v2), Full, Full, Delete(e1) >>,
    << Create(e1, v1), Plain("Other"), Update(t1, v2), Full, Update(e1, v2) >> >>

\* A recording is named by its script and the distances between its ticks; the
\* first command of a script has tick 0.
Distances == {0, 2}
Names ==
    { <<k, step>> : k \in DOMAIN Scripts,
                    step \in {f \in [1..6 -> Distances] : f[1] = 0} }

\* Ticks from the distances between commands; the server's state from the
\* deltas; the snapshots from the server's state.
After(w, c) == IF c.cmd = "Packet" THEN Merge(w, c.delta, Slot) @@ w ELSE w

Recording(script, step) ==
    LET ticks == FoldLeft(LAMBDA sums, i : Append(sums, Last(sums) + step[i]),
                          <<0>>, [i \in 1..Len(script) |-> i])
        body == [i \in 1..Len(script) |-> script[i] @@ [tick |-> ticks[i + 1]]]
        raw == [i \in 1..2 |-> SignOn[i] @@ [tick |-> -1]] \o body
        states == FoldLeft(LAMBDA ws, c : Append(ws, After(Last(ws), c)),
                           << EmptyWorld @@ EmptyWorld >>, raw)
        finish(i) == IF raw[i].cmd = "FullPacket"
                     THEN [raw[i] EXCEPT !.delta = Snapshot(states[i + 1]) @@ NoDelta]
                     ELSE raw[i]
    IN  [cmds    |-> [i \in 1..Len(raw) |-> finish(i)] \o <<>>,
         server  |-> (0 :> states[1]) @@ [i \in 1..Len(raw) |-> states[i + 1]],
         sync    |-> 2,
         tps     |-> 60,
         rest    |-> IF step[5] # step[6] THEN IF step[5] = 0 THEN 2 ELSE 1 ELSE 0,
         cut     |-> step[5] + step[6] = 0]

Candidate(name) == Recording(Scripts[name[1]], name[2])

Recordings ==
    LET names == {name \in Names : WellFormed(Candidate(name))}
    IN  [name \in names |-> Candidate(name)] @@ <<>>

MCDemos == Recordings
=============================================================================

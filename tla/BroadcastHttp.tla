--------------------------- MODULE BroadcastHttp ----------------------------
(***************************************************************************)
(* The client of a live broadcast (broadcasthttp.rs): the state machine    *)
(* behind next_packet, the relay that publishes delta frames, the passing  *)
(* of time, and a consumer that may drop the future next_packet returned.  *)
(*                                                                         *)
(* Instants are kept relative to now: due is fetch_after minus now, age    *)
(* the time since the last delta request was sent.  Both stop counting     *)
(* where the code can no longer tell the difference.                       *)
(***************************************************************************)
EXTENDS Integers, Sequences

CONSTANTS
    SignupFragment,             \* SyncResponse::signup_fragment
    SyncFragment,               \* SyncResponse::fragment
    LastFragment,               \* the last delta frame the relay publishes
    KeyframeInterval,           \* SyncResponse::keyframe_interval
    MAX_DELTAFRAME_RETRIES

ASSUME BroadcastAssumption ==
    /\ SignupFragment \in Nat
    /\ SyncFragment \in Nat
    /\ LastFragment \in Nat /\ LastFragment >= SyncFragment
    /\ KeyframeInterval \in Nat \ {0}
    /\ MAX_DELTAFRAME_RETRIES \in Nat

VARIABLES
    published,          \* the newest delta frame that the relay has
    over,               \* the match is over: the relay may remove its frames
    stream_state,       \* which variant of StreamState
    num_retries, catchup, due,      \* the fields of StreamState::Deltaframes
    stream_fragment,
    call,               \* where the call of next_packet stands
    response,           \* the relay's answer to the outstanding request
    age,                \* `start`: how long ago the last request was sent
    received, ended,    \* what next_packet returned so far
    misses,             \* history: answers 404 received for the current frame
    waited              \* history: time since the first request that was
                        \* answered so had been sent

relay == <<published, over>>
deltaframes == <<num_retries, catchup, due>>
history == <<misses, waited>>
vars == <<relay, stream_state, deltaframes, stream_fragment, call, response,
          age, received, ended, history>>

Intervals(n) == n * KeyframeInterval
Patience == Intervals(MAX_DELTAFRAME_RETRIES)

AtMost(bound, n) == IF n > bound THEN bound ELSE n
AtLeast(bound, n) == IF n < bound THEN bound ELSE n

Answers == {"ok", "not_found", "error"}

TypeOK ==
    /\ published \in Int /\ published <= LastFragment
    /\ over \in BOOLEAN
    /\ stream_state \in {"Start", "Fullframe", "Deltaframes", "Stop"}
    /\ num_retries \in 0..MAX_DELTAFRAME_RETRIES
    /\ catchup \in BOOLEAN
    /\ due \in -1..KeyframeInterval
    /\ stream_fragment \in Nat
    /\ call \in {"idle", "looping", "sleeping", "fetching"}
    /\ response \in Answers \cup {"pending"}
    /\ age \in 0..KeyframeInterval + 1
    /\ received \in Seq([kind : {"start", "full", "delta"}, fragment : Nat])
    /\ ended \in {"no", "none", "error"}
    /\ misses \in 0..MAX_DELTAFRAME_RETRIES + 1
    /\ waited \in 0..Patience

Init ==
    /\ published \in (SyncFragment - 1)..LastFragment
    /\ over = FALSE
    /\ stream_state = "Start"
    /\ num_retries = 0 /\ catchup = FALSE /\ due = 0
    /\ stream_fragment = SyncFragment
    /\ call = "idle" /\ response = "pending" /\ age = 0
    /\ received = <<>> /\ ended = "no"
    /\ misses = 0 /\ waited = 0

-----------------------------------------------------------------------------
(* The relay, and time.                                                    *)

Publish ==
    /\ ~over /\ published < LastFragment
    /\ published' = published + 1
    /\ UNCHANGED <<over, stream_state, deltaframes, stream_fragment, call,
                   response, age, received, ended, history>>

MatchEnds ==
    /\ over' = TRUE
    /\ UNCHANGED <<published, stream_state, deltaframes, stream_fragment, call,
                   response, age, received, ended, history>>

Available == stream_state = "Deltaframes" => stream_fragment <= published
Missing == stream_state = "Deltaframes" => stream_fragment > published \/ over

\* The answer is made when the request arrives and may be stale when received.
Respond ==
    /\ call = "fetching" /\ response = "pending"
    /\ response' \in Answers
    /\ response' = "ok" => Available
    /\ response' = "not_found" => Missing
    /\ UNCHANGED <<relay, stream_state, deltaframes, stream_fragment, call,
                   age, received, ended, history>>

Tick ==
    /\ due' = AtLeast(-1, due - 1)
    /\ age' = AtMost(KeyframeInterval + 1, age + 1)
    /\ waited' = IF misses = 0 THEN 0 ELSE AtMost(Patience, waited + 1)
    /\ UNCHANGED <<relay, stream_state, num_retries, catchup, stream_fragment,
                   call, response, received, ended, misses>>

-----------------------------------------------------------------------------
(* Calling next_packet, and the loop of handle_deltaframes.                *)

NextPacket ==
    /\ call = "idle"
    /\ \/ /\ stream_state = "Stop"       \* returns None at once
          /\ UNCHANGED <<call, age>>
       \/ /\ stream_state \in {"Start", "Fullframe"}
          /\ call' = "fetching" /\ age' = 0
       \/ /\ stream_state = "Deltaframes"
          /\ call' = "looping"
          /\ UNCHANGED age
    /\ UNCHANGED <<relay, stream_state, deltaframes, stream_fragment, response,
                   received, ended, history>>

\* fetch_after.elapsed() > Duration::ZERO
Overdue == due < 0

\* Mutant of CatchUp: the flag is stored as it was.
CatchUpNever ==
    /\ call = "looping" /\ ~catchup /\ Overdue
    /\ UNCHANGED vars

CatchUp ==
    /\ call = "looping" /\ ~catchup /\ Overdue
    /\ catchup' = TRUE
    /\ UNCHANGED <<relay, stream_state, num_retries, due, stream_fragment, call,
                   response, age, received, ended, history>>

Sleep ==
    /\ call = "looping" /\ ~catchup /\ ~Overdue
    /\ call' = "sleeping"
    /\ UNCHANGED <<relay, stream_state, deltaframes, stream_fragment, response,
                   age, received, ended, history>>

FetchDelta ==
    /\ \/ call = "looping" /\ catchup
       \/ call = "sleeping" /\ due <= 0
    /\ call' = "fetching" /\ age' = 0
    /\ UNCHANGED <<relay, stream_state, deltaframes, stream_fragment, response,
                   received, ended, history>>

\* The consumer drops the future while it is pending.
DropFuture ==
    /\ call \in {"sleeping", "fetching"}
    /\ call' = "idle" /\ response' = "pending"
    /\ UNCHANGED <<relay, stream_state, deltaframes, stream_fragment, age,
                   received, ended, history>>

-----------------------------------------------------------------------------
(* The answer arrives.                                                     *)

Receives(answer) == call = "fetching" /\ response = answer

Return(kind, fragment) ==
    /\ call' = "idle" /\ response' = "pending"
    /\ received' = Append(received, [kind |-> kind, fragment |-> fragment])
    /\ UNCHANGED <<relay, age, ended>>

ReceiveStart ==
    /\ Receives("ok") /\ stream_state = "Start"
    /\ stream_state' = "Fullframe"
    /\ Return("start", SignupFragment)
    /\ UNCHANGED <<deltaframes, stream_fragment, history>>

\* Mutant of ReceiveFull: the delta frame of the same fragment is left out.
ReceiveFullMovesOn ==
    /\ Receives("ok") /\ stream_state = "Fullframe"
    /\ stream_state' = "Deltaframes"
    /\ num_retries' = 0 /\ due' = 0 /\ catchup' = TRUE
    /\ Return("full", stream_fragment)
    /\ stream_fragment' = stream_fragment + 1
    /\ UNCHANGED history

ReceiveFull ==
    /\ Receives("ok") /\ stream_state = "Fullframe"
    /\ stream_state' = "Deltaframes"
    /\ num_retries' = 0 /\ due' = 0 /\ catchup' = TRUE
    /\ Return("full", stream_fragment)
    /\ UNCHANGED <<stream_fragment, history>>

\* Mutant of NextDue: the retry is due at `start`.
DueAtStart == AtLeast(-1, 0 - age)

\* start + keyframe_interval, seen from now.
NextDue == AtLeast(-1, KeyframeInterval - age)

\* Mutant of ReceiveDelta: the retries of earlier frames count.
ReceiveDeltaKeepsRetries ==
    /\ Receives("ok") /\ stream_state = "Deltaframes"
    /\ stream_fragment' = stream_fragment + 1
    /\ due' = NextDue
    /\ Return("delta", stream_fragment)
    /\ misses' = 0 /\ waited' = 0
    /\ UNCHANGED <<stream_state, num_retries, catchup>>

ReceiveDelta ==
    /\ Receives("ok") /\ stream_state = "Deltaframes"
    /\ stream_fragment' = stream_fragment + 1
    /\ num_retries' = 0 /\ due' = NextDue
    /\ Return("delta", stream_fragment)
    /\ misses' = 0 /\ waited' = 0
    /\ UNCHANGED <<stream_state, catchup>>

\* Mutant of Exhausted: one retry too many.
ExhaustedLate == num_retries > MAX_DELTAFRAME_RETRIES

Exhausted == num_retries >= MAX_DELTAFRAME_RETRIES

CountMiss ==
    /\ misses' = misses + 1
    /\ waited' = IF misses = 0 THEN AtMost(Patience, age) ELSE waited

\* Mutant of Retry: retries are not counted.
RetryForever ==
    /\ Receives("not_found") /\ stream_state = "Deltaframes" /\ ~Exhausted
    /\ due' = NextDue
    /\ catchup' = FALSE
    /\ call' = "looping" /\ response' = "pending"
    /\ UNCHANGED <<relay, stream_state, num_retries, stream_fragment, age,
                   received, ended, history>>

Retry ==
    /\ Receives("not_found") /\ stream_state = "Deltaframes" /\ ~Exhausted
    /\ num_retries' = num_retries + 1
    /\ due' = NextDue
    /\ catchup' = FALSE
    /\ call' = "looping" /\ response' = "pending"
    /\ CountMiss
    /\ UNCHANGED <<relay, stream_state, stream_fragment, age, received, ended>>

Stop(how) ==
    /\ stream_state' = "Stop"
    /\ call' = "idle" /\ response' = "pending"
    /\ ended' = how
    /\ UNCHANGED <<relay, deltaframes, stream_fragment, age, received>>

GiveUp ==
    /\ Receives("not_found") /\ stream_state = "Deltaframes" /\ Exhausted
    /\ Stop("none")
    /\ CountMiss

\* The signup fragment and the full frame are asked for only once.
NoBeginning ==
    /\ Receives("not_found") /\ stream_state # "Deltaframes"
    /\ Stop("none")
    /\ UNCHANGED history

Fail ==
    /\ Receives("error")
    /\ Stop("error")
    /\ UNCHANGED history

Receive ==
    \/ ReceiveStart \/ ReceiveFull \/ ReceiveDelta
    \/ Retry \/ GiveUp \/ NoBeginning \/ Fail

Run == CatchUp \/ Sleep \/ FetchDelta

Next ==
    \/ Publish \/ MatchEnds \/ Respond \/ Tick
    \/ NextPacket \/ Run \/ DropFuture
    \/ Receive

Spec == Init /\ [][Next]_vars

\* Time passes, the executor polls what is ready, and the consumer calls again;
\* requests are answered (a timeout is an answer, too), and the consumer does
\* not drop every call just before its answer arrives.
FairSpec ==
    /\ Spec
    /\ WF_vars(Tick) /\ WF_vars(NextPacket) /\ WF_vars(Run)
    /\ SF_vars(Respond) /\ SF_vars(Receive)

-----------------------------------------------------------------------------
(* What is promised.                                                       *)

\* next_packet returns the packets of the broadcast in order, none twice and
\* none left out, whatever is retried or dropped; after None or an error it
\* returns nothing more.
Stream == INSTANCE PacketStream WITH Signup <- SignupFragment, First <- SyncFragment
ImplementsPacketStream == Stream!Spec

\* Whenever a delta frame is asked for after n answers 404, n keyframe intervals
\* have passed since the first request that was answered so: catching up and slow
\* answers do not shorten the wait, nor do calls that were dropped while they
\* slept.  A request that was dropped itself is not counted; it is sent again at
\* once, because fetch_after is stored only with an answer.
RetriesPaced ==
    [][FetchDelta /\ misses > 0 => waited >= Intervals(misses)]_vars

\* The client gives up only after MAX_DELTAFRAME_RETRIES retries of one and
\* the same frame, and not before as many keyframe intervals have passed since
\* the first request that was answered 404 had been sent.
GaveUp == ended = "none" /\ Len(received) >= 2
GivesUpPatiently ==
    GaveUp => misses = MAX_DELTAFRAME_RETRIES + 1 /\ waited >= Patience

\* A relay that answers, never ends the match, and has published a frame by the
\* time the client's patience for it is over.
Answering ==
    /\ ~over /\ response # "error"
    /\ stream_state # "Deltaframes" => response # "not_found"
Timely ==
    stream_fragment <= LastFragment /\ waited >= Patience => stream_fragment <= published

\* From such a relay the client gets every delta frame, late ones and those that
\* were published while an answer 404 was on its way included.
KeepsUp == [](Answering /\ Timely) => <>(stream_fragment > LastFragment)

\* When nothing more is published the consumer is told the end.
BroadcastEnds == <>(ended # "no")

\* broadcastfile.rs:14-21 documents a recording as start, then full and delta
\* frames of the signup fragment; the download tool writes what it receives.
RecordedAsDocumented ==
    Len(received) >= 2 =>
        received[2] = [kind |-> "full", fragment |-> SignupFragment]
=============================================================================

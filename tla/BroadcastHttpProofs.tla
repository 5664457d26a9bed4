------------------------ MODULE BroadcastHttpProofs -------------------------
(***************************************************************************)
(* Proofs about BroadcastHttp, for any fragments, interval and number of   *)
(* retries: it is well-typed, it implements PacketStream, its retries are  *)
(* paced and it gives up patiently.                                        *)
(*                                                                         *)
(* Two invariants carry the proofs.  Progress ties what was returned to    *)
(* the state of the client, which makes every step a step of PacketStream. *)
(* Pacing ties the time that has been waited to the number of retries: a   *)
(* request that is due in d was preceded by that many intervals, less d.   *)
(***************************************************************************)
EXTENDS BroadcastHttp, TLAPS

(* What is known of the multiples of the interval; Intervals is never      *)
(* expanded elsewhere.                                                     *)

\* Whole intervals add up and stay below Patience for any number of retries
\* that the client may make.
LEMMA IntervalsAdd ==
    /\ Intervals(0) = 0
    /\ \A n \in Nat : Intervals(n) \in Nat /\ Intervals(n + 1) = Intervals(n) + KeyframeInterval
    /\ \A n \in 0..MAX_DELTAFRAME_RETRIES : Intervals(n) <= Patience
<1>1. Intervals(0) = 0
  BY BroadcastAssumption DEF Intervals
<1>2. ASSUME NEW n \in Nat
      PROVE  Intervals(n) \in Nat /\ Intervals(n + 1) = Intervals(n) + KeyframeInterval
  BY BroadcastAssumption DEF Intervals
<1>3. ASSUME NEW n \in 0..MAX_DELTAFRAME_RETRIES
      PROVE  Intervals(n) <= Patience
  <2> DEFINE rest == MAX_DELTAFRAME_RETRIES - n
  <2>1. rest \in Nat
    BY BroadcastAssumption
  <2>2. rest * KeyframeInterval \in Nat
    BY <2>1, BroadcastAssumption
  <2>3. MAX_DELTAFRAME_RETRIES * KeyframeInterval
          = n * KeyframeInterval + rest * KeyframeInterval
    BY BroadcastAssumption
  <2> QED
    BY <2>2, <2>3, BroadcastAssumption DEF Intervals, Patience
<1> QED
  BY <1>1, <1>2, <1>3

\* The patience is a length of time.
LEMMA PatienceTyped == Patience \in Nat
  BY IntervalsAdd, BroadcastAssumption DEF Patience

-----------------------------------------------------------------------------
(* The inductive invariant.                                                *)

\* How far the client is, and how much it has returned, go together.
Progress ==
    /\ stream_state = "Start" => received = <<>>
    /\ stream_state = "Fullframe" => Len(received) = 1
    /\ stream_state \in {"Start", "Fullframe"} => stream_fragment = SyncFragment
    /\ stream_state = "Deltaframes" =>
          /\ stream_fragment >= SyncFragment
          /\ Len(received) = 2 + (stream_fragment - SyncFragment)
    /\ ended = "no" <=> stream_state # "Stop"
    /\ stream_state = "Stop" => call = "idle"
    /\ call \in {"looping", "sleeping"} => stream_state = "Deltaframes"

\* How long it has waited, and how often it has asked in vain, go together.
Pacing ==
    /\ stream_state \in {"Start", "Fullframe"} => misses = 0
    /\ stream_state = "Deltaframes" => misses = num_retries
    /\ stream_state = "Deltaframes" /\ misses > 0 =>
          /\ catchup => due < 0
          /\ waited >= Intervals(misses) - AtLeast(0, due)
          /\ call = "fetching" =>
                /\ due <= 0
                /\ waited >= AtMost(Patience, Intervals(misses) + AtMost(KeyframeInterval, age))

IInv == TypeOK /\ Progress /\ Pacing /\ GivesUpPatiently

-----------------------------------------------------------------------------
(* Typing.                                                                 *)

Packets == [kind : {"start", "full", "delta"}, fragment : Nat]

\* The first state satisfies the invariant.
LEMMA InitInv == Init => IInv
<1> SUFFICES ASSUME Init PROVE IInv
  OBVIOUS
<1>1. received \in Seq(Packets) /\ Len(received) = 0
  BY DEF Init
<1>2. TypeOK
  <2>1. published \in Int /\ published <= LastFragment /\ stream_fragment \in Nat
    BY BroadcastAssumption DEF Init
  <2>2. /\ num_retries \in 0..MAX_DELTAFRAME_RETRIES
        /\ misses \in 0..MAX_DELTAFRAME_RETRIES + 1
        /\ due \in -1..KeyframeInterval
        /\ age \in 0..KeyframeInterval + 1
        /\ waited \in 0..Patience
    BY PatienceTyped, BroadcastAssumption DEF Init
  <2> QED
    BY <1>1, <2>1, <2>2 DEF Init, TypeOK, Packets
<1>3. Progress
  BY DEF Init, Progress
<1>4. Pacing /\ GivesUpPatiently
  BY DEF Init, Pacing, GivesUpPatiently, GaveUp
<1> QED
  BY <1>2, <1>3, <1>4 DEF IInv

\* The packet that a step returns is a packet.
LEMMA ReturnTyped ==
    ASSUME TypeOK, NEW kind \in {"start", "full", "delta"}, NEW fragment \in Nat,
           Return(kind, fragment)
    PROVE  /\ received' \in Seq(Packets)
           /\ Len(received') = Len(received) + 1
  BY DEF TypeOK, Return, Packets

\* What is due lies at most one interval ahead.
LEMMA NextDueTyped == ASSUME TypeOK PROVE NextDue \in -1..KeyframeInterval
  BY BroadcastAssumption DEF TypeOK, NextDue, AtLeast

\* Every step keeps the variables in their types.
LEMMA StepTyped == IInv /\ [Next]_vars => TypeOK'
<1> SUFFICES ASSUME IInv, [Next]_vars PROVE TypeOK'
  OBVIOUS
<1> USE BroadcastAssumption, PatienceTyped DEF IInv
<1>1. CASE UNCHANGED vars
  BY <1>1 DEF vars, relay, deltaframes, history, TypeOK
<1>2. CASE Publish \/ MatchEnds
  <2>1. CASE Publish
    BY <1>2, <2>1 DEF Publish, deltaframes, history, TypeOK
  <2>2. CASE MatchEnds
    BY <1>2, <2>2 DEF MatchEnds, deltaframes, history, TypeOK
  <2> QED
    BY <1>2, <2>1, <2>2
<1>3. CASE Respond
  BY <1>3 DEF Respond, relay, deltaframes, history, TypeOK
<1>4. CASE Tick
  BY <1>4 DEF Tick, relay, TypeOK, AtMost, AtLeast
<1>5. CASE NextPacket
  BY <1>5 DEF NextPacket, relay, deltaframes, history, TypeOK
<1>6. CASE Run
  <2>1. CASE CatchUp
    BY <2>1 DEF CatchUp, relay, history, TypeOK
  <2>2. CASE Sleep
    BY <2>2 DEF Sleep, relay, deltaframes, history, TypeOK
  <2>3. CASE FetchDelta
    BY <2>3 DEF FetchDelta, relay, deltaframes, history, TypeOK
  <2> QED
    BY <1>6, <2>1, <2>2, <2>3 DEF Run
<1>7. CASE DropFuture
  BY <1>7 DEF DropFuture, relay, deltaframes, history, TypeOK
<1>8. CASE ReceiveStart
  <2>1. received' \in Seq(Packets)
    BY <1>8, ReturnTyped DEF ReceiveStart
  <2> QED
    BY <1>8, <2>1 DEF ReceiveStart, Return, relay, deltaframes, history, TypeOK, Packets
<1>9. CASE ReceiveFull
  <2>1. received' \in Seq(Packets)
    BY <1>9, ReturnTyped DEF ReceiveFull, TypeOK
  <2> QED
    BY <1>9, <2>1 DEF ReceiveFull, Return, relay, history, TypeOK, Packets
<1>10. CASE ReceiveDelta
  <2>1. received' \in Seq(Packets)
    BY <1>10, ReturnTyped DEF ReceiveDelta, TypeOK
  <2> QED
    BY <1>10, <2>1, NextDueTyped DEF ReceiveDelta, Return, relay, TypeOK, Packets
<1>11. CASE Retry
  <2>1. num_retries' \in 0..MAX_DELTAFRAME_RETRIES
    BY <1>11 DEF Retry, Exhausted, TypeOK
  <2>2. /\ misses' \in 0..MAX_DELTAFRAME_RETRIES + 1
        /\ waited' \in 0..Patience
    BY <1>11 DEF Retry, CountMiss, AtMost, Pacing, TypeOK
  <2> QED
    BY <1>11, <2>1, <2>2, NextDueTyped DEF Retry, relay, TypeOK
<1>12. CASE GiveUp
  BY <1>12 DEF GiveUp, Receives, Stop, CountMiss, AtMost, Pacing, relay, deltaframes, TypeOK
<1>13. CASE NoBeginning \/ Fail
  BY <1>13 DEF NoBeginning, Fail, Receives, Stop, relay, deltaframes, history, TypeOK
<1> QED
  BY <1>1, <1>2, <1>3, <1>4, <1>5, <1>6, <1>7, <1>8, <1>9, <1>10, <1>11, <1>12, <1>13
     DEF Next, Receive

-----------------------------------------------------------------------------
(* The invariant is preserved.                                             *)

\* Whoever does not hear from the relay leaves the number of packets alone.
LEMMA ProgressStep == IInv /\ [Next]_vars => Progress'
<1> SUFFICES ASSUME IInv, [Next]_vars PROVE Progress'
  OBVIOUS
<1> USE DEF IInv, Progress
<1>1. CASE UNCHANGED vars
  BY <1>1 DEF vars
<1>2. CASE Publish \/ MatchEnds \/ Respond \/ Tick
  BY <1>2 DEF Publish, MatchEnds, Respond, Tick
<1>3. CASE NextPacket
  BY <1>3 DEF NextPacket
<1>4. CASE Run \/ DropFuture
  BY <1>4 DEF Run, CatchUp, Sleep, FetchDelta, DropFuture
<1>5. CASE ReceiveStart
  BY <1>5, ReturnTyped, BroadcastAssumption DEF ReceiveStart, Return
<1>6. CASE ReceiveFull
  <2>1. Len(received') = Len(received) + 1
    BY <1>6, ReturnTyped DEF ReceiveFull, TypeOK
  <2>2. stream_fragment = SyncFragment /\ Len(received) = 1
    BY <1>6 DEF ReceiveFull
  <2>3. stream_fragment' = SyncFragment
    BY <1>6, <2>2 DEF ReceiveFull
  <2>4. Len(received') = 2 + (stream_fragment' - SyncFragment)
    BY <2>1, <2>2, <2>3, BroadcastAssumption
  <2> QED
    BY <1>6, <2>3, <2>4, BroadcastAssumption DEF ReceiveFull, Return
<1>7. CASE ReceiveDelta
  BY <1>7, ReturnTyped, BroadcastAssumption DEF ReceiveDelta, Return, TypeOK
<1>8. CASE Retry
  BY <1>8 DEF Retry
<1>9. CASE GiveUp \/ NoBeginning \/ Fail
  BY <1>9 DEF GiveUp, NoBeginning, Fail, Receives, Stop
<1> QED
  BY <1>1, <1>2, <1>3, <1>4, <1>5, <1>6, <1>7, <1>8, <1>9 DEF Next, Receive

\* Every interval of patience is spent between two requests.
LEMMA PacingStep == IInv /\ [Next]_vars => Pacing'
<1> SUFFICES ASSUME IInv, [Next]_vars PROVE Pacing'
  OBVIOUS
<1> USE DEF IInv, Pacing
<1>0. /\ stream_state = "Deltaframes" =>
            Intervals(misses) \in Nat /\ Intervals(misses) <= Patience
      /\ stream_state = "Deltaframes" /\ misses + 1 <= MAX_DELTAFRAME_RETRIES =>
            /\ Intervals(misses + 1) = Intervals(misses) + KeyframeInterval
            /\ Intervals(misses + 1) \in Nat
            /\ Intervals(misses + 1) <= Patience
  <2>1. misses \in Nat
    BY BroadcastAssumption DEF TypeOK
  <2>2. stream_state = "Deltaframes" => misses \in 0..MAX_DELTAFRAME_RETRIES
    BY DEF TypeOK
  <2>3. misses + 1 <= MAX_DELTAFRAME_RETRIES => misses + 1 \in 0..MAX_DELTAFRAME_RETRIES
    BY <2>1, BroadcastAssumption
  <2>4. misses + 1 \in Nat
    BY <2>1
  <2> HIDE DEF Pacing, IInv
  <2> QED
    BY <2>1, <2>2, <2>3, <2>4, IntervalsAdd
<1>1. CASE UNCHANGED vars
  BY <1>1 DEF vars, deltaframes, history
<1>2. CASE Publish \/ MatchEnds \/ Respond
  BY <1>2 DEF Publish, MatchEnds, Respond, deltaframes, history
<1>3. CASE Tick
  BY <1>0, <1>3, PatienceTyped, BroadcastAssumption
     DEF Tick, TypeOK, AtMost, AtLeast
<1>4. CASE NextPacket
  BY <1>4 DEF NextPacket, Progress, deltaframes, history
<1>5. CASE Run
  <2>1. CASE CatchUp
    BY <2>1 DEF CatchUp, Overdue, history
  <2>2. CASE Sleep
    BY <2>2 DEF Sleep, deltaframes, history
  <2>3. CASE FetchDelta
    BY <1>0, <2>3, PatienceTyped, BroadcastAssumption
       DEF FetchDelta, TypeOK, deltaframes, history, AtMost, AtLeast
  <2> QED
    BY <1>5, <2>1, <2>2, <2>3 DEF Run
<1>6. CASE DropFuture
  BY <1>6 DEF DropFuture, deltaframes, history
<1>7. CASE ReceiveStart
  BY <1>7 DEF ReceiveStart, deltaframes, history
<1>8. CASE ReceiveFull
  BY <1>8 DEF ReceiveFull, history
<1>9. CASE ReceiveDelta
  BY <1>9 DEF ReceiveDelta
<1>10. CASE Retry
  <2>1. misses' = misses + 1 /\ num_retries' = misses'
    BY <1>10 DEF Retry, CountMiss
  <2>2. misses + 1 <= MAX_DELTAFRAME_RETRIES
    BY <1>10, BroadcastAssumption DEF Retry, Exhausted, TypeOK
  <2>3. waited' >= Intervals(misses + 1) - AtLeast(0, due')
    <3>1. CASE misses = 0
      <4>1. Intervals(misses) = 0
        BY <3>1, IntervalsAdd
      <4> QED
        BY <1>0, <1>10, <2>2, <3>1, <4>1, PatienceTyped, BroadcastAssumption
         DEF Retry, CountMiss, NextDue, AtMost, AtLeast, TypeOK
    <3>2. CASE misses # 0
      BY <1>0, <1>10, <2>2, <3>2, PatienceTyped, BroadcastAssumption
         DEF Retry, Receives, CountMiss, NextDue, AtMost, AtLeast, TypeOK
    <3> QED
      BY <3>1, <3>2
  <2> QED
    BY <1>10, <2>1, <2>3 DEF Retry
<1>11. CASE GiveUp \/ NoBeginning \/ Fail
  BY <1>11 DEF GiveUp, NoBeginning, Fail, Stop
<1> QED
  BY <1>1, <1>2, <1>3, <1>4, <1>5, <1>6, <1>7, <1>8, <1>9, <1>10, <1>11
     DEF Next, Receive

\* Whoever sends a request again has waited for it.
LEMMA PacedStep ==
    ASSUME IInv, FetchDelta, misses > 0
    PROVE  waited >= Intervals(misses)
<1>1. stream_state = "Deltaframes" /\ due <= 0
  BY BroadcastAssumption DEF IInv, Progress, Pacing, FetchDelta, TypeOK
<1>2. waited >= Intervals(misses) - AtLeast(0, due) /\ AtLeast(0, due) = 0
  BY <1>1, BroadcastAssumption DEF IInv, Pacing, AtLeast, TypeOK
<1>3. Intervals(misses) \in Nat
  <2>1. misses \in Nat
    BY BroadcastAssumption DEF IInv, TypeOK
  <2> QED
    BY <2>1, IntervalsAdd
<1> QED
  BY <1>2, <1>3

\* Whoever has not got the full frame has one packet at most.
LEMMA UntilFullframe ==
    ASSUME Progress, stream_state \in {"Start", "Fullframe"}
    PROVE  Len(received) < 2
<1>1. CASE stream_state = "Start"
  <2>1. received = <<>>
    BY <1>1 DEF Progress
  <2> QED
    BY <2>1
<1>2. CASE stream_state = "Fullframe"
  <2>1. Len(received) = 1
    BY <1>2 DEF Progress
  <2> QED
    BY <2>1
<1> QED
  BY <1>1, <1>2

\* Giving up is the answer to the last of the retries.
LEMMA PatientStep == IInv /\ [Next]_vars => GivesUpPatiently'
<1> SUFFICES ASSUME IInv, [Next]_vars, GaveUp' PROVE GivesUpPatiently'
  BY DEF GivesUpPatiently
<1> USE DEF IInv, GivesUpPatiently, GaveUp
<1>1. CASE UNCHANGED <<history, ended, received>>
  BY <1>1 DEF history
<1>2. CASE Tick
  BY <1>2, PatienceTyped, BroadcastAssumption DEF Tick, AtMost, TypeOK
<1>3. CASE ReceiveStart \/ ReceiveFull \/ ReceiveDelta \/ Retry
  BY <1>3 DEF ReceiveStart, ReceiveFull, ReceiveDelta, Retry, Return, Progress
<1>4. CASE GiveUp
  <2>1. misses = MAX_DELTAFRAME_RETRIES /\ misses' = MAX_DELTAFRAME_RETRIES + 1
    BY <1>4, BroadcastAssumption DEF GiveUp, Exhausted, CountMiss, Pacing, TypeOK
  <2>2. stream_state = "Deltaframes" /\ call = "fetching"
    BY <1>4 DEF GiveUp, Receives
  <2>3. CASE misses = 0
    <3>1. Patience = 0 /\ waited' = 0
      <4>1. Patience = 0
        BY <2>1, <2>3, IntervalsAdd DEF Patience
      <4> QED
        BY <1>4, <2>3, <4>1, BroadcastAssumption DEF GiveUp, CountMiss, AtMost, TypeOK
    <3> QED
      BY <2>1, <3>1
  <2>4. CASE misses # 0
    <3>1. misses > 0 /\ Intervals(misses) = Patience
      BY <2>1, <2>4, BroadcastAssumption DEF Patience, TypeOK
    <3>2. waited >= Patience
      BY <2>2, <3>1, PatienceTyped, BroadcastAssumption DEF Pacing, AtMost, TypeOK
    <3>3. waited' = waited
      BY <1>4, <2>4 DEF GiveUp, CountMiss
    <3> QED
      BY <2>1, <3>2, <3>3
  <2> QED
    BY <2>3, <2>4
<1>5. CASE NoBeginning
  <2>1. stream_state \in {"Start", "Fullframe"} /\ received' = received
    BY <1>5 DEF NoBeginning, Receives, Stop, TypeOK, Progress
  <2>2. Len(received) < 2
    BY <2>1, UntilFullframe
  <2> QED
    BY <2>1, <2>2
<1>6. CASE Fail
  BY <1>6 DEF Fail, Stop
<1> QED
  BY <1>1, <1>2, <1>3, <1>4, <1>5, <1>6
     DEF Next, vars, Receive, Run, Publish, MatchEnds, Respond, NextPacket, CatchUp, Sleep,
         FetchDelta, DropFuture

\* The invariant holds in every reachable state.
THEOREM BroadcastInvariant == Spec => []IInv
<1>1. IInv /\ [Next]_vars => IInv'
  BY StepTyped, ProgressStep, PacingStep, PatientStep DEF IInv
<1> QED
  BY InitInv, <1>1, PTL DEF Spec

-----------------------------------------------------------------------------
(* What follows.                                                           *)

\* The client's fields stay in their ranges; in particular the retries are
\* bounded by MAX_DELTAFRAME_RETRIES.
THEOREM BroadcastTypeOK == Spec => []TypeOK
<1>1. IInv => TypeOK
  BY DEF IInv
<1> QED
  BY BroadcastInvariant, <1>1, PTL

\* A delta frame that was answered 404 n times is asked for again only when n
\* intervals have passed since the first of these requests, whatever calls the
\* consumer drops and however late the answers come.
THEOREM BroadcastRetriesPaced == Spec => RetriesPaced
<1>1. IInv /\ [Next]_vars => [FetchDelta /\ misses > 0 => waited >= Intervals(misses)]_vars
  BY PacedStep
<1> QED
  BY BroadcastInvariant, <1>1, PTL DEF Spec, RetriesPaced

\* The end of the stream is only told after all retries and all the patience.
THEOREM BroadcastGivesUpPatiently == Spec => []GivesUpPatiently
<1>1. IInv => GivesUpPatiently
  BY DEF IInv
<1> QED
  BY BroadcastInvariant, <1>1, PTL

\* Both begin with nothing returned.
LEMMA InitRefines == Init => Stream!Init
  BY DEF Init, Stream!Init

\* Whatever next_packet returns is the next packet of the broadcast.
LEMMA StepRefines ==
    IInv /\ [Next]_vars => [Stream!Next]_<<received, ended>>
<1> SUFFICES ASSUME IInv, [Next]_vars PROVE [Stream!Next]_<<received, ended>>
  OBVIOUS
<1> USE DEF IInv
<1>1. CASE UNCHANGED <<received, ended>>
  BY <1>1
<1>2. CASE ReceiveStart
  <2>1. received = <<>> /\ Len(received) = 0 /\ ended = "no" /\ ended' = ended
    BY <1>2 DEF ReceiveStart, Return, Progress
  <2>2. Stream!Expected(1) = [kind |-> "start", fragment |-> SignupFragment]
    BY DEF Stream!Expected
  <2>3. received' = Append(received, Stream!Expected(Len(received) + 1))
    BY <1>2, <2>1, <2>2 DEF ReceiveStart, Return
  <2> QED
    BY <2>1, <2>3 DEF Stream!Next, Stream!Deliver
<1>3. CASE ReceiveFull
  <2>1. Len(received) = 1 /\ stream_fragment = SyncFragment /\ ended = "no" /\ ended' = ended
    BY <1>3 DEF ReceiveFull, Return, Progress
  <2>2. Stream!Expected(2) = [kind |-> "full", fragment |-> SyncFragment]
    BY DEF Stream!Expected
  <2>3. received' = Append(received, Stream!Expected(Len(received) + 1))
    BY <1>3, <2>1, <2>2 DEF ReceiveFull, Return
  <2> QED
    BY <2>1, <2>3 DEF Stream!Next, Stream!Deliver
<1>4. CASE ReceiveDelta
  <2> DEFINE n == Len(received) + 1
  <2>1. /\ n \in Int /\ n # 1 /\ n # 2
        /\ stream_fragment = SyncFragment + (n - 3)
        /\ ended = "no" /\ ended' = ended
    BY <1>4, BroadcastAssumption DEF ReceiveDelta, Return, Progress, TypeOK
  <2>2. Stream!Expected(n) = [kind |-> "delta", fragment |-> stream_fragment]
    BY <2>1 DEF Stream!Expected
  <2>3. received' = Append(received, Stream!Expected(n))
    BY <1>4, <2>2 DEF ReceiveDelta, Return
  <2> QED
    BY <2>1, <2>3 DEF Stream!Next, Stream!Deliver
<1>5. CASE GiveUp \/ NoBeginning \/ Fail
  <2>1. ended = "no" /\ ended' \in {"none", "error"} /\ received' = received
    BY <1>5 DEF GiveUp, NoBeginning, Fail, Receives, Stop, Progress
  <2> QED
    BY <2>1 DEF Stream!Next, Stream!End
<1> QED
  BY <1>1, <1>2, <1>3, <1>4, <1>5
     DEF Next, vars, Receive, Run, Publish, MatchEnds, Respond, Tick, NextPacket, CatchUp,
         Sleep, FetchDelta, DropFuture, Retry

\* The client implements the stream of packets that PacketStream promises.
THEOREM BroadcastImplementsPacketStream == Spec => ImplementsPacketStream
  BY BroadcastInvariant, InitRefines, StepRefines, PTL
     DEF Spec, ImplementsPacketStream, Stream!Spec
=============================================================================

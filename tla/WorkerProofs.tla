---------------------------- MODULE WorkerProofs ----------------------------
(***************************************************************************)
(* Proofs about Worker.tla, for all values of its constants: its types,    *)
(* that a read cancellation is honoured, that stale audio is bounded, that *)
(* a refused engine emits no more, and that the worker is a SpeechService. *)
(***************************************************************************)
EXTENDS Worker, TLAPS

\* Where the frames of the current request stand, by the location of the thread.
AtRest == {"recv", "exited", "clear_failed", "clear_cancelled"}
Opening == {"enter", "ack", "announce", "reject"}
Speaking == {"synth", "push", "settle", "done_cancelled"} \union Finishing

Resting(n) == Service!Between(wire) /\ wire[Len(wire)].n = n
Talking == Service!Within(wire) /\ wire[Len(wire)].n = cur.n

\* The wire holds the replies up to the one that pc is in.
WireInv ==
  /\ pc = "ready" => wire = <<>> /\ cur.n = 0
  /\ pc \in AtRest => Resting(cur.n)
  /\ pc \in Opening => Resting(cur.n - 1)
  /\ pc \in Speaking => Talking
  /\ pc = "fail" => Resting(cur.n - 1) \/ Talking

\* The channel holds the requests after cur, in order, and the shutdown last.
InOrder ==
  \A i \in 1..Len(queue) :
    /\ queue[i].type = "SHUTDOWN" <=> i = Len(queue) /\ reader = "stopped"
    /\ queue[i].type # "SHUTDOWN" => queue[i].n = cur.n + i

ChannelInv ==
  /\ InOrder
  /\ reader = "stopped" /\ pc # "exited" => queue # <<>>
  /\ pc = "exited" => reader = "stopped" /\ queue = <<>>
  /\ cur.n + Len(queue) =
       arrived + IF reader = "stopped" /\ pc # "exited" THEN 1 ELSE 0

\* A cancellation that is due is still in the set or already with the engine,
\* and the running push can only write what is left of its blocks.
CancelInv ==
  /\ due => pc \notin Finishing \union {"ready", "recv", "reject", "enter", "ack", "exited"}
  /\ due /\ pc \in Cancellable => Marked \/ halted
  /\ pc = "settle" /\ halted => stop = "cancelled"
  /\ pc \in {"push", "flush"} => ~halted
  /\ pc = "push" => blocks > 0
  /\ pc = "push" /\ due => overrun + blocks <= MaxBlocks
  /\ ~due => overrun = 0
  /\ overrun <= MaxBlocks

IInv == TypeOK /\ WireInv /\ ChannelInv /\ CancelInv
-----------------------------------------------------------------------------
(***************************************************************************)
(* Type correctness.                                                       *)
(***************************************************************************)
LEMMA InitTypeOK == Init => TypeOK
<1> SUFFICES ASSUME Init PROVE TypeOK
  OBVIOUS
<1>1. /\ frames \in 0..MaxFrames /\ arrived \in 0..frames
      /\ calls \in 0..MaxCallbacks /\ blocks \in 0..MaxBlocks
      /\ faults \in 0..MaxFaults /\ overrun \in Nat
  BY BoundsAssumption DEF Init
<1>2. cur \in Frame
  BY DEF Init, Shutdown, Frame, Text
<1>3. /\ reader \in {"reading", "stopped"} /\ pc \in Location
      /\ stop \in {"none", "eos", "cap", "cancelled"}
      /\ cancelled \subseteq Id
      /\ queue \in Seq(Frame)
      /\ wire \in Seq([type : {"READY", "START", "CHUNK", "DONE", "ERROR"}, n : Nat])
  BY DEF Init, Location
<1>4. /\ halted \in BOOLEAN /\ streamError \in BOOLEAN
      /\ leftover \in BOOLEAN /\ due \in BOOLEAN
  BY Zenon DEF Init
<1> QED BY <1>1, <1>2, <1>3, <1>4, Zenon DEF TypeOK

\* The locals that a finished request leaves behind are well typed.
LEMMA FreshType ==
  ASSUME FreshLocals
  PROVE  /\ calls' \in 0..MaxCallbacks /\ blocks' \in 0..MaxBlocks
         /\ halted' \in BOOLEAN /\ streamError' \in BOOLEAN
         /\ leftover' \in BOOLEAN
         /\ stop' \in {"none", "eos", "cap", "cancelled"}
         /\ due' \in BOOLEAN /\ overrun' \in Nat
<1>1. /\ calls' \in 0..MaxCallbacks /\ blocks' \in 0..MaxBlocks
      /\ stop' \in {"none", "eos", "cap", "cancelled"} /\ overrun' \in Nat
  BY BoundsAssumption DEF FreshLocals
<1>2. /\ halted' \in BOOLEAN /\ streamError' \in BOOLEAN
      /\ leftover' \in BOOLEAN /\ due' \in BOOLEAN
  BY Zenon DEF FreshLocals
<1> QED BY <1>1, <1>2

LEMMA WireGrows ==
  ASSUME wire \in Seq([type : {"READY", "START", "CHUNK", "DONE", "ERROR"}, n : Nat]),
         NEW type \in {"READY", "START", "CHUNK", "DONE", "ERROR"}, NEW n \in Nat,
         wire' = Append(wire, [type |-> type, n |-> n])
  PROVE  wire' \in Seq([type : {"READY", "START", "CHUNK", "DONE", "ERROR"}, n : Nat])
  OBVIOUS

LEMMA WriteType ==
  ASSUME TypeOK, NEW type \in {"READY", "START", "CHUNK", "DONE", "ERROR"}, NEW n \in Nat,
         NEW next \in Location, NEW failed \in Location,
         WriteFrame(type, n, next, failed)
  PROVE  /\ wire' \in Seq([type : {"READY", "START", "CHUNK", "DONE", "ERROR"}, n : Nat])
         /\ faults' \in 0..MaxFaults
         /\ pc' \in Location
<1>1. CASE Written(type, n) /\ pc' = next
  <2>1. wire' = Append(wire, [type |-> type, n |-> n])
    BY <1>1 DEF Written
  <2>2. wire \in Seq([type : {"READY", "START", "CHUNK", "DONE", "ERROR"}, n : Nat])
    BY Zenon DEF TypeOK
  <2>3. wire' \in Seq([type : {"READY", "START", "CHUNK", "DONE", "ERROR"}, n : Nat])
    BY <2>1, <2>2, WireGrows
  <2>4. faults' \in 0..MaxFaults
    BY <1>1, Zenon DEF TypeOK, Written
  <2> QED BY <1>1, <2>3, <2>4, Zenon
<1>2. CASE WriteFails /\ pc' = failed
  <2>1. wire' \in Seq([type : {"READY", "START", "CHUNK", "DONE", "ERROR"}, n : Nat])
    BY <1>2, Zenon DEF TypeOK, WriteFails
  <2>2. faults < MaxFaults /\ faults' = faults + 1
    BY <1>2, Zenon DEF WriteFails
  <2>3. faults \in 0..MaxFaults
    BY Zenon DEF TypeOK
  <2>4. faults' \in 0..MaxFaults
    BY <2>2, <2>3, BoundsAssumption
  <2> QED BY <1>2, <2>1, <2>4, Zenon
<1> QED BY <1>1, <1>2, Zenon DEF WriteFrame

\* What the reader thread does is one of three things, whichever request it reads.
LEMMA ReaderCases ==
  ASSUME ReaderStep
  PROVE  \/ \E type \in {"SPEAK", "OTHER"}, id \in Id, text \in Text :
               ReadRequest(type, id, text)
         \/ \E id \in Id : ReadCancel(id)
         \/ ReadShutdown
<1>1. ASSUME NEW id \in Id, NEW text \in Text, ReadSpeak(id, text)
      PROVE  \E type \in {"SPEAK", "OTHER"}, i \in Id, t \in Text : ReadRequest(type, i, t)
  BY <1>1, Zenon DEF ReadSpeak
<1>2. ASSUME NEW id \in Id, ReadOther(id)
      PROVE  \E type \in {"SPEAK", "OTHER"}, i \in Id, t \in Text : ReadRequest(type, i, t)
  <2>1. "blank" \in Text
    BY DEF Text
  <2> QED BY <1>2, <2>1, Zenon DEF ReadOther
<1> QED BY <1>1, <1>2, Zenon DEF ReaderStep

\* A step that writes a frame and only moves on keeps the types.
LEMMA FrameKeepsTypes ==
  ASSUME TypeOK, NEW type \in {"READY", "START", "CHUNK", "DONE", "ERROR"}, NEW n \in Nat,
         NEW next \in Location, NEW failed \in Location,
         WriteFrame(type, n, next, failed),
         UNCHANGED <<input, queue, cancelled, cur, engine, history>>
  PROVE  TypeOK'
<1>1. /\ wire' \in Seq([type : {"READY", "START", "CHUNK", "DONE", "ERROR"}, n : Nat])
      /\ faults' \in 0..MaxFaults
      /\ pc' \in Location
  BY WriteType
<1>2. /\ reader' = reader /\ frames' = frames /\ arrived' = arrived /\ queue' = queue
      /\ cancelled' = cancelled /\ cur' = cur /\ calls' = calls /\ halted' = halted
      /\ streamError' = streamError /\ blocks' = blocks /\ leftover' = leftover
      /\ stop' = stop /\ due' = due /\ overrun' = overrun
  BY Zenon DEF input, engine, history
<1> QED BY <1>1, <1>2, Zenon DEF TypeOK

WritingStep == \/ WriteReady \/ RejectOther \/ WriteError \/ Acknowledge \/ Announce
               \/ DoneCancelled \/ ReportDegenerate \/ Complete

LEMMA WritingKeepsTypes ==
  ASSUME TypeOK, WritingStep
  PROVE  TypeOK'
<1>1. cur.n \in Nat /\ 0 \in Nat
  BY DEF TypeOK, Frame
<1>2. {"recv", "aborted", "clear_failed", "fail", "synth", "clear_cancelled"} \subseteq Location
  BY DEF Location
<1>3. CASE WriteReady
  BY <1>1, <1>2, <1>3, FrameKeepsTypes DEF WriteReady
<1>4. CASE RejectOther
  BY <1>1, <1>2, <1>4, FrameKeepsTypes DEF RejectOther
<1>5. CASE WriteError
  BY <1>1, <1>2, <1>5, FrameKeepsTypes DEF WriteError
<1>6. CASE Acknowledge
  BY <1>1, <1>2, <1>6, FrameKeepsTypes DEF Acknowledge
<1>7. CASE Announce
  <2>1. (IF cur.text = "nul" THEN "fail" ELSE "synth") \in Location
    BY <1>2
  <2>2. /\ WriteFrame("START", cur.n, IF cur.text = "nul" THEN "fail" ELSE "synth", "fail")
        /\ UNCHANGED <<input, queue, cancelled, cur, engine, history>>
    BY <1>7, Zenon DEF Announce
  <2> QED BY <1>1, <1>2, <2>1, <2>2, FrameKeepsTypes
<1>8. CASE DoneCancelled
  BY <1>1, <1>2, <1>8, FrameKeepsTypes DEF DoneCancelled
<1>9. CASE ReportDegenerate
  BY <1>1, <1>2, <1>9, FrameKeepsTypes DEF ReportDegenerate
<1>10. CASE Complete
  BY <1>1, <1>2, <1>10, FrameKeepsTypes DEF Complete
<1> QED BY <1>3, <1>4, <1>5, <1>6, <1>7, <1>8, <1>9, <1>10, Zenon DEF WritingStep

LEMMA NextTypeOK == TypeOK /\ CancelInv /\ [Next]_vars => TypeOK'
<1> SUFFICES ASSUME TypeOK, CancelInv, [Next]_vars PROVE TypeOK'
  OBVIOUS
<1>0. CASE WritingStep
  BY <1>0, WritingKeepsTypes
<1> USE DEF TypeOK
<1>1. CASE ReaderStep
  <2>1. ASSUME NEW type \in {"SPEAK", "OTHER"}, NEW id \in Id, NEW text \in Text,
               ReadRequest(type, id, text)
        PROVE  TypeOK'
    BY <2>1, BoundsAssumption
    DEF ReadRequest, Frame, output, engine, history
  <2>2. ASSUME NEW id \in Id, ReadCancel(id) PROVE TypeOK'
    BY <2>2, BoundsAssumption DEF ReadCancel, output, engine, history
  <2>3. CASE ReadShutdown
    BY <2>3 DEF ReadShutdown, SendShutdown, Shutdown, Frame, Text, output, engine, history
  <2> QED BY <1>1, <2>1, <2>2, <2>3, ReaderCases, Zenon
<1>2. CASE ServeStep
  <2> USE BoundsAssumption DEF input, engine, output, history
  <2>0. cur.n \in Nat
    BY DEF Frame
  <2>2. CASE ReceiveShutdown
    BY <2>2 DEF ReceiveShutdown, Receive, Location
  <2>3. CASE ReceiveSpeak
    BY <2>3 DEF ReceiveSpeak, Receive, Location
  <2>4. CASE ReceiveOther
    BY <2>4 DEF ReceiveOther, Receive, Location
  <2>7. CASE ClearFailed
    BY <2>7, FreshType DEF ClearFailed, TakeCancelled, Location
  <2>8. CASE Enter
    BY <2>8 DEF Enter, AfterEnter, TakeCancelled, Location
  <2>11. CASE Poll
    BY <2>11 DEF Poll
  <2>12. CASE AudioRefused
    BY <2>12 DEF AudioRefused, TakeCancelled
  <2>13. CASE AudioAccepted
    BY <2>13 DEF AudioAccepted, Location
  <2>14. CASE PushBlock
    <3>1. blocks > 0
      BY <2>14 DEF PushBlock, CancelInv
    <3>2. /\ blocks' \in 0..MaxBlocks /\ overrun' \in Nat
          /\ faults' \in 0..MaxFaults /\ pc' \in Location
      BY <2>14, <3>1 DEF PushBlock, Written, WriteFails, Location
    <3>3. wire' \in Seq([type : {"READY", "START", "CHUNK", "DONE", "ERROR"}, n : Nat])
      BY <2>0, <2>14, WireGrows DEF PushBlock, Written, WriteFails
    <3> QED BY <2>14, <3>2, <3>3 DEF PushBlock, Written, WriteFails
  <2>15. CASE EngineCancelled
    BY <2>15 DEF EngineCancelled, RefusedStop, Location
  <2>16. CASE EngineFinished
    BY <2>16 DEF EngineFinished, Location
  <2>17. CASE EngineFailed
    BY <2>17 DEF EngineFailed, Location
  <2>18. CASE Settle
    BY <2>18 DEF Settle, FinalStop, TakeCancelled, Location
  <2>20. CASE ClearCancelled
    BY <2>20, FreshType DEF ClearCancelled, TakeCancelled, Location
  <2>21. CASE Flush
    <3>1. leftover' \in BOOLEAN
      BY <2>21, Zenon DEF Flush
    <3>2. overrun' \in Nat
      BY <2>21 DEF Flush
    <3>3. CASE leftover
      <4>1. WriteFrame("CHUNK", cur.n, "release", "fail")
        BY <2>21, <3>3 DEF Flush
      <4>2. {"release", "fail"} \subseteq Location
        BY DEF Location
      <4>3. /\ wire' \in Seq([type : {"READY", "START", "CHUNK", "DONE", "ERROR"}, n : Nat])
            /\ faults' \in 0..MaxFaults /\ pc' \in Location
        BY <2>0, <4>1, <4>2, WriteType
      <4> QED BY <2>21, <3>1, <3>2, <4>3 DEF Flush
    <3>4. CASE ~leftover
      <4>1. UNCHANGED output /\ pc' = "release" /\ pc' \in Location
        BY <2>21, <3>4 DEF Flush, Location
      <4> QED BY <2>21, <3>1, <3>2, <4>1 DEF Flush
    <3> QED BY <3>3, <3>4
  <2>22. CASE Release
    BY <2>22, FreshType DEF Release, TakeCancelled, Location
  <2> QED
    BY <1>0, <1>2, <2>2, <2>3, <2>4, <2>7, <2>8, <2>11, <2>12, <2>13, <2>14, <2>15,
       <2>16, <2>17, <2>18, <2>20, <2>21, <2>22
    DEF ServeStep, WritingStep
<1>3. CASE Ended \/ UNCHANGED vars
  BY <1>3 DEF Ended, vars, input, engine, output, history
<1> QED BY <1>1, <1>2, <1>3 DEF Next

-----------------------------------------------------------------------------
(***************************************************************************)
(* The frames on the wire.                                                 *)
(***************************************************************************)
LEMMA LastWritten ==
  ASSUME TypeOK, NEW type, NEW n, Written(type, n)
  PROVE  wire' # <<>> /\ wire'[Len(wire')].type = type /\ wire'[Len(wire')].n = n
<1> DEFINE f == [type |-> type, n |-> n]
<1>1. wire' # <<>> /\ wire'[Len(wire')] = f
  BY DEF TypeOK, Written
<1> QED BY <1>1

\* A frame is the last one on the wire, or the wire is as it was.
LEMMA WriteOutcome ==
  ASSUME TypeOK, NEW type, NEW n, NEW next, NEW failed,
         WriteFrame(type, n, next, failed)
  PROVE  \/ /\ pc' = next /\ wire' # <<>>
            /\ wire'[Len(wire')].type = type /\ wire'[Len(wire')].n = n
         \/ pc' = failed /\ wire' = wire
  BY LastWritten DEF WriteFrame, WriteFails

LEMMA InitInv == Init => WireInv /\ ChannelInv /\ CancelInv
<1> SUFFICES ASSUME Init PROVE WireInv /\ ChannelInv /\ CancelInv
  OBVIOUS
<1>1. WireInv
  BY DEF Init, WireInv, AtRest, Opening, Speaking, Finishing, Shutdown
<1>2. ChannelInv
  BY DEF Init, ChannelInv, InOrder, Shutdown
<1>3. CancelInv
  BY BoundsAssumption DEF Init, CancelInv, Finishing, Cancellable
<1> QED BY <1>1, <1>2, <1>3

\* The serving thread meets the requests in order and answers each in turn.
LEMMA NextWireInv == TypeOK /\ WireInv /\ ChannelInv /\ [Next]_vars => WireInv'
<1> SUFFICES ASSUME TypeOK, WireInv, ChannelInv, [Next]_vars PROVE WireInv'
  OBVIOUS
<1> USE DEF WireInv, AtRest, Opening, Speaking, Finishing, Resting, Talking,
            Service!Between, Service!Within, Service!Final
<1>0. cur.n \in Nat /\ pc \in Location
  BY DEF TypeOK, Frame
<1>1. CASE ReaderStep
  <2>1. UNCHANGED <<pc, cur, wire>>
    BY <1>1 DEF ReaderStep, ReadSpeak, ReadOther, ReadRequest, ReadCancel,
                ReadShutdown, output
  <2> QED BY <2>1
<1>2. CASE ServeStep
  <2> USE DEF input, engine, output, history
  <2>1. CASE WriteReady
    BY <1>0, <2>1, WriteOutcome DEF WriteReady
  <2>2. CASE ReceiveShutdown
    BY <2>2 DEF ReceiveShutdown, Receive
  <2>3. ASSUME Receive("SPEAK") \/ Receive("OTHER"), cur' = Head(queue)
        PROVE  cur'.n = cur.n + 1
    <3>1. queue # <<>> /\ Head(queue).type # "SHUTDOWN" /\ queue \in Seq(Frame)
      BY <2>3 DEF Receive, TypeOK
    <3>2. Len(queue) \in Nat /\ Len(queue) > 0 /\ Head(queue) = queue[1]
      BY <3>1
    <3>3. queue[1].n = cur.n + 1
      BY <3>1, <3>2 DEF ChannelInv, InOrder
    <3> QED BY <2>3, <3>2, <3>3
  <2>4. CASE ReceiveSpeak
    BY <1>0, <2>3, <2>4 DEF ReceiveSpeak, Receive
  <2>5. CASE ReceiveOther
    BY <1>0, <2>3, <2>5 DEF ReceiveOther, Receive
  <2>6. CASE RejectOther
    BY <1>0, <2>6, WriteOutcome DEF RejectOther
  <2>7. CASE WriteError
    BY <1>0, <2>7, WriteOutcome DEF WriteError
  <2>8. CASE ClearFailed \/ ClearCancelled
    BY <2>8 DEF ClearFailed, ClearCancelled
  <2>9. CASE Enter
    BY <2>9 DEF Enter, AfterEnter
  <2>10. CASE Acknowledge
    BY <1>0, <2>10, WriteOutcome DEF Acknowledge
  <2>11. CASE Announce
    BY <1>0, <2>11, WriteOutcome DEF Announce
  <2>12. CASE Poll \/ AudioRefused \/ AudioAccepted
    BY <2>12 DEF Poll, AudioRefused, AudioAccepted
  <2>13. CASE PushBlock
    BY <1>0, <2>13, LastWritten DEF PushBlock, WriteFails
  <2>14. CASE EngineCancelled \/ EngineFinished \/ EngineFailed
    BY <2>14 DEF EngineCancelled, EngineFinished, EngineFailed
  <2>15. CASE Settle
    BY <2>15 DEF Settle
  <2>16. CASE DoneCancelled
    BY <1>0, <2>16, WriteOutcome DEF DoneCancelled
  <2>17. CASE Flush
    BY <1>0, <2>17, WriteOutcome DEF Flush
  <2>18. CASE Release
    <3>1. pc' \in {"report", "complete"}
      BY <2>18 DEF Release
    <3> QED BY <2>18, <3>1 DEF Release
  <2>19. CASE ReportDegenerate
    BY <1>0, <2>19, WriteOutcome DEF ReportDegenerate
  <2>20. CASE Complete
    BY <1>0, <2>20, WriteOutcome DEF Complete
  <2> QED
    BY <1>2, <2>1, <2>2, <2>4, <2>5, <2>6, <2>7, <2>8, <2>9, <2>10, <2>11,
       <2>12, <2>13, <2>14, <2>15, <2>16, <2>17, <2>18, <2>19, <2>20
    DEF ServeStep
<1>3. CASE Ended \/ UNCHANGED vars
  BY <1>3 DEF Ended, vars, output
<1> QED BY <1>1, <1>2, <1>3 DEF Next
-----------------------------------------------------------------------------
(***************************************************************************)
(* The frames in the channel.                                              *)
(***************************************************************************)
\* Requests wait in the order they were read, numbered from the current one on,
\* and nothing follows the shutdown.
LEMMA NextChannelInv ==
  TypeOK /\ ChannelInv /\ [Next]_vars => ChannelInv'
<1> SUFFICES ASSUME TypeOK, ChannelInv, [Next]_vars PROVE ChannelInv'
  OBVIOUS
<1>0. /\ cur.n \in Nat /\ arrived \in Nat /\ queue \in Seq(Frame)
      /\ Len(queue) \in Nat
  BY DEF TypeOK, Frame
<1>4. CASE \/ UNCHANGED <<reader, arrived, queue, cur>> /\ pc # "exited" /\ pc' # "exited"
           \/ UNCHANGED <<reader, arrived, queue, cur, pc>>
  BY <1>4 DEF ChannelInv, InOrder
<1>1. CASE ReaderStep
  <2>1. ASSUME NEW type \in {"SPEAK", "OTHER"}, NEW id \in Id, NEW text \in Text,
               ReadRequest(type, id, text)
        PROVE  ChannelInv'
    <3>1. /\ Len(queue') = Len(queue) + 1
          /\ \A i \in 1..Len(queue) : queue'[i] = queue[i]
          /\ queue'[Len(queue) + 1].type = type
          /\ queue'[Len(queue) + 1].n = arrived + 1
          /\ queue' # <<>>
      BY <1>0, <2>1 DEF ReadRequest
    <3>2. /\ reader = "reading" /\ reader' = reader /\ pc' = pc /\ cur' = cur
          /\ arrived' = arrived + 1 /\ pc # "exited" /\ type # "SHUTDOWN"
      BY <2>1 DEF ReadRequest, CanRead, Running
    <3>3. cur.n + Len(queue) = arrived
      BY <1>0, <3>2 DEF ChannelInv
    <3>4. InOrder'
      <4> SUFFICES ASSUME NEW i \in 1..Len(queue')
                   PROVE  queue'[i].type # "SHUTDOWN" /\ queue'[i].n = cur.n + i
        BY <3>2 DEF InOrder
      <4>1. CASE i \in 1..Len(queue)
        BY <3>1, <3>2, <4>1 DEF ChannelInv, InOrder
      <4>2. CASE i = Len(queue) + 1
        <5>1. queue'[i].type = type /\ queue'[i].n = arrived + 1
          BY <3>1, <4>2
        <5>2. arrived + 1 = cur.n + i
          BY <1>0, <3>3, <4>2
        <5> QED BY <3>2, <5>1, <5>2
      <4> QED BY <1>0, <3>1, <4>1, <4>2
    <3>5. cur'.n + Len(queue') = arrived'
      <4>1. cur'.n = cur.n
        BY <3>2
      <4>2. cur.n + (Len(queue) + 1) = arrived + 1
        BY <1>0, <3>3
      <4> QED BY <3>1, <3>2, <4>1, <4>2
    <3>6. reader' # "stopped" /\ pc' # "exited" /\ queue' # <<>>
      BY <3>1, <3>2
    <3>7. arrived' + (IF reader' = "stopped" /\ pc' # "exited" THEN 1 ELSE 0) = arrived'
      BY <1>0, <3>2, <3>6
    <3> QED BY <3>4, <3>5, <3>6, <3>7 DEF ChannelInv
  <2>2. ASSUME NEW id \in Id, ReadCancel(id) PROVE ChannelInv'
    BY <1>4, <2>2 DEF ReadCancel
  <2>3. CASE ReadShutdown
    <3>1. /\ Len(queue') = Len(queue) + 1
          /\ \A i \in 1..Len(queue) : queue'[i] = queue[i]
          /\ queue'[Len(queue) + 1].type = "SHUTDOWN"
          /\ queue' # <<>>
      BY <1>0, <2>3 DEF ReadShutdown, SendShutdown, Shutdown
    <3>2. /\ reader = "reading" /\ reader' = "stopped" /\ pc' = pc /\ cur' = cur
          /\ arrived' = arrived /\ pc # "exited"
      BY <2>3 DEF ReadShutdown, CanRead, Running
    <3>3. cur.n + Len(queue) = arrived
      BY <1>0, <3>2 DEF ChannelInv
    <3>4. InOrder'
      <4> SUFFICES ASSUME NEW i \in 1..Len(queue')
                   PROVE  /\ queue'[i].type = "SHUTDOWN" <=> i = Len(queue')
                          /\ queue'[i].type # "SHUTDOWN" => queue'[i].n = cur.n + i
        BY <3>2 DEF InOrder
      <4>1. CASE i \in 1..Len(queue)
        <5>1. queue'[i] = queue[i] /\ queue[i].type # "SHUTDOWN" /\ queue[i].n = cur.n + i
          BY <3>1, <3>2, <4>1 DEF ChannelInv, InOrder
        <5>2. i # Len(queue')
          BY <1>0, <3>1, <4>1
        <5> QED BY <5>1, <5>2
      <4>2. CASE i = Len(queue) + 1
        BY <3>1, <4>2
      <4> QED BY <1>0, <3>1, <4>1, <4>2
    <3>5. cur'.n + Len(queue') = arrived' + 1
      <4>1. cur'.n = cur.n
        BY <3>2
      <4>2. cur.n + (Len(queue) + 1) = arrived + 1
        BY <1>0, <3>3
      <4> QED BY <3>1, <3>2, <4>1, <4>2
    <3>6. reader' = "stopped" /\ pc' # "exited" /\ queue' # <<>>
      BY <3>1, <3>2
    <3> QED BY <3>4, <3>5, <3>6 DEF ChannelInv
  <2> QED BY <1>1, <2>1, <2>2, <2>3, ReaderCases, Zenon
<1>2. CASE ReceiveShutdown
  <2>1. /\ queue # <<>> /\ Len(queue) > 0 /\ queue[1].type = "SHUTDOWN"
        /\ queue' = Tail(queue) /\ pc = "recv" /\ pc' = "exited"
        /\ reader' = reader /\ cur' = cur /\ arrived' = arrived
    BY <1>0, <1>2 DEF ReceiveShutdown, Receive, input
  <2>2. reader = "stopped" /\ Len(queue) = 1
    <3>1. 1 \in 1..Len(queue)
      BY <1>0, <2>1
    <3> QED BY <2>1, <3>1 DEF ChannelInv, InOrder
  <2>3. queue' = <<>> /\ Len(queue') = 0
    BY <1>0, <2>1, <2>2
  <2>4. InOrder'
    BY <2>3 DEF InOrder
  <2>5. cur.n + Len(queue) = arrived + 1
    BY <2>1, <2>2 DEF ChannelInv
  <2>6. cur'.n + Len(queue') = arrived'
    <3>1. arrived = cur.n
      BY <1>0, <2>2, <2>5
    <3>2. cur'.n = cur.n /\ arrived' = arrived
      BY <2>1
    <3> QED BY <1>0, <2>3, <3>1, <3>2
  <2> QED BY <1>0, <2>1, <2>2, <2>3, <2>4, <2>6 DEF ChannelInv
<1>3. CASE ReceiveSpeak \/ ReceiveOther
  <2>1. /\ queue # <<>> /\ Len(queue) > 0 /\ queue[1].type # "SHUTDOWN"
        /\ queue' = Tail(queue) /\ pc = "recv" /\ pc' # "exited"
        /\ cur' = queue[1] /\ reader' = reader /\ arrived' = arrived
    BY <1>0, <1>3 DEF ReceiveSpeak, ReceiveOther, Receive, input
  <2>2. cur'.n = cur.n + 1
    BY <1>0, <2>1 DEF ChannelInv, InOrder
  <2>3. /\ Len(queue') = Len(queue) - 1
        /\ \A i \in 1..Len(queue') : queue'[i] = queue[i + 1]
    BY <1>0, <2>1
  <2>4. reader = "stopped" => Len(queue) > 1
    BY <1>0, <2>1 DEF ChannelInv, InOrder
  <2>5. InOrder'
    <3> SUFFICES ASSUME NEW i \in 1..Len(queue')
                 PROVE  /\ queue[i + 1].type = "SHUTDOWN" <=>
                             i = Len(queue') /\ reader = "stopped"
                        /\ queue[i + 1].type # "SHUTDOWN" =>
                             queue[i + 1].n = cur'.n + i
      BY <2>1, <2>3 DEF InOrder
    <3>1. i + 1 \in 1..Len(queue) /\ (i = Len(queue') <=> i + 1 = Len(queue))
      BY <1>0, <2>3
    <3>2. /\ queue[i + 1].type = "SHUTDOWN" <=>
               i + 1 = Len(queue) /\ reader = "stopped"
          /\ queue[i + 1].type # "SHUTDOWN" => queue[i + 1].n = cur.n + (i + 1)
      BY <3>1 DEF ChannelInv, InOrder
    <3>3. cur.n + (i + 1) = cur'.n + i
      BY <1>0, <2>2
    <3> QED BY <3>1, <3>2, <3>3
  <2>6. cur'.n + Len(queue') = cur.n + Len(queue)
    BY <1>0, <2>2, <2>3
  <2>7. reader = "stopped" => queue' # <<>>
    BY <1>0, <2>1, <2>3, <2>4
  <2> QED BY <2>1, <2>5, <2>6, <2>7 DEF ChannelInv
<1>5. CASE ServeStep /\ ~ReceiveShutdown /\ ~ReceiveSpeak /\ ~ReceiveOther
  <2> USE DEF input
  <2>1. CASE WriteReady \/ RejectOther \/ WriteError \/ Acknowledge \/ Announce
             \/ DoneCancelled \/ ReportDegenerate \/ Complete
    BY <1>4, <2>1 DEF WriteReady, RejectOther, WriteError, Acknowledge, Announce,
                      DoneCancelled, ReportDegenerate, Complete, WriteFrame
  <2>2. CASE ClearFailed \/ ClearCancelled \/ Enter \/ Settle \/ Release
    BY <1>4, <2>2 DEF ClearFailed, ClearCancelled, Enter, AfterEnter, Settle,
                      Release
  <2>3. CASE Poll \/ AudioRefused \/ AudioAccepted \/ PushBlock
    BY <1>4, <2>3 DEF Poll, AudioRefused, AudioAccepted, PushBlock
  <2>4. CASE EngineCancelled \/ EngineFinished \/ EngineFailed \/ Flush
    BY <1>4, <2>4 DEF EngineCancelled, EngineFinished, EngineFailed, Flush,
                      WriteFrame
  <2> QED BY <1>5, <2>1, <2>2, <2>3, <2>4 DEF ServeStep
<1>6. CASE Ended \/ UNCHANGED vars
  BY <1>4, <1>6 DEF Ended, vars, input
<1> QED BY <1>1, <1>2, <1>3, <1>5, <1>6 DEF Next, ServeStep
-----------------------------------------------------------------------------
(***************************************************************************)
(* Cancellation.                                                           *)
(***************************************************************************)
\* No step loses a cancellation that is due, and a push spends its blocks.
LEMMA NextCancelInv == TypeOK /\ CancelInv /\ [Next]_vars => CancelInv'
<1> SUFFICES ASSUME TypeOK, CancelInv, [Next]_vars PROVE CancelInv'
  OBVIOUS
<1> USE DEF CancelInv, Cancellable, Finishing, Marked
<1>0. /\ overrun \in Nat /\ blocks \in 0..MaxBlocks
      /\ MaxBlocks \in Nat
  BY BoundsAssumption DEF TypeOK
<1>1. CASE ReaderStep
  <2>1. ASSUME NEW type \in {"SPEAK", "OTHER"}, NEW id \in Id, NEW text \in Text,
               ReadRequest(type, id, text)
        PROVE  CancelInv'
    BY <2>1 DEF ReadRequest, engine, history
  <2>2. ASSUME NEW id \in Id, ReadCancel(id) PROVE CancelInv'
    <3>1. /\ UNCHANGED <<pc, cur, engine, overrun>>
          /\ cancelled' = cancelled \union {id}
      BY <2>2 DEF ReadCancel
    <3>2. due' <=> due \/ (id = cur.id /\ pc \in Cancellable)
      BY <2>2, Zenon DEF ReadCancel
    <3> QED BY <1>0, <3>1, <3>2 DEF engine
  <2>3. CASE ReadShutdown
    BY <2>3 DEF ReadShutdown, engine, history
  <2> QED BY <1>1, <2>1, <2>2, <2>3, ReaderCases, Zenon
<1>2. CASE ServeStep
  <2> USE DEF input, engine, output, history
  <2>1. CASE WriteReady \/ RejectOther \/ WriteError \/ Acknowledge \/ Announce
             \/ DoneCancelled \/ ReportDegenerate \/ Complete
    BY <1>0, <2>1 DEF WriteReady, RejectOther, WriteError, Acknowledge, Announce,
                      DoneCancelled, ReportDegenerate, Complete, WriteFrame
  <2>2. CASE ReceiveShutdown \/ ReceiveSpeak \/ ReceiveOther
    BY <1>0, <2>2 DEF ReceiveShutdown, ReceiveSpeak, ReceiveOther, Receive
  <2>3. CASE ClearFailed \/ ClearCancelled
    BY <1>0, <2>3 DEF ClearFailed, ClearCancelled, FreshLocals
  <2>4. CASE Enter
    BY <1>0, <2>4 DEF Enter, AfterEnter, TakeCancelled
  <2>5. CASE Poll
    BY <1>0, <2>5 DEF Poll
  <2>6. CASE AudioRefused
    BY <1>0, <2>6 DEF AudioRefused, TakeCancelled
  <2>7. CASE AudioAccepted
    <3>1. /\ pc = "synth" /\ ~halted /\ ~Marked
          /\ blocks' \in 0..MaxBlocks
          /\ pc' = IF blocks' = 0 THEN "synth" ELSE "push"
          /\ UNCHANGED <<cancelled, cur, halted, stop, due, overrun>>
      BY <2>7, Zenon DEF AudioAccepted, Wanted
    <3>2. ~due /\ overrun = 0
      BY <3>1
    <3>3. pc' = "push" => blocks' > 0 /\ blocks' <= MaxBlocks
      BY <1>0, <3>1
    <3> QED BY <1>0, <3>1, <3>2, <3>3
  <2>8. CASE PushBlock
    BY <1>0, <2>8 DEF PushBlock, LastBlock, Written, WriteFails
  <2>9. CASE EngineCancelled \/ EngineFinished \/ EngineFailed
    BY <1>0, <2>9 DEF EngineCancelled, EngineFinished, EngineFailed, RefusedStop
  <2>10. CASE Settle
    BY <1>0, <2>10 DEF Settle, FinalStop, TakeCancelled
  <2>11. CASE Flush
    BY <1>0, <2>11 DEF Flush, WriteFrame
  <2>12. CASE Release
    BY <1>0, <2>12 DEF Release, FreshLocals
  <2> QED BY <1>2, <2>1, <2>2, <2>3, <2>4, <2>5, <2>6, <2>7, <2>8, <2>9, <2>10,
             <2>11, <2>12 DEF ServeStep
<1>3. CASE Ended \/ UNCHANGED vars
  BY <1>3 DEF Ended, vars, engine, history
<1> QED BY <1>1, <1>2, <1>3 DEF Next
-----------------------------------------------------------------------------
(***************************************************************************)
(* The results.                                                            *)
(***************************************************************************)
\* The inductive invariant holds in every reachable state.
THEOREM Invariance == Spec => []IInv
<1>1. Init => IInv
  BY InitTypeOK, InitInv DEF IInv
<1>2. IInv /\ [Next]_vars => IInv'
  BY NextTypeOK, NextWireInv, NextChannelInv, NextCancelInv DEF IInv
<1> QED BY <1>1, <1>2, PTL DEF Spec

\* Every reachable state of the worker is well typed and within its bounds,
\* however many ids, frames, callbacks, blocks and failing writes there are.
THEOREM TypeCorrect == Spec => []TypeOK
<1>1. IInv => TypeOK
  BY DEF IInv
<1> QED BY <1>1, Invariance, PTL

\* A CANCEL read while handle_speak runs its engine is never lost: the request
\* does not end as a finished one (worker.rs, lines 181-226).
THEOREM CancelIsHonoured == Spec => []CancelHonoured
<1>1. IInv => CancelHonoured
  BY DEF IInv, CancelInv, CancelHonoured
<1> QED BY <1>1, Invariance, PTL

\* After a CANCEL was read, at most one audio callback's blocks still go out.
THEOREM StaleAudioIsBounded == Spec => []StaleAudioBounded
<1>1. IInv => StaleAudioBounded
  BY DEF IInv, CancelInv, StaleAudioBounded
<1> QED BY <1>1, Invariance, PTL

\* Once a callback has told the engine to stop, no audio goes out any more, not
\* even the block that PcmStreamer still holds (worker.rs, lines 216-228).
THEOREM RefusedIsSilent == Spec => NoAudioOnceRefused
<1>1. IInv /\ [Next]_vars =>
        [halted /\ wire' # wire => wire'[Len(wire')].type # "CHUNK"]_vars
  <2> SUFFICES ASSUME IInv, Next, halted, wire' # wire
               PROVE  wire'[Len(wire')].type # "CHUNK"
    OBVIOUS
  <2> USE DEF IInv, output
  <2>1. CASE WriteReady \/ RejectOther \/ WriteError \/ Acknowledge \/ Announce
             \/ DoneCancelled \/ ReportDegenerate \/ Complete
    BY <2>1, WriteOutcome DEF WriteReady, RejectOther, WriteError, Acknowledge,
       Announce, DoneCancelled, ReportDegenerate, Complete
  <2>2. ~PushBlock /\ ~Flush
    BY DEF CancelInv, PushBlock, Flush
  <2>3. CASE ReceiveShutdown \/ ReceiveSpeak \/ ReceiveOther \/ ClearFailed
             \/ ClearCancelled \/ Enter \/ Settle \/ Release
    BY <2>3 DEF ReceiveShutdown, ReceiveSpeak, ReceiveOther, ClearFailed,
                ClearCancelled, Enter, Settle, Release
  <2>4. CASE Poll \/ AudioRefused \/ AudioAccepted \/ EngineCancelled
             \/ EngineFinished \/ EngineFailed
    BY <2>4 DEF Poll, AudioRefused, AudioAccepted, EngineCancelled,
                EngineFinished, EngineFailed
  <2>5. CASE ReaderStep
    BY <2>5 DEF ReaderStep, ReadSpeak, ReadOther, ReadRequest, ReadCancel,
                ReadShutdown
  <2>6. CASE Ended
    BY <2>6 DEF Ended, vars
  <2> QED BY <2>1, <2>2, <2>3, <2>4, <2>5, <2>6 DEF Next, ServeStep
<1> QED BY <1>1, Invariance, PTL DEF Spec, NoAudioOnceRefused
-----------------------------------------------------------------------------
(***************************************************************************)
(* The worker is a SpeechService: every step is a step of the service or   *)
(* leaves what the controller sees as it was.                              *)
(***************************************************************************)
LEMMA InitRefines == Init => Service!SInit
  BY DEF Init, Service!SInit, Shutdown

LEMMA NextRefines == IInv /\ [Next]_vars => [Service!SNext]_(Service!svars)
<1> SUFFICES ASSUME IInv, [Next]_vars PROVE [Service!SNext]_(Service!svars)
  OBVIOUS
<1> USE DEF Service!svars
<1>0. /\ TypeOK /\ WireInv /\ ChannelInv
      /\ cur.n \in Nat /\ arrived \in Nat /\ Len(queue) \in Nat
  BY DEF IInv, TypeOK, Frame
<1>1. CASE /\ UNCHANGED <<arrived, reader, wire>>
           /\ pc \notin {"exited", "aborted"} /\ pc' \notin {"exited", "aborted"}
  BY <1>1
<1>2. CASE /\ UNCHANGED <<arrived, reader, wire>>
           /\ pc \notin {"exited", "aborted"} /\ pc' = "aborted"
  BY <1>2 DEF Service!SNext, Service!Abort
<1>3. CASE ReaderStep
  <2>1. Running /\ pc' = pc /\ wire' = wire
    BY <1>3 DEF ReaderStep, ReadSpeak, ReadOther, ReadRequest, ReadCancel,
                ReadShutdown, CanRead, output
  <2>2. ASSUME NEW type \in {"SPEAK", "OTHER"}, NEW id \in Id, NEW text \in Text,
               ReadRequest(type, id, text)
        PROVE  Service!Accept
    BY <2>1, <2>2 DEF ReadRequest, CanRead, Running, Service!Accept
  <2>3. ASSUME NEW id \in Id, ReadCancel(id)
        PROVE  UNCHANGED <<arrived, reader, wire, pc>>
    BY <2>3 DEF ReadCancel, output
  <2>4. CASE ReadShutdown
    BY <2>1, <2>4 DEF ReadShutdown, CanRead, Running, Service!SNext, Service!Close
  <2> QED BY <1>3, <2>2, <2>3, <2>4
          DEF ReaderStep, ReadSpeak, ReadOther, Text, Service!SNext
<1>4. ASSUME NEW type, NEW n, Written(type, n), UNCHANGED <<arrived, reader>>,
             pc \notin {"exited", "aborted"}, pc' \notin {"exited", "aborted"}
      PROVE  Service!Say(type, n)
  BY <1>4 DEF Written, Service!Say
<1>5. cur.n <= arrived
  <2>1. CASE reader = "stopped" /\ pc # "exited"
    <3>1. cur.n + Len(queue) = arrived + 1 /\ queue # <<>>
      BY <1>0, <2>1 DEF ChannelInv
    <3>2. Len(queue) > 0
      BY <1>0, <3>1 DEF TypeOK
    <3> QED BY <1>0, <3>1, <3>2
  <2>2. CASE ~(reader = "stopped" /\ pc # "exited")
    <3>1. cur.n + Len(queue) = arrived
      BY <1>0, <2>2 DEF ChannelInv
    <3> QED BY <1>0, <3>1
  <2> QED BY <2>1, <2>2
<1>6. ASSUME Resting(cur.n - 1)
      PROVE  /\ Service!Between(wire) /\ Service!Answered(wire) < arrived
             /\ Service!Answered(wire) + 1 = cur.n
  BY <1>0, <1>5, <1>6 DEF Resting, Service!Answered
<1>7. ASSUME Talking
      PROVE  /\ Service!Within(wire) /\ Service!Answered(wire) + 1 = cur.n
             /\ wire[Len(wire)].n = cur.n
  BY <1>0, <1>7 DEF Talking, Service!Answered, Service!Within, Service!Between,
                    Service!Final
<1>8. ASSUME NEW type \in {"DONE", "ERROR"}, NEW next, NEW failed,
             WriteFrame(type, cur.n, next, failed), UNCHANGED <<arrived, reader>>,
             Resting(cur.n - 1) \/ Talking,
             pc \notin {"exited", "aborted"}, next \notin {"exited", "aborted"},
             failed # "exited"
      PROVE  [Service!SNext]_(Service!svars)
  <2>1. CASE Written(type, cur.n) /\ pc' = next
    <3>1. Service!Say(type, cur.n)
      BY <1>4, <1>8, <2>1
    <3>2. Service!Reply
      BY <1>6, <1>7, <1>8, <3>1 DEF Service!Reply, Service!Final
    <3> QED BY <3>2 DEF Service!SNext
  <2>2. CASE WriteFails /\ pc' = failed
    BY <1>1, <1>2, <1>8, <2>2 DEF WriteFails
  <2> QED BY <1>8, <2>1, <2>2 DEF WriteFrame
<1>9. ASSUME WriteFrame("CHUNK", cur.n, "release", "fail") \/ Written("CHUNK", cur.n),
             UNCHANGED <<arrived, reader>>, Talking,
             pc \notin {"exited", "aborted"}, pc' \notin {"exited", "aborted"}
      PROVE  [Service!SNext]_(Service!svars)
  <2>1. CASE Written("CHUNK", cur.n)
    BY <1>4, <1>7, <1>9, <2>1 DEF Service!Audio, Service!SNext
  <2>2. CASE WriteFails
    BY <1>1, <1>9, <2>2 DEF WriteFails
  <2> QED BY <1>9, <2>1, <2>2 DEF WriteFrame
<1>10. CASE ServeStep
  <2> USE DEF input, output
  <2>1. CASE WriteReady
    <3>1. pc = "ready" /\ wire = <<>> /\ UNCHANGED <<arrived, reader>>
      BY <1>0, <2>1 DEF WriteReady, WireInv
    <3>2. CASE Written("READY", 0) /\ pc' = "recv"
      BY <1>4, <3>1, <3>2 DEF Service!Greet, Service!SNext
    <3>3. CASE WriteFails /\ pc' = "aborted"
      BY <1>2, <3>1, <3>3 DEF WriteFails
    <3> QED BY <2>1, <3>2, <3>3 DEF WriteReady, WriteFrame
  <2>2. CASE ReceiveShutdown
    <3>1. /\ pc = "recv" /\ pc' = "exited" /\ UNCHANGED <<arrived, reader, wire>>
          /\ queue # <<>> /\ Len(queue) > 0 /\ queue[1].type = "SHUTDOWN"
      BY <1>0, <2>2 DEF ReceiveShutdown, Receive, TypeOK
    <3>2. reader = "stopped" /\ Len(queue) = 1
      <4>1. 1 \in 1..Len(queue)
        BY <1>0, <3>1
      <4> QED BY <1>0, <3>1, <4>1 DEF ChannelInv, InOrder
    <3>3. cur.n + Len(queue) = arrived + 1
      BY <1>0, <3>1, <3>2 DEF ChannelInv
    <3>4. cur.n = arrived
      BY <1>0, <3>2, <3>3
    <3>5. Service!Between(wire) /\ Service!Answered(wire) = arrived
      BY <1>0, <3>1, <3>4 DEF WireInv, AtRest, Resting, Service!Answered
    <3> QED BY <3>1, <3>2, <3>5 DEF Service!Stop, Service!SNext
  <2>3. CASE ReceiveSpeak \/ ReceiveOther
    BY <1>1, <2>3 DEF ReceiveSpeak, ReceiveOther, Receive
  <2>4. CASE RejectOther
    BY <1>0, <1>8, <2>4 DEF RejectOther, WireInv, Opening
  <2>5. CASE WriteError
    BY <1>0, <1>8, <2>5 DEF WriteError, WireInv
  <2>6. CASE Acknowledge
    BY <1>0, <1>8, <2>6 DEF Acknowledge, WireInv, Opening
  <2>7. CASE DoneCancelled
    BY <1>0, <1>8, <2>7 DEF DoneCancelled, WireInv, Speaking
  <2>8. CASE ReportDegenerate
    BY <1>0, <1>8, <2>8 DEF ReportDegenerate, WireInv, Speaking, Finishing
  <2>9. CASE Complete
    BY <1>0, <1>8, <2>9 DEF Complete, WireInv, Speaking, Finishing
  <2>10. CASE Announce
    <3>1. /\ Resting(cur.n - 1) /\ UNCHANGED <<arrived, reader>>
          /\ pc = "announce" /\ pc' \in {"fail", "synth"}
          /\ Written("START", cur.n) \/ WriteFails
      BY <1>0, <2>10 DEF Announce, WriteFrame, WireInv, Opening
    <3>2. CASE Written("START", cur.n)
      BY <1>4, <1>6, <3>1, <3>2 DEF Service!Begin, Service!SNext
    <3>3. CASE WriteFails
      BY <1>1, <3>1, <3>3 DEF WriteFails
    <3> QED BY <3>1, <3>2, <3>3
  <2>11. CASE PushBlock
    <3>1. /\ Talking /\ UNCHANGED <<arrived, reader>>
          /\ pc = "push" /\ pc' \in {"synth", "push"}
          /\ Written("CHUNK", cur.n) \/ WriteFails
      BY <1>0, <2>11 DEF PushBlock, WireInv, Speaking
    <3>2. CASE Written("CHUNK", cur.n)
      BY <1>9, <3>1, <3>2
    <3>3. CASE WriteFails
      BY <1>1, <3>1, <3>3 DEF WriteFails
    <3> QED BY <3>1, <3>2, <3>3
  <2>12. CASE Flush
    <3>1. Talking /\ pc = "flush" /\ UNCHANGED <<arrived, reader>>
      BY <1>0, <2>12 DEF Flush, WireInv, Speaking, Finishing
    <3>2. CASE leftover
      <4>1. WriteFrame("CHUNK", cur.n, "release", "fail")
        BY <2>12, <3>2 DEF Flush
      <4> QED BY <1>9, <3>1, <4>1 DEF WriteFrame
    <3>3. CASE ~leftover
      BY <1>1, <2>12, <3>1, <3>3 DEF Flush
    <3> QED BY <3>2, <3>3
  <2>13. CASE ClearFailed \/ ClearCancelled \/ Settle
    BY <1>1, <2>13 DEF ClearFailed, ClearCancelled, Settle
  <2>14. CASE Enter
    BY <1>1, <2>14 DEF Enter, AfterEnter
  <2>15. CASE Release
    <3>1. pc = "release" /\ pc' \in {"report", "complete"}
      BY <2>15 DEF Release
    <3> QED BY <1>1, <2>15, <3>1 DEF Release
  <2>16. CASE Poll \/ AudioRefused \/ AudioAccepted
    BY <1>1, <2>16 DEF Poll, AudioRefused, AudioAccepted
  <2>17. CASE EngineCancelled \/ EngineFinished \/ EngineFailed
    BY <1>1, <2>17 DEF EngineCancelled, EngineFinished, EngineFailed
  <2> QED
    BY <1>10, <2>1, <2>2, <2>3, <2>4, <2>5, <2>6, <2>7, <2>8, <2>9, <2>10,
       <2>11, <2>12, <2>13, <2>14, <2>15, <2>16, <2>17 DEF ServeStep
<1>11. CASE Ended \/ UNCHANGED vars
  BY <1>11 DEF Ended, vars, input, output
<1> QED BY <1>3, <1>10, <1>11 DEF Next

\* For any ids, any number of frames and any failing writes, what the worker
\* writes is what a SpeechService may write: replies in the order of the
\* requests, never interleaved, one final frame each, and a normal end only when
\* all are answered.
THEOREM WorkerImplementsService == Spec => ImplementsService
<1>1. Init => Service!SInit
  BY InitRefines
<1>2. IInv /\ [Next]_vars => [Service!SNext]_(Service!svars)
  BY NextRefines
<1> QED BY <1>1, <1>2, Invariance, PTL DEF Spec, ImplementsService, Service!SSpec
=============================================================================

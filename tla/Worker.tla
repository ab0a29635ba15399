------------------------------- MODULE Worker -------------------------------
(***************************************************************************)
(* The persistent speech worker: `serve` and `handle_speak` of             *)
(* crates/spqx-core/src/worker.rs.                                         *)
(*                                                                         *)
(* Two threads.  The reader takes frames from stdin.  A CANCEL goes        *)
(* straight into the shared set `cancelled`, past the frames that wait;    *)
(* every other frame goes into an unbounded channel, `queue`; end of       *)
(* input and a bad frame become a SHUTDOWN.  The serving thread takes the  *)
(* frames from the channel one at a time, drives the engine, and is the    *)
(* only one that writes frames to stdout.                                  *)
(*                                                                         *)
(* A step of this module is one access to shared state (the set, the       *)
(* channel) or one frame written, with the local code around it.           *)
(*                                                                         *)
(* Simplifications.  A SPEAK payload is one of three classes.  Audio is    *)
(* counted in blocks: a push writes any number of them up to MaxBlocks     *)
(* and may keep a partial one (PcmStreamer.tla has the sample accounting). *)
(* The engine is any engine that keeps the contract of Engine.tla.         *)
(* Logging, clear_cache and a poisoned mutex (no code panics while it      *)
(* holds the set) are left out.  An allocation failure ends the process.   *)
(***************************************************************************)
EXTENDS Naturals, Sequences

CONSTANTS Id,            \* request ids that controllers use
          NoId,          \* the id field of a shutdown
          MaxFrames,     \* bound: SPEAK, CANCEL and unknown frames read
          MaxCallbacks,  \* bound: audio callbacks of one synthesis
          MaxBlocks,     \* bound: blocks that one audio callback completes
          MaxFaults      \* bound: writes that fail

ASSUME BoundsAssumption == /\ MaxFrames \in Nat
                           /\ MaxCallbacks \in Nat
                           /\ MaxBlocks \in Nat
                           /\ MaxFaults \in Nat
ASSUME IdAssumption == NoId \notin Id

VARIABLES
  reader,     \* the reader thread: "reading" or "stopped"
  frames,     \* how many SPEAK, CANCEL and unknown frames it has read
  arrived,    \* how many frames it has put into the channel as requests
  queue,      \* the channel
  cancelled,  \* the shared set of cancelled request ids
  pc,         \* where the serving thread is
  cur,        \* the request it handles, or handled last
  calls,      \* audio callbacks the engine can still make
  halted,     \* a callback has told the engine to stop
  streamError,\* a write inside an audio callback failed
  blocks,     \* blocks that the running callback has still to write
  leftover,   \* the streamer holds a partial block
  stop,       \* why the synthesis ended
  wire,       \* the frames that reached stdout whole
  faults,     \* writes that failed
  due,        \* history: a CANCEL for cur was read before its last check
  overrun     \* history: CHUNK frames written while a cancel was due

input == <<reader, frames, arrived>>
engine == <<calls, halted, streamError, blocks, leftover, stop>>
output == <<wire, faults>>
history == <<due, overrun>>
vars == <<input, queue, cancelled, pc, cur, engine, output, history>>

Text == {"speech", "blank", "nul"}
Frame == [type : {"SPEAK", "OTHER", "SHUTDOWN"}, id : Id \union {NoId},
          text : Text, n : Nat]
Shutdown == [type |-> "SHUTDOWN", id |-> NoId, text |-> "blank", n |-> 0]

Location == {"ready", "recv", "reject", "enter", "ack", "announce", "synth",
             "push", "settle", "done_cancelled", "clear_cancelled", "flush",
             "release", "report", "complete", "fail", "clear_failed",
             "exited", "aborted"}
\* Between the first and the last time handle_speak takes the mark of cur.
Cancellable == {"announce", "synth", "push", "settle"}
\* The end of a synthesis that is not treated as cancelled.
Finishing == {"flush", "release", "report", "complete"}
Running == pc \notin {"exited", "aborted"}

Init ==
  /\ reader = "reading" /\ frames = 0 /\ arrived = 0
  /\ queue = <<>>
  /\ cancelled = {}
  /\ pc = "ready" /\ cur = Shutdown
  /\ calls = MaxCallbacks /\ halted = FALSE /\ streamError = FALSE
  /\ blocks = 0 /\ leftover = FALSE /\ stop = "none"
  /\ wire = <<>> /\ faults = 0
  /\ due = FALSE /\ overrun = 0
-----------------------------------------------------------------------------
(***************************************************************************)
(* The reader thread.                                                      *)
(***************************************************************************)
CanRead == reader = "reading" /\ Running

\* A SPEAK, or a frame of a type the protocol does not have, is queued.
ReadRequest(type, id, text) ==
  /\ CanRead /\ frames < MaxFrames
  /\ frames' = frames + 1
  /\ arrived' = arrived + 1
  /\ queue' = Append(queue, [type |-> type, id |-> id, text |-> text,
                             n |-> arrived + 1])
  /\ UNCHANGED <<reader, cancelled, pc, cur, engine, output, history>>

ReadSpeak(id, text) == ReadRequest("SPEAK", id, text)
ReadOther(id) == ReadRequest("OTHER", id, "blank")

\* A CANCEL marks its id at once, whatever waits in the channel.
ReadCancel(id) ==
  /\ CanRead /\ frames < MaxFrames
  /\ frames' = frames + 1
  /\ cancelled' = cancelled \union {id}
  /\ due' = (due \/ (id = cur.id /\ pc \in Cancellable))
  /\ UNCHANGED <<reader, arrived, queue, pc, cur, engine, output, overrun>>

\* A definition named Bug... is never used: put in the place of the one after it,
\* it shows which property would notice that mistake.
BugSendShutdown == queue
SendShutdown == Append(queue, Shutdown)

\* SHUTDOWN, end of input, a cut frame and a read error: the last frame sent.
ReadShutdown ==
  /\ CanRead
  /\ reader' = "stopped"
  /\ queue' = SendShutdown
  /\ UNCHANGED <<frames, arrived, cancelled, pc, cur, engine, output, history>>

ReaderStep == \/ \E id \in Id, text \in Text : ReadSpeak(id, text)
              \/ \E id \in Id : ReadOther(id)
              \/ \E id \in Id : ReadCancel(id)
              \/ ReadShutdown
-----------------------------------------------------------------------------
(***************************************************************************)
(* write_frame.  Every error of the descriptor is taken as a broken pipe,  *)
(* but nothing remembers it: a later write may succeed.  A frame that was  *)
(* cut between its header and its payload is counted as not written.       *)
(***************************************************************************)
Written(type, n) == /\ wire' = Append(wire, [type |-> type, n |-> n])
                    /\ UNCHANGED faults

WriteFails == /\ faults < MaxFaults
              /\ faults' = faults + 1
              /\ UNCHANGED wire

WriteFrame(type, n, next, failed) ==
  \/ Written(type, n) /\ pc' = next
  \/ WriteFails /\ pc' = failed

Marked == cur.id \in cancelled
TakeCancelled == cancelled' = cancelled \ {cur.id}

\* The local variables of handle_speak, fresh for the next request.  They are
\* dead from the last clear on.
FreshLocals == /\ calls' = MaxCallbacks
               /\ halted' = FALSE /\ streamError' = FALSE
               /\ blocks' = 0 /\ leftover' = FALSE
               /\ stop' = "none"
               /\ due' = FALSE /\ overrun' = 0
-----------------------------------------------------------------------------
(***************************************************************************)
(* The loop of `serve`.  A write that fails here ends it with an error.    *)
(***************************************************************************)
WriteReady ==
  /\ pc = "ready"
  /\ WriteFrame("READY", 0, "recv", "aborted")
  /\ UNCHANGED <<input, queue, cancelled, cur, engine, history>>

Receive(type) ==
  /\ pc = "recv" /\ queue # <<>> /\ Head(queue).type = type
  /\ queue' = Tail(queue)

ReceiveShutdown ==
  /\ Receive("SHUTDOWN")
  /\ pc' = "exited"
  /\ UNCHANGED <<input, cancelled, cur, engine, output, history>>

ReceiveSpeak ==
  /\ Receive("SPEAK")
  /\ cur' = Head(queue)
  /\ pc' = "enter"
  /\ UNCHANGED <<input, cancelled, engine, output, history>>

ReceiveOther ==
  /\ Receive("OTHER")
  /\ cur' = Head(queue)
  /\ pc' = "reject"
  /\ UNCHANGED <<input, cancelled, engine, output, history>>

\* An unknown type is answered; the cancellation set is left alone.
RejectOther ==
  /\ pc = "reject"
  /\ WriteFrame("ERROR", cur.n, "recv", "aborted")
  /\ UNCHANGED <<input, queue, cancelled, cur, engine, history>>

\* handle_speak returned an error.
WriteError ==
  /\ pc = "fail"
  /\ WriteFrame("ERROR", cur.n, "clear_failed", "aborted")
  /\ UNCHANGED <<input, queue, cancelled, cur, engine, history>>

ClearFailed ==
  /\ pc = "clear_failed"
  /\ TakeCancelled
  /\ FreshLocals
  /\ pc' = "recv"
  /\ UNCHANGED <<input, queue, cur, output>>
-----------------------------------------------------------------------------
(***************************************************************************)
(* handle_speak up to the engine.                                          *)
(***************************************************************************)
BugAfterEnter == IF Marked THEN "recv"
                 ELSE IF cur.text = "blank" THEN "fail" ELSE "announce"
AfterEnter == IF Marked THEN "ack"
              ELSE IF cur.text = "blank" THEN "fail" ELSE "announce"

\* The mark is taken before the text is looked at.
Enter ==
  /\ pc = "enter"
  /\ TakeCancelled
  /\ pc' = AfterEnter
  /\ UNCHANGED <<input, queue, cur, engine, output, history>>

\* A request cancelled before it starts: DONE, no START, and no second clear.
Acknowledge ==
  /\ pc = "ack"
  /\ WriteFrame("DONE", cur.n, "recv", "fail")
  /\ UNCHANGED <<input, queue, cancelled, cur, engine, history>>

\* AUDIO_START goes out before the engine validates the text.
Announce ==
  /\ pc = "announce"
  /\ WriteFrame("START", cur.n, IF cur.text = "nul" THEN "fail" ELSE "synth",
                "fail")
  /\ UNCHANGED <<input, queue, cancelled, cur, engine, history>>
-----------------------------------------------------------------------------
(***************************************************************************)
(* The engine and its two callbacks.  It may poll `cancelled` at any time, *)
(* makes at most MaxCallbacks audio calls, makes none once a callback told *)
(* it to stop, and returns Cancelled exactly when one did.                 *)
(***************************************************************************)
\* The cancelled callback looks at the mark and leaves it in the set.
Poll ==
  /\ pc = "synth" /\ ~halted /\ Marked
  /\ halted' = TRUE
  /\ UNCHANGED <<input, queue, cancelled, pc, cur, calls, streamError, blocks,
                 leftover, stop, output, history>>

\* The audio callback takes the mark and refuses the audio,
AudioRefused ==
  /\ pc = "synth" /\ ~halted /\ calls > 0 /\ Marked
  /\ TakeCancelled
  /\ calls' = calls - 1
  /\ halted' = TRUE
  /\ UNCHANGED <<input, queue, pc, cur, streamError, blocks, leftover, stop,
                 output, history>>

BugWanted == TRUE
Wanted == ~Marked

\* or hands the samples to the streamer, which cuts them into blocks.
AudioAccepted ==
  /\ pc = "synth" /\ ~halted /\ calls > 0 /\ Wanted
  /\ calls' = calls - 1
  /\ blocks' \in 0..MaxBlocks
  /\ leftover' \in BOOLEAN
  /\ pc' = IF blocks' = 0 THEN "synth" ELSE "push"
  /\ UNCHANGED <<input, queue, cancelled, cur, halted, streamError, stop,
                 output, history>>

LastBlock == blocks = 1

\* One block of a push; a write that fails is remembered and stops the engine.
PushBlock ==
  /\ pc = "push"
  /\ \/ /\ Written("CHUNK", cur.n)
        /\ blocks' = blocks - 1
        /\ pc' = IF LastBlock THEN "synth" ELSE "push"
        /\ overrun' = IF due THEN overrun + 1 ELSE overrun
        /\ UNCHANGED <<halted, streamError, leftover>>
     \/ /\ WriteFails
        /\ streamError' = TRUE /\ halted' = TRUE
        /\ blocks' = 0 /\ leftover' = FALSE
        /\ pc' = "synth"
        /\ UNCHANGED overrun
  /\ UNCHANGED <<input, queue, cancelled, cur, calls, stop, due>>

BugRefusedStop == "eos"
RefusedStop == "cancelled"

EngineCancelled ==
  /\ pc = "synth" /\ halted
  /\ stop' = RefusedStop
  /\ pc' = IF streamError THEN "fail" ELSE "settle"
  /\ UNCHANGED <<input, queue, cancelled, cur, calls, halted, streamError,
                 blocks, leftover, output, history>>

EngineFinished ==
  /\ pc = "synth" /\ ~halted
  /\ stop' \in {"eos", "cap"}
  /\ pc' = "settle"
  /\ UNCHANGED <<input, queue, cancelled, cur, calls, halted, streamError,
                 blocks, leftover, output, history>>

EngineFailed ==
  /\ pc = "synth" /\ ~halted
  /\ pc' = "fail"
  /\ UNCHANGED <<input, queue, cancelled, cur, engine, output, history>>
-----------------------------------------------------------------------------
(***************************************************************************)
(* handle_speak after the engine.                                          *)
(***************************************************************************)
BugFinalStop == stop
FinalStop == IF Marked THEN "cancelled" ELSE stop

\* A mark set after the engine's last callback still cancels.
Settle ==
  /\ pc = "settle"
  /\ TakeCancelled
  /\ stop' = FinalStop
  /\ pc' = IF stop' = "cancelled" THEN "done_cancelled" ELSE "flush"
  /\ UNCHANGED <<input, queue, cur, calls, halted, streamError, blocks,
                 leftover, output, history>>

DoneCancelled ==
  /\ pc = "done_cancelled"
  /\ WriteFrame("DONE", cur.n, "clear_cancelled", "fail")
  /\ UNCHANGED <<input, queue, cancelled, cur, engine, history>>

ClearCancelled ==
  /\ pc = "clear_cancelled"
  /\ TakeCancelled
  /\ FreshLocals
  /\ pc' = "recv"
  /\ UNCHANGED <<input, queue, cur, output>>

\* The streamer pads and writes what it still holds.
Flush ==
  /\ pc = "flush"
  /\ IF leftover
     THEN /\ WriteFrame("CHUNK", cur.n, "release", "fail")
          /\ overrun' = IF due THEN overrun + 1 ELSE overrun
     ELSE /\ pc' = "release"
          /\ UNCHANGED <<output, overrun>>
  /\ leftover' = FALSE
  /\ UNCHANGED <<input, queue, cancelled, cur, calls, halted, streamError,
                 blocks, stop, due>>

\* The mark is dropped; then the audio is judged: cut off by the frame cap,
\* or, if there was any, collapsed into a long silent tail.
Release ==
  /\ pc = "release"
  /\ TakeCancelled
  /\ pc' \in IF stop = "cap" THEN {"report"}
             ELSE IF wire[Len(wire)].type = "CHUNK" THEN {"report", "complete"}
             ELSE {"complete"}
  /\ FreshLocals
  /\ UNCHANGED <<input, queue, cur, output>>

BugReportDegenerate ==
  /\ pc = "report"
  /\ WriteFrame("ERROR", cur.n, "complete", "fail")
  /\ UNCHANGED <<input, queue, cancelled, cur, engine, history>>

ReportDegenerate ==
  /\ pc = "report"
  /\ WriteFrame("ERROR", cur.n, "recv", "fail")
  /\ UNCHANGED <<input, queue, cancelled, cur, engine, history>>

Complete ==
  /\ pc = "complete"
  /\ WriteFrame("DONE", cur.n, "recv", "fail")
  /\ UNCHANGED <<input, queue, cancelled, cur, engine, history>>
-----------------------------------------------------------------------------
ServeStep ==
  \/ WriteReady \/ ReceiveShutdown \/ ReceiveSpeak \/ ReceiveOther
  \/ RejectOther \/ WriteError \/ ClearFailed
  \/ Enter \/ Acknowledge \/ Announce
  \/ Poll \/ AudioRefused \/ AudioAccepted \/ PushBlock
  \/ EngineCancelled \/ EngineFinished \/ EngineFailed
  \/ Settle \/ DoneCancelled \/ ClearCancelled
  \/ Flush \/ Release \/ ReportDegenerate \/ Complete

\* The process has ended, and its reader thread with it.
Ended == ~Running /\ UNCHANGED vars

Next == ReaderStep \/ ServeStep \/ Ended

Spec == Init /\ [][Next]_vars

\* The serving thread is never blocked by another: it runs on.  Nothing is
\* assumed of the controller, which may send nothing, or of failing writes.
FairSpec == Spec /\ WF_vars(ServeStep)
-----------------------------------------------------------------------------
(***************************************************************************)
(* What must hold.                                                         *)
(***************************************************************************)
\* Every variable has its type, and the counters keep their bounds.
TypeOK ==
  /\ reader \in {"reading", "stopped"}
  /\ frames \in 0..MaxFrames /\ arrived \in 0..frames
  /\ queue \in Seq(Frame)
  /\ cancelled \subseteq Id
  /\ pc \in Location
  /\ cur \in Frame
  /\ calls \in 0..MaxCallbacks
  /\ halted \in BOOLEAN /\ streamError \in BOOLEAN
  /\ blocks \in 0..MaxBlocks /\ leftover \in BOOLEAN
  /\ stop \in {"none", "eos", "cap", "cancelled"}
  /\ wire \in Seq([type : {"READY", "START", "CHUNK", "DONE", "ERROR"}, n : Nat])
  /\ faults \in 0..MaxFaults
  /\ due \in BOOLEAN /\ overrun \in Nat

\* The frames are the replies of a speech service: in the order of the requests,
\* never interleaved, each with exactly one final frame whatever path
\* handle_speak takes; and `serve` ends normally only when every request that
\* was read before the shutdown has been answered.
Service == INSTANCE SpeechService
             WITH accepted <- arrived,
                  open <- reader = "reading",
                  status <- CASE pc = "exited" -> "stopped"
                              [] pc = "aborted" -> "aborted"
                              [] OTHER -> "running"
ImplementsService == Service!SSpec

\* A CANCEL read between the first and the last check of handle_speak is never
\* lost between the engine's poll, the audio callback and that last check: the
\* request does not end as a finished one.
CancelHonoured == due => pc \notin Finishing

\* Once a CANCEL for the running request was read, no more CHUNKs follow than
\* the audio callback that was past its check still has to write.
StaleAudioBounded == overrun <= MaxBlocks

\* A request whose engine was told to stop puts no more audio on the wire, not
\* even the block that the streamer still holds.
NoAudioOnceRefused ==
  [][halted /\ wire' # wire => wire'[Len(wire')].type # "CHUNK"]_vars

\* The final frame of request n is out.
IsAnswered(n) == \E i \in 1..Len(wire) :
                   wire[i].n = n /\ wire[i].type \in {"DONE", "ERROR"}

\* Every request read gets its final frame, also when a SHUTDOWN or the end of
\* the input follows it at once, unless the output is lost.  Only finitely many
\* frames are read here, so there is a moment when all that came are answered.
AllAnswered == \A n \in 1..arrived : IsAnswered(n)
EveryRequestAnswered == ~AllAnswered ~> (AllAnswered \/ pc = "aborted")

\* After a shutdown or the end of the input the worker ends.
ShutdownEnds == reader = "stopped" ~> ~Running
=============================================================================

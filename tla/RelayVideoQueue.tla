--------------------------- MODULE RelayVideoQueue ---------------------------
(***************************************************************************)
(* One media-relay worker session: the frame-atomic video queue between    *)
(* the encoder callbacks (one producer per track) and the single send      *)
(* loop, with the key-frame recovery generations of                        *)
(* RelayKeyframeRecoveryState and the rate-limited IDR request.            *)
(*                                                                         *)
(* Every step is one access to state another thread can touch: a producer  *)
(* checks, stamps, writes, taints and requests in five separate steps, the *)
(* send loop awaits once per chunk, and TryCompleteKeyframe is a read      *)
(* followed by a write.                                                    *)
(***************************************************************************)
EXTENDS Integers, Sequences

CONSTANTS Tracks,     \* the monitors that are streamed
          Capacity,   \* RELAY_QUEUE_FRAMES, the bounded channel's capacity
          Chunks,     \* chunks per frame (BuildRelayFrameChunks)
          MaxTaint,   \* bound: a loss starts only while a generation is below it
          MayLeave    \* bound: whether the relay is left during the run

ASSUME CapacityAssumption == Capacity \in Nat \ {0}
ASSUME ChunksAssumption == Chunks \in Nat \ {0}
ASSUME MaxTaintAssumption == MaxTaint \in Nat
ASSUME MayLeaveAssumption == MayLeave \in BOOLEAN

VARIABLES
  session,     \* "live", "closing" (_mediaRelayMode cleared), "closed" (writer completed)
  taint,       \* _taintGeneration
  recovered,   \* _recoveredGeneration
  queue,       \* VideoQueue
  producer,    \* per track: where its encoder callback is
  gap,         \* per track: what became of the frames since the last queued one
  started,     \* per track: SentFrames > 0
  forceKey,    \* per track: ForceNextKeyframe
  mayRequest,  \* a second has passed since _lastRelayKeyframeReqMs
  sender,      \* where RelayVideoSendLoopAsync is
  decoder      \* per track: the client decoder's reference chain

vars == <<session, taint, recovered, queue, producer, gap, started, forceKey,
          mayRequest, sender, decoder>>

sessionVars == <<session, mayRequest>>
generationVars == <<taint, recovered>>
producerVars == <<producer, gap, started, forceKey>>

-----------------------------------------------------------------------------
(* What may be missing in front of a frame: "none"; "skipped", frames the   *)
(* producer discarded without tainting the track; "lost", a frame whose loss *)
(* tainted the track.                                                       *)
Gaps == {"none", "skipped", "lost"}

Frames == [track : Tracks, key : BOOLEAN, gen : Nat, gap : Gaps]

ProducerSteps == {"idle", "check", "stamp", "write", "taint", "request"}
Producers == [step : ProducerSteps, key : BOOLEAN, gen : Nat]

SenderIdle == [step |-> "idle"]
SenderSteps == {"check", "send", "fail", "request", "complete", "recover"}
Senders == {SenderIdle} \cup [step : SenderSteps, frame : Frames, chunk : 0 .. Chunks - 1]

(* The client decoder's chain: "unanchored" before the first IDR, "intact", *)
(* "skipped" after a P-frame whose reference was discarded, "lost" after a  *)
(* frame that was cut short or suppressed by the send loop.                 *)
Chains == {"unanchored", "intact", "skipped", "lost"}

TypeOK ==
  /\ session \in {"live", "closing", "closed"}
  /\ taint \in [Tracks -> Nat]
  /\ recovered \in [Tracks -> Nat]
  /\ queue \in Seq(Frames)
  /\ producer \in [Tracks -> Producers]
  /\ gap \in [Tracks -> Gaps]
  /\ started \in [Tracks -> BOOLEAN]
  /\ forceKey \in [Tracks -> BOOLEAN]
  /\ mayRequest \in BOOLEAN
  /\ sender \in Senders
  /\ decoder \in [Tracks -> Chains]

At(step, key, gen) == [step |-> step, key |-> key, gen |-> gen]
ProducerIdle == At("idle", FALSE, 0)

(* A new RelayMediaWorkerSession starts every track tainted; the streamer    *)
(* has just forced an IDR on every track.  SentFrames may still be that of   *)
(* the direct session when the first callback arrives.                      *)
Init ==
  /\ session = "live"
  /\ taint = [t \in Tracks |-> 1]
  /\ recovered = [t \in Tracks |-> 0]
  /\ queue = << >>
  /\ producer = [t \in Tracks |-> ProducerIdle]
  /\ gap = [t \in Tracks |-> "none"]
  /\ started \in [Tracks -> BOOLEAN]
  /\ forceKey = [t \in Tracks |-> TRUE]
  /\ mayRequest = TRUE
  /\ sender = SenderIdle
  /\ decoder = [t \in Tracks |-> "unanchored"]

-----------------------------------------------------------------------------
(* RelayKeyframeRecoveryState                                               *)
IsWaitingForKeyframe(t) == taint[t] # recovered[t]

MarkTainted(t) ==
  /\ taint' = [taint EXCEPT ![t] = @ + 1]
  /\ UNCHANGED recovered

(* Mutant: a P-frame is suppressed only when its own stamp is out of date.   *)
ShouldSuppressByStamp(f) == ~f.key /\ f.gen # taint[f.track]

ShouldSuppress(f) == ~f.key /\ IsWaitingForKeyframe(f.track)

MayComplete(f) == f.key /\ taint[f.track] = f.gen

(* RequestRelayRecoveryKeyframe: one request a second, shared by all tracks. *)
RequestRecoveryKeyframe(t) ==
  \/ /\ mayRequest
     /\ mayRequest' = FALSE
     /\ forceKey' = [forceKey EXCEPT ![t] = TRUE]
  \/ /\ ~mayRequest
     /\ UNCHANGED <<mayRequest, forceKey>>

SecondElapses ==
  /\ ~mayRequest
  /\ mayRequest' = TRUE
  /\ UNCHANGED <<session, taint, recovered, queue, producerVars, sender, decoder>>

-----------------------------------------------------------------------------
(* Producers: the encoder callback of each track.                           *)

(* Frames dropped without tainting leave a "skipped" gap unless the gap      *)
(* already holds a loss.                                                    *)
Skip(t) == gap' = [gap EXCEPT ![t] = IF @ = "lost" THEN @ ELSE "skipped"]

AtStep(t, s) == producer[t].step = s
GoTo(t, step, key, gen) == producer' = [producer EXCEPT ![t] = At(step, key, gen)]

(* The encoder delivers a frame to the relay callbacks, which return at once *)
(* when the relay is not live: EnqueueRelayVideoFrame for a frame that fits   *)
(* the chunk limit, HandleRelayVideoFrameDropped for one that does not.  A   *)
(* forced IDR consumes the request; a P-frame may be one the hardware        *)
(* pipeline drains before the IDR, and the reset of ForceNextKeyframe after   *)
(* its read may swallow a request.                                           *)
Encode(t, key, fits) ==
  /\ session = "live"
  /\ AtStep(t, "idle")
  /\ key \/ started[t]
  /\ fits \/ taint[t] < MaxTaint
  /\ IF key THEN forceKey' = [forceKey EXCEPT ![t] = FALSE]
            ELSE \E kept \in BOOLEAN :
                   forceKey' = [forceKey EXCEPT ![t] = @ /\ kept]
  /\ producer' = [producer EXCEPT ![t] = IF fits THEN At("check", key, 0)
                                                 ELSE At("taint", FALSE, 0)]
  /\ UNCHANGED <<sessionVars, generationVars, queue, gap, started, sender, decoder>>

(* A P-frame in front of the session's first IDR is dropped and re-arms it.  *)
EncodeStale(t) ==
  /\ session = "live"
  /\ AtStep(t, "idle")
  /\ ~started[t]
  /\ forceKey' = [forceKey EXCEPT ![t] = TRUE]
  /\ Skip(t)
  /\ UNCHANGED <<sessionVars, generationVars, queue, producer, started, sender, decoder>>

(* Mutant: suppressing a P-frame does not ask for an IDR.                    *)
SuppressSilently(t) ==
  /\ AtStep(t, "check")
  /\ IsWaitingForKeyframe(t) /\ ~producer[t].key
  /\ GoTo(t, "idle", FALSE, 0)
  /\ Skip(t)
  /\ UNCHANGED <<sessionVars, generationVars, queue, started, forceKey, sender, decoder>>

SuppressAtEnqueue(t) ==
  /\ AtStep(t, "check")
  /\ IsWaitingForKeyframe(t) /\ ~producer[t].key
  /\ GoTo(t, "request", FALSE, 0)
  /\ Skip(t)
  /\ UNCHANGED <<sessionVars, generationVars, queue, started, forceKey, sender, decoder>>

AdmitToQueue(t) ==
  /\ AtStep(t, "check")
  /\ ~(IsWaitingForKeyframe(t) /\ ~producer[t].key)
  /\ GoTo(t, "stamp", producer[t].key, 0)
  /\ UNCHANGED <<sessionVars, generationVars, queue, gap, started, forceKey,
                 sender, decoder>>

StampGeneration(t) ==
  /\ AtStep(t, "stamp")
  /\ GoTo(t, "write", producer[t].key, taint[t])
  /\ UNCHANGED <<sessionVars, generationVars, queue, gap, started, forceKey,
                 sender, decoder>>

HasRoom == session # "closed" /\ Len(queue) < Capacity

NewFrame(t) == [track |-> t, key |-> producer[t].key, gen |-> producer[t].gen,
                gap |-> IF producer[t].key THEN "none" ELSE gap[t]]

TryWriteOk(t) ==
  /\ AtStep(t, "write")
  /\ HasRoom
  /\ queue' = Append(queue, NewFrame(t))
  /\ producer' = [producer EXCEPT ![t] = ProducerIdle]
  /\ gap' = [gap EXCEPT ![t] = "none"]
  /\ started' = [started EXCEPT ![t] = TRUE]
  /\ UNCHANGED <<sessionVars, generationVars, forceKey, sender, decoder>>

TryWriteFull(t) ==
  /\ AtStep(t, "write")
  /\ ~HasRoom
  /\ taint[t] < MaxTaint \/ session = "closed"
  /\ GoTo(t, "taint", FALSE, 0)
  /\ UNCHANGED <<sessionVars, generationVars, queue, gap, started, forceKey,
                 sender, decoder>>

TaintAtProducer(t) ==
  /\ AtStep(t, "taint")
  /\ MarkTainted(t)
  /\ gap' = [gap EXCEPT ![t] = "lost"]
  /\ GoTo(t, "request", FALSE, 0)
  /\ UNCHANGED <<sessionVars, queue, started, forceKey, sender, decoder>>

RequestAtProducer(t) ==
  /\ AtStep(t, "request")
  /\ RequestRecoveryKeyframe(t)
  /\ producer' = [producer EXCEPT ![t] = ProducerIdle]
  /\ started' = [started EXCEPT ![t] = TRUE]
  /\ UNCHANGED <<session, generationVars, queue, gap, sender, decoder>>

-----------------------------------------------------------------------------
(* The send loop: a single consumer.                                        *)
SenderAt(s) == sender.step = s
SenderGoTo(s) == sender' = [sender EXCEPT !.step = s]
ChainBecomes(t, c) == decoder' = [decoder EXCEPT ![t] = c]

(* Mutant: the loop checks the session before it reads, and leaves the rest. *)
DequeueWhileLive ==
  /\ session = "live"
  /\ SenderAt("idle")
  /\ queue # << >>
  /\ queue' = Tail(queue)
  /\ sender' = [step |-> "check", frame |-> Head(queue), chunk |-> 0]
  /\ UNCHANGED <<sessionVars, generationVars, producerVars, decoder>>

Dequeue ==
  /\ SenderAt("idle")
  /\ queue # << >>
  /\ queue' = Tail(queue)
  /\ sender' = [step |-> "check", frame |-> Head(queue), chunk |-> 0]
  /\ UNCHANGED <<sessionVars, generationVars, producerVars, decoder>>

(* The frame of a session that is over is discarded, sent or half-sent.      *)
AbandonFrame ==
  /\ SenderAt("check") \/ SenderAt("send")
  /\ session # "live"
  /\ sender' = SenderIdle
  /\ ChainBecomes(sender.frame.track, "lost")
  /\ UNCHANGED <<sessionVars, generationVars, queue, producerVars>>

SuppressAtSend ==
  /\ SenderAt("check")
  /\ session = "live"
  /\ ShouldSuppress(sender.frame)
  /\ sender' = SenderIdle
  /\ ChainBecomes(sender.frame.track, "lost")
  /\ UNCHANGED <<sessionVars, generationVars, queue, producerVars>>

StartSend ==
  /\ SenderAt("check")
  /\ session = "live"
  /\ ~ShouldSuppress(sender.frame)
  /\ SenderGoTo("send")
  /\ UNCHANGED <<sessionVars, generationVars, queue, producerVars, decoder>>

(* The client has the whole frame: an IDR anchors its chain, a P-frame keeps *)
(* the chain only if nothing in front of it is missing.                     *)
Received(f) ==
  IF f.key THEN "intact"
  ELSE IF f.gap = "none" THEN decoder[f.track]
  ELSE f.gap

(* Mutant: the chunk counter runs one past the last chunk.                   *)
SendChunkOffByOne ==
  /\ SenderAt("send")
  /\ session = "live"
  /\ sender.chunk + 1 <= Chunks
  /\ sender' = [sender EXCEPT !.chunk = @ + 1]
  /\ UNCHANGED <<sessionVars, generationVars, queue, producerVars, decoder>>

SendChunk ==
  /\ SenderAt("send")
  /\ session = "live"
  /\ sender.chunk + 1 < Chunks
  /\ sender' = [sender EXCEPT !.chunk = @ + 1]
  /\ UNCHANGED <<sessionVars, generationVars, queue, producerVars, decoder>>

SendLastChunk ==
  /\ SenderAt("send")
  /\ session = "live"
  /\ sender.chunk + 1 = Chunks
  /\ \/ sender.frame.key /\ SenderGoTo("complete")
     \/ ~sender.frame.key /\ sender' = SenderIdle
  /\ ChainBecomes(sender.frame.track, Received(sender.frame))
  /\ UNCHANGED <<sessionVars, generationVars, queue, producerVars>>

(* SendBytesAsync reports failure; the rest of the frame is not sent.        *)
SendChunkFails ==
  /\ SenderAt("send")
  /\ session = "live"
  /\ taint[sender.frame.track] < MaxTaint
  /\ SenderGoTo("fail")
  /\ ChainBecomes(sender.frame.track, "lost")
  /\ UNCHANGED <<sessionVars, generationVars, queue, producerVars>>

(* Mutant: a failed chunk requests an IDR without tainting the track.        *)
RequestWithoutTaint ==
  /\ SenderAt("fail")
  /\ session = "live"
  /\ SenderGoTo("request")
  /\ UNCHANGED <<sessionVars, generationVars, queue, producerVars, decoder>>

TaintAtSender ==
  /\ SenderAt("fail")
  /\ session = "live"
  /\ MarkTainted(sender.frame.track)
  /\ SenderGoTo("request")
  /\ UNCHANGED <<sessionVars, queue, producerVars, decoder>>

(* A chunk that fails because the session is over taints nothing.            *)
IgnoreFailure ==
  /\ SenderAt("fail")
  /\ session # "live"
  /\ sender' = SenderIdle
  /\ UNCHANGED <<sessionVars, generationVars, queue, producerVars, decoder>>

RequestAtSender ==
  /\ SenderAt("request")
  /\ RequestRecoveryKeyframe(sender.frame.track)
  /\ sender' = SenderIdle
  /\ UNCHANGED <<session, generationVars, queue, producer, gap, started, decoder>>

(* TryCompleteKeyframe, its read and its write.                             *)
CheckComplete ==
  /\ SenderAt("complete")
  /\ \/ MayComplete(sender.frame) /\ SenderGoTo("recover")
     \/ ~MayComplete(sender.frame) /\ sender' = SenderIdle
  /\ UNCHANGED <<sessionVars, generationVars, queue, producerVars, decoder>>

(* Mutant: the write re-reads the taint instead of the stamp it compared.    *)
WriteCurrentTaint ==
  /\ SenderAt("recover")
  /\ recovered' = [recovered EXCEPT ![sender.frame.track] = taint[sender.frame.track]]
  /\ sender' = SenderIdle
  /\ UNCHANGED <<sessionVars, taint, queue, producerVars, decoder>>

WriteRecovered ==
  /\ SenderAt("recover")
  /\ recovered' = [recovered EXCEPT ![sender.frame.track] = sender.frame.gen]
  /\ sender' = SenderIdle
  /\ UNCHANGED <<sessionVars, taint, queue, producerVars, decoder>>

-----------------------------------------------------------------------------
(* Leaving the relay: the mode flag first, then StopAsync.                   *)
ClearRelayMode ==
  /\ MayLeave
  /\ session = "live"
  /\ session' = "closing"
  /\ UNCHANGED <<generationVars, queue, producerVars, mayRequest, sender, decoder>>

StopWorkers ==
  /\ session = "closing"
  /\ session' = "closed"
  /\ UNCHANGED <<generationVars, queue, producerVars, mayRequest, sender, decoder>>

-----------------------------------------------------------------------------
Produce(t) ==
  \/ \E key, fits \in BOOLEAN : Encode(t, key, fits)
  \/ EncodeStale(t)
  \/ SuppressAtEnqueue(t) \/ AdmitToQueue(t)
  \/ StampGeneration(t)
  \/ TryWriteOk(t) \/ TryWriteFull(t)
  \/ TaintAtProducer(t) \/ RequestAtProducer(t)

SendLoop ==
  \/ Dequeue \/ AbandonFrame \/ SuppressAtSend \/ StartSend
  \/ SendChunk \/ SendLastChunk
  \/ TaintAtSender \/ IgnoreFailure \/ RequestAtSender
  \/ CheckComplete \/ WriteRecovered

Next ==
  \/ \E t \in Tracks : Produce(t)
  \/ SendLoop \/ SendChunkFails
  \/ SecondElapses
  \/ ClearRelayMode
  \/ StopWorkers

Spec == Init /\ [][Next]_vars

(* Threads run; the capture keeps delivering frames; an encoder asked for an *)
(* IDR again and again produces one that fits the relay's chunk limit.      *)
EncodesRequestedKeyframe(t) ==
  /\ forceKey[t]
  /\ Encode(t, TRUE, TRUE)

Fairness ==
  /\ WF_vars(SendLoop)
  /\ WF_vars(SecondElapses)
  /\ \A t \in Tracks :
       /\ WF_vars(Produce(t))
       /\ SF_vars(EncodesRequestedKeyframe(t)) /\ SF_vars(TryWriteOk(t))

FairSpec == Spec /\ Fairness

-----------------------------------------------------------------------------
(* PhaseProtocolHandler.RelayMedia.cs:453-458.  While the send loop puts the *)
(* chunks of a P-frame on the socket, no frame whose loss tainted the track  *)
(* is missing between the client's last complete IDR and this frame,        *)
(* whatever producers and losses interleave with the loop.                  *)
PFrameNeverFollowsLoss ==
  SenderAt("send") /\ ~sender.frame.key =>
    /\ decoder[sender.frame.track] \in {"intact", "skipped"}
    /\ sender.frame.gap # "lost"

(* A track that is not waiting for a key frame has an anchored client        *)
(* decoder, unless the send loop is between a failed chunk and its taint: a  *)
(* recovery generation can never be completed by an IDR older than the loss. *)
RecoveredMeansAnchored ==
  \A t \in Tracks :
    ~IsWaitingForKeyframe(t) =>
      \/ decoder[t] \in {"intact", "skipped"}
      \/ session # "live"
      \/ SenderAt("fail") /\ sender.frame.track = t

(* After a tainting loss at the producer nothing already queued or in        *)
(* flight can end the wait of that track: only an IDR encoded later can.     *)
OnlyFreshIdrRecovers ==
  \A t \in Tracks :
    gap[t] = "lost" =>
      /\ IsWaitingForKeyframe(t)
      /\ \A i \in 1 .. Len(queue) : queue[i].track = t => queue[i].gen # taint[t]
      /\ ~SenderAt("idle") /\ sender.frame.track = t => sender.frame.gen # taint[t]

(* Comment at RelayMedia.cs:457: after a dropped frame, the P-frames that     *)
(* reference it are discarded until a fresh IDR makes it through.  The code   *)
(* does not keep it for the P-frames it discards at enqueue time itself.     *)
ReferenceChainIntact ==
  SenderAt("send") /\ ~sender.frame.key =>
    decoder[sender.frame.track] = "intact" /\ sender.frame.gap = "none"

(* A waiting track of a live session is eventually re-anchored once losses   *)
(* stop: the shared one-per-second limiter and requests swallowed by the     *)
(* encoder's read-then-reset cannot starve it.                              *)
TrackRecovers ==
  \A t \in Tracks :
    (session = "live" /\ IsWaitingForKeyframe(t))
      ~> (~IsWaitingForKeyframe(t) \/ session # "live")

(* Once StopAsync has completed the writer, the queue is drained for good:   *)
(* no frame of the old session stays behind.                                *)
ClosedQueueDrains == session = "closed" ~> [](queue = << >>)
=============================================================================

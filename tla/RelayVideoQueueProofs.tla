------------------------ MODULE RelayVideoQueueProofs ------------------------
(***************************************************************************)
(* RelayVideoQueue keeps its type and its three recovery invariants for    *)
(* every set of tracks, capacity, chunk count and loss bound.              *)
(***************************************************************************)
EXTENDS RelayVideoQueue, TLAPS

Sending == [step : SenderSteps, frame : Frames, chunk : 0 .. Chunks - 1]

(* No generation in circulation is ahead of its track's taint generation.    *)
RecoveredBounded == \A t \in Tracks : recovered[t] <= taint[t]
StampBounded == \A t \in Tracks : producer[t].gen <= taint[t]
QueueBounded == \A i \in 1 .. Len(queue) : queue[i].gen <= taint[queue[i].track]
InFlightBounded == ~SenderAt("idle") => sender.frame.gen <= taint[sender.frame.track]

(* A P-frame past the producer's check has no loss in front of it.           *)
AdmittedClean ==
  \A t \in Tracks : producer[t].step \in {"stamp", "write"} /\ ~producer[t].key
                       => gap[t] # "lost"
QueueClean == \A i \in 1 .. Len(queue) : queue[i].gap # "lost"
InFlightClean == ~SenderAt("idle") => sender.frame.gap # "lost"

(* A key frame the loop is about to complete has reached the client whole.   *)
CompletedIsDelivered ==
  sender.step \in {"complete", "recover"} => decoder[sender.frame.track] = "intact"

IInv ==
  /\ TypeOK
  /\ RecoveredBounded /\ StampBounded /\ QueueBounded /\ InFlightBounded
  /\ AdmittedClean /\ QueueClean /\ InFlightClean
  /\ CompletedIsDelivered
  /\ OnlyFreshIdrRecovers
  /\ RecoveredMeansAnchored
  /\ PFrameNeverFollowsLoss

-----------------------------------------------------------------------------
(* The initial states satisfy the invariant.                                *)
LEMMA InitIInv == Init => IInv
<1> SUFFICES ASSUME Init PROVE IInv
  OBVIOUS
<1> USE DEF Init
<1>1. TypeOK
  BY DEF TypeOK, Frames, Producers, ProducerSteps, ProducerIdle, At, Senders, SenderIdle,
     Gaps, Chains
<1>2. RecoveredBounded /\ StampBounded /\ QueueBounded /\ InFlightBounded
  BY DEF RecoveredBounded, StampBounded, QueueBounded, InFlightBounded,
         SenderAt, SenderIdle, ProducerIdle, At
<1>3. AdmittedClean /\ QueueClean /\ InFlightClean /\ CompletedIsDelivered
  BY DEF AdmittedClean, QueueClean, InFlightClean, CompletedIsDelivered,
         SenderAt, SenderIdle, ProducerIdle, At
<1>4. OnlyFreshIdrRecovers /\ RecoveredMeansAnchored /\ PFrameNeverFollowsLoss
  BY DEF OnlyFreshIdrRecovers, RecoveredMeansAnchored, PFrameNeverFollowsLoss,
         IsWaitingForKeyframe, SenderAt, SenderIdle
<1> QED
  BY <1>1, <1>2, <1>3, <1>4 DEF IInv

(* A sender that is not idle holds a frame.                                 *)
LEMMA BusySender == ASSUME TypeOK, ~SenderAt("idle") PROVE sender \in Sending
BY DEF TypeOK, Senders, SenderIdle, Sending, SenderAt

(* Typed accessors, so that the leaves below need no record arithmetic.      *)
LEMMA FrameTypes ==
  ASSUME TypeOK
  PROVE  /\ \A i \in 1 .. Len(queue) :
              queue[i] \in Frames /\ queue[i].track \in Tracks /\ queue[i].gen \in Nat
         /\ ~SenderAt("idle") =>
              /\ sender.frame \in Frames
              /\ sender.frame.track \in Tracks
              /\ sender.frame.gen \in Nat
         /\ \A t \in Tracks : taint[t] \in Nat /\ recovered[t] \in Nat /\ producer[t].gen \in Nat
<1>1. \A i \in 1 .. Len(queue) : queue[i] \in Frames
  BY DEF TypeOK
<1>2. \A f \in Frames : f.track \in Tracks /\ f.gen \in Nat
  BY DEF Frames
<1>3. ~SenderAt("idle") => sender.frame \in Frames
  BY BusySender DEF Sending
<1>4. \A t \in Tracks : taint[t] \in Nat /\ recovered[t] \in Nat /\ producer[t].gen \in Nat
  BY DEF TypeOK, Producers
<1> QED
  BY <1>1, <1>2, <1>3, <1>4

(* The producers' steps.                                                    *)
(* A callback starts: the frame carries no generation yet. *)
LEMMA EncodeStep == ASSUME IInv, NEW t \in Tracks, NEW key \in BOOLEAN, NEW fits \in BOOLEAN, Encode(t, key, fits) PROVE IInv'
<1> USE DEF Encode, sessionVars, generationVars, AtStep, At, SenderAt
<1>0. TypeOK
  BY DEF IInv
<1>1. TypeOK'
  BY <1>0 DEF TypeOK, Producers, ProducerSteps
<1>2. StampBounded'
  BY <1>0, FrameTypes DEF IInv, TypeOK, StampBounded
<1>3. AdmittedClean'
  BY <1>0, FrameTypes DEF IInv, TypeOK, AdmittedClean
<1>4. (RecoveredBounded /\ QueueBounded /\ InFlightBounded /\ QueueClean /\ InFlightClean /\
     CompletedIsDelivered /\ OnlyFreshIdrRecovers /\ RecoveredMeansAnchored /\
     PFrameNeverFollowsLoss)'
  BY DEF IInv, RecoveredBounded, QueueBounded, InFlightBounded, QueueClean, InFlightClean,
     CompletedIsDelivered, OnlyFreshIdrRecovers, RecoveredMeansAnchored,
     PFrameNeverFollowsLoss, IsWaitingForKeyframe
<1> QED
  BY <1>1, <1>2, <1>3, <1>4 DEF IInv

(* A P-frame in front of the first IDR leaves a gap, never a cleaner one. *)
LEMMA EncodeStaleStep == ASSUME IInv, NEW t \in Tracks, EncodeStale(t) PROVE IInv'
<1> USE DEF EncodeStale, sessionVars, generationVars, AtStep, Skip, SenderAt
<1>0. TypeOK
  BY DEF IInv
<1>1. TypeOK'
  BY <1>0 DEF TypeOK, Gaps
<1>2. AdmittedClean'
  BY <1>0, FrameTypes DEF IInv, TypeOK, AdmittedClean
<1>3. OnlyFreshIdrRecovers'
  BY <1>0, FrameTypes DEF IInv, TypeOK, OnlyFreshIdrRecovers, IsWaitingForKeyframe
<1>4. (RecoveredBounded /\ StampBounded /\ QueueBounded /\ InFlightBounded /\ QueueClean /\
     InFlightClean /\ CompletedIsDelivered /\ RecoveredMeansAnchored /\
     PFrameNeverFollowsLoss)'
  BY DEF IInv, RecoveredBounded, StampBounded, QueueBounded, InFlightBounded, QueueClean,
     InFlightClean, CompletedIsDelivered, RecoveredMeansAnchored, PFrameNeverFollowsLoss,
     IsWaitingForKeyframe
<1> QED
  BY <1>1, <1>2, <1>3, <1>4 DEF IInv

(* A suppressed P-frame never hides a loss: Skip keeps a "lost" gap. *)
LEMMA SuppressAtEnqueueStep == ASSUME IInv, NEW t \in Tracks, SuppressAtEnqueue(t) PROVE IInv'
<1> USE DEF SuppressAtEnqueue, sessionVars, generationVars, AtStep, At, GoTo, Skip, SenderAt
<1>0. TypeOK
  BY DEF IInv
<1>1. TypeOK'
  BY <1>0 DEF TypeOK, Producers, ProducerSteps, Gaps
<1>2. StampBounded'
  BY <1>0, FrameTypes DEF IInv, TypeOK, StampBounded
<1>3. AdmittedClean'
  BY <1>0, FrameTypes DEF IInv, TypeOK, AdmittedClean
<1>4. OnlyFreshIdrRecovers'
  BY <1>0, FrameTypes DEF IInv, TypeOK, OnlyFreshIdrRecovers, IsWaitingForKeyframe
<1>5. (RecoveredBounded /\ QueueBounded /\ InFlightBounded /\ QueueClean /\ InFlightClean /\
     CompletedIsDelivered /\ RecoveredMeansAnchored /\ PFrameNeverFollowsLoss)'
  BY DEF IInv, RecoveredBounded, QueueBounded, InFlightBounded, QueueClean, InFlightClean,
     CompletedIsDelivered, RecoveredMeansAnchored, PFrameNeverFollowsLoss,
     IsWaitingForKeyframe
<1> QED
  BY <1>1, <1>2, <1>3, <1>4, <1>5 DEF IInv

(* A P-frame is admitted only off the wait, hence with no loss in front of it. *)
LEMMA AdmitToQueueStep == ASSUME IInv, NEW t \in Tracks, AdmitToQueue(t) PROVE IInv'
<1> USE DEF AdmitToQueue, sessionVars, generationVars, AtStep, At, GoTo, SenderAt
<1>0. TypeOK
  BY DEF IInv
<1>1. TypeOK'
  BY <1>0 DEF TypeOK, Producers, ProducerSteps
<1>2. StampBounded'
  BY <1>0, FrameTypes DEF IInv, TypeOK, StampBounded
<1>3. AdmittedClean'
  BY <1>0, FrameTypes DEF IInv, TypeOK, AdmittedClean, OnlyFreshIdrRecovers,
     IsWaitingForKeyframe
<1>4. (RecoveredBounded /\ QueueBounded /\ InFlightBounded /\ QueueClean /\ InFlightClean /\
     CompletedIsDelivered /\ OnlyFreshIdrRecovers /\ RecoveredMeansAnchored /\
     PFrameNeverFollowsLoss)'
  BY DEF IInv, RecoveredBounded, QueueBounded, InFlightBounded, QueueClean, InFlightClean,
     CompletedIsDelivered, OnlyFreshIdrRecovers, RecoveredMeansAnchored,
     PFrameNeverFollowsLoss, IsWaitingForKeyframe
<1> QED
  BY <1>1, <1>2, <1>3, <1>4 DEF IInv

(* The stamp is the current taint generation. *)
LEMMA StampGenerationStep == ASSUME IInv, NEW t \in Tracks, StampGeneration(t) PROVE IInv'
<1> USE DEF StampGeneration, sessionVars, generationVars, AtStep, At, GoTo, SenderAt
<1>0. TypeOK
  BY DEF IInv
<1>1. TypeOK'
  BY <1>0 DEF TypeOK, Producers, ProducerSteps
<1>2. StampBounded'
  BY <1>0, FrameTypes DEF IInv, TypeOK, StampBounded
<1>3. AdmittedClean'
  BY <1>0, FrameTypes DEF IInv, TypeOK, AdmittedClean
<1>4. (RecoveredBounded /\ QueueBounded /\ InFlightBounded /\ QueueClean /\ InFlightClean /\
     CompletedIsDelivered /\ OnlyFreshIdrRecovers /\ RecoveredMeansAnchored /\
     PFrameNeverFollowsLoss)'
  BY DEF IInv, RecoveredBounded, QueueBounded, InFlightBounded, QueueClean, InFlightClean,
     CompletedIsDelivered, OnlyFreshIdrRecovers, RecoveredMeansAnchored,
     PFrameNeverFollowsLoss, IsWaitingForKeyframe
<1> QED
  BY <1>1, <1>2, <1>3, <1>4 DEF IInv

(* The queued frame is stamped, clean, and closes the gap of its track. *)
LEMMA TryWriteOkStep == ASSUME IInv, NEW t \in Tracks, TryWriteOk(t) PROVE IInv'
<1> USE DEF TryWriteOk, sessionVars, generationVars, AtStep, At, ProducerIdle, NewFrame,
     SenderAt
<1>0. TypeOK
  BY DEF IInv
<1>1. TypeOK'
  BY <1>0 DEF TypeOK, Producers, ProducerSteps, Frames, Gaps
<1>2. StampBounded'
  BY <1>0, FrameTypes DEF IInv, TypeOK, StampBounded
<1>3. QueueBounded'
  <2>1. /\ Len(queue') = Len(queue) + 1
        /\ queue'[Len(queue) + 1] = NewFrame(t)
        /\ \A i \in 1 .. Len(queue) : queue'[i] = queue[i]
    BY <1>0 DEF TypeOK
  <2>2. NewFrame(t).gen <= taint[t]
    BY DEF IInv, StampBounded
  <2> QED
    BY <1>0, <2>1, <2>2 DEF IInv, TypeOK, QueueBounded
<1>4. AdmittedClean'
  BY <1>0, FrameTypes DEF IInv, TypeOK, AdmittedClean
<1>5. QueueClean'
  <2>1. /\ Len(queue') = Len(queue) + 1
        /\ queue'[Len(queue) + 1] = NewFrame(t)
        /\ \A i \in 1 .. Len(queue) : queue'[i] = queue[i]
    BY <1>0 DEF TypeOK
  <2>2. NewFrame(t).gap # "lost"
    BY DEF IInv, AdmittedClean
  <2> QED
    BY <1>0, <2>1, <2>2 DEF IInv, TypeOK, QueueClean
<1>6. OnlyFreshIdrRecovers'
  BY <1>0, FrameTypes DEF IInv, TypeOK, OnlyFreshIdrRecovers, IsWaitingForKeyframe
<1>7. (RecoveredBounded /\ InFlightBounded /\ InFlightClean /\ CompletedIsDelivered /\
     RecoveredMeansAnchored /\ PFrameNeverFollowsLoss)'
  BY DEF IInv, RecoveredBounded, InFlightBounded, InFlightClean, CompletedIsDelivered,
     RecoveredMeansAnchored, PFrameNeverFollowsLoss, IsWaitingForKeyframe
<1> QED
  BY <1>1, <1>2, <1>3, <1>4, <1>5, <1>6, <1>7 DEF IInv

(* The failed write leads to the taint; nothing is lost yet. *)
LEMMA TryWriteFullStep == ASSUME IInv, NEW t \in Tracks, TryWriteFull(t) PROVE IInv'
<1> USE DEF TryWriteFull, sessionVars, generationVars, AtStep, At, GoTo, SenderAt
<1>0. TypeOK
  BY DEF IInv
<1>1. TypeOK'
  BY <1>0 DEF TypeOK, Producers, ProducerSteps
<1>2. StampBounded'
  BY <1>0, FrameTypes DEF IInv, TypeOK, StampBounded
<1>3. AdmittedClean'
  BY <1>0, FrameTypes DEF IInv, TypeOK, AdmittedClean
<1>4. (RecoveredBounded /\ QueueBounded /\ InFlightBounded /\ QueueClean /\ InFlightClean /\
     CompletedIsDelivered /\ OnlyFreshIdrRecovers /\ RecoveredMeansAnchored /\
     PFrameNeverFollowsLoss)'
  BY DEF IInv, RecoveredBounded, QueueBounded, InFlightBounded, QueueClean, InFlightClean,
     CompletedIsDelivered, OnlyFreshIdrRecovers, RecoveredMeansAnchored,
     PFrameNeverFollowsLoss, IsWaitingForKeyframe
<1> QED
  BY <1>1, <1>2, <1>3, <1>4 DEF IInv

(* The new taint generation is above every generation in circulation. *)
LEMMA TaintAtProducerStep == ASSUME IInv, NEW t \in Tracks, TaintAtProducer(t) PROVE IInv'
<1> USE DEF TaintAtProducer, sessionVars, AtStep, At, GoTo, MarkTainted, SenderAt
<1>0. TypeOK
  BY DEF IInv
<1>1. TypeOK'
  BY <1>0 DEF TypeOK, Producers, ProducerSteps, Gaps
<1>2. RecoveredBounded'
  BY <1>0, FrameTypes DEF IInv, TypeOK, RecoveredBounded
<1>3. StampBounded'
  BY <1>0, FrameTypes DEF IInv, TypeOK, StampBounded
<1>4. QueueBounded'
  BY <1>0, FrameTypes DEF IInv, TypeOK, QueueBounded
<1>5. InFlightBounded'
  BY <1>0, FrameTypes DEF IInv, TypeOK, InFlightBounded
<1>6. AdmittedClean'
  BY <1>0, FrameTypes DEF IInv, TypeOK, AdmittedClean
<1>7. OnlyFreshIdrRecovers'
  BY <1>0, FrameTypes DEF IInv, TypeOK, OnlyFreshIdrRecovers, IsWaitingForKeyframe,
     RecoveredBounded, QueueBounded, InFlightBounded
<1>8. RecoveredMeansAnchored'
  BY <1>0, FrameTypes DEF IInv, TypeOK, RecoveredMeansAnchored, IsWaitingForKeyframe,
     RecoveredBounded
<1>9. (QueueClean /\ InFlightClean /\ CompletedIsDelivered /\ PFrameNeverFollowsLoss)'
  BY DEF IInv, QueueClean, InFlightClean, CompletedIsDelivered, PFrameNeverFollowsLoss
<1> QED
  BY <1>1, <1>2, <1>3, <1>4, <1>5, <1>6, <1>7, <1>8, <1>9 DEF IInv

(* Asking for an IDR touches neither frames nor generations. *)
LEMMA RequestAtProducerStep == ASSUME IInv, NEW t \in Tracks, RequestAtProducer(t) PROVE IInv'
<1> USE DEF RequestAtProducer, generationVars, AtStep, At, ProducerIdle,
     RequestRecoveryKeyframe, SenderAt
<1>0. TypeOK
  BY DEF IInv
<1>1. TypeOK'
  BY <1>0 DEF TypeOK, Producers, ProducerSteps
<1>2. StampBounded'
  BY <1>0, FrameTypes DEF IInv, TypeOK, StampBounded
<1>3. AdmittedClean'
  BY <1>0, FrameTypes DEF IInv, TypeOK, AdmittedClean
<1>4. (RecoveredBounded /\ QueueBounded /\ InFlightBounded /\ QueueClean /\ InFlightClean /\
     CompletedIsDelivered /\ OnlyFreshIdrRecovers /\ RecoveredMeansAnchored /\
     PFrameNeverFollowsLoss)'
  BY DEF IInv, RecoveredBounded, QueueBounded, InFlightBounded, QueueClean, InFlightClean,
     CompletedIsDelivered, OnlyFreshIdrRecovers, RecoveredMeansAnchored,
     PFrameNeverFollowsLoss, IsWaitingForKeyframe
<1> QED
  BY <1>1, <1>2, <1>3, <1>4 DEF IInv

(* The send loop's steps.                                                  *)
(* The head of a bounded and clean queue goes in flight. *)
LEMMA DequeueStep == ASSUME IInv, Dequeue PROVE IInv'
<1> USE DEF Dequeue, sessionVars, generationVars, producerVars, SenderAt, SenderIdle
<1>0. TypeOK
  BY DEF IInv
<1>1. TypeOK'
  <2>1. queue' \in Seq(Frames) /\ Head(queue) \in Frames
    BY <1>0 DEF TypeOK
  <2>2. sender' \in Sending
    BY <2>1, ChunksAssumption DEF Sending, SenderSteps
  <2> QED
    BY <1>0, <2>1, <2>2 DEF TypeOK, Senders, Sending
<1>2. QueueBounded'
  BY <1>0, FrameTypes DEF IInv, TypeOK, QueueBounded
<1>3. InFlightBounded'
  <2>1. Head(queue) = queue[1] /\ 1 \in 1 .. Len(queue)
    BY <1>0 DEF TypeOK
  <2> QED
    BY <1>0, <2>1 DEF IInv, InFlightBounded, QueueBounded
<1>4. QueueClean'
  BY <1>0, FrameTypes DEF IInv, TypeOK, QueueClean
<1>5. InFlightClean'
  BY <1>0, FrameTypes DEF IInv, TypeOK, InFlightClean, QueueClean
<1>6. CompletedIsDelivered'
  BY <1>0, FrameTypes DEF IInv, TypeOK, CompletedIsDelivered
<1>7. OnlyFreshIdrRecovers'
  BY <1>0, FrameTypes DEF IInv, TypeOK, OnlyFreshIdrRecovers, IsWaitingForKeyframe
<1>8. RecoveredMeansAnchored'
  BY <1>0, FrameTypes DEF IInv, TypeOK, RecoveredMeansAnchored, IsWaitingForKeyframe
<1>9. PFrameNeverFollowsLoss'
  BY <1>0, FrameTypes DEF IInv, TypeOK, PFrameNeverFollowsLoss
<1>10. (RecoveredBounded /\ StampBounded /\ AdmittedClean)'
  BY DEF IInv, RecoveredBounded, StampBounded, AdmittedClean
<1> QED
  BY <1>1, <1>2, <1>3, <1>4, <1>5, <1>6, <1>7, <1>8, <1>9, <1>10 DEF IInv

(* A frame of a finished session breaks the chain of a session that is over. *)
LEMMA AbandonFrameStep == ASSUME IInv, AbandonFrame PROVE IInv'
<1> USE DEF AbandonFrame, sessionVars, generationVars, producerVars, SenderAt, SenderIdle,
     ChainBecomes
<1>0. TypeOK
  BY DEF IInv
<1>a. sender \in Sending
  BY <1>0, BusySender
<1>b. sender' = SenderIdle
  BY <1>a, ChunksAssumption DEF Sending, SenderSteps
<1>1. TypeOK'
  BY <1>0, <1>a, <1>b DEF TypeOK, Senders, Chains
<1>2. InFlightBounded'
  BY <1>0, <1>a, <1>b, FrameTypes DEF IInv, TypeOK, InFlightBounded
<1>3. InFlightClean'
  BY <1>0, <1>a, <1>b, FrameTypes DEF IInv, TypeOK, InFlightClean
<1>4. CompletedIsDelivered'
  BY <1>0, <1>a, <1>b, FrameTypes DEF IInv, TypeOK, CompletedIsDelivered
<1>5. OnlyFreshIdrRecovers'
  BY <1>0, <1>a, <1>b, FrameTypes DEF IInv, TypeOK, OnlyFreshIdrRecovers, IsWaitingForKeyframe
<1>6. RecoveredMeansAnchored'
  BY <1>0, <1>a, <1>b, FrameTypes DEF IInv, TypeOK, RecoveredMeansAnchored, IsWaitingForKeyframe
<1>7. PFrameNeverFollowsLoss'
  BY <1>0, <1>a, <1>b, FrameTypes DEF IInv, TypeOK, PFrameNeverFollowsLoss
<1>8. (RecoveredBounded /\ StampBounded /\ QueueBounded /\ AdmittedClean /\ QueueClean)'
  BY DEF IInv, RecoveredBounded, StampBounded, QueueBounded, AdmittedClean, QueueClean
<1> QED
  BY <1>1, <1>2, <1>3, <1>4, <1>5, <1>6, <1>7, <1>8 DEF IInv

(* The chain breaks, and the track is waiting for a key frame. *)
LEMMA SuppressAtSendStep == ASSUME IInv, SuppressAtSend PROVE IInv'
<1> USE DEF SuppressAtSend, sessionVars, generationVars, producerVars, SenderAt, SenderIdle,
     ChainBecomes, ShouldSuppress
<1>0. TypeOK
  BY DEF IInv
<1>a. sender \in Sending
  BY <1>0, BusySender
<1>b. sender' = SenderIdle
  BY <1>a, ChunksAssumption DEF Sending, SenderSteps
<1>1. TypeOK'
  BY <1>0, <1>a, <1>b DEF TypeOK, Senders, Chains
<1>2. InFlightBounded'
  BY <1>0, <1>a, <1>b, FrameTypes DEF IInv, TypeOK, InFlightBounded
<1>3. InFlightClean'
  BY <1>0, <1>a, <1>b, FrameTypes DEF IInv, TypeOK, InFlightClean
<1>4. CompletedIsDelivered'
  BY <1>0, <1>a, <1>b, FrameTypes DEF IInv, TypeOK, CompletedIsDelivered
<1>5. OnlyFreshIdrRecovers'
  BY <1>0, <1>a, <1>b, FrameTypes DEF IInv, TypeOK, OnlyFreshIdrRecovers, IsWaitingForKeyframe
<1>6. RecoveredMeansAnchored'
  BY <1>0, <1>a, <1>b, FrameTypes DEF IInv, TypeOK, RecoveredMeansAnchored, IsWaitingForKeyframe
<1>7. PFrameNeverFollowsLoss'
  BY <1>0, <1>a, <1>b, FrameTypes DEF IInv, TypeOK, PFrameNeverFollowsLoss
<1>8. (RecoveredBounded /\ StampBounded /\ QueueBounded /\ AdmittedClean /\ QueueClean)'
  BY DEF IInv, RecoveredBounded, StampBounded, QueueBounded, AdmittedClean, QueueClean
<1> QED
  BY <1>1, <1>2, <1>3, <1>4, <1>5, <1>6, <1>7, <1>8 DEF IInv

(* A P-frame goes out only off the wait: its chain is anchored. *)
LEMMA StartSendStep == ASSUME IInv, StartSend PROVE IInv'
<1> USE DEF StartSend, sessionVars, generationVars, producerVars, SenderAt, SenderIdle,
     SenderGoTo
<1>0. TypeOK
  BY DEF IInv
<1>a. sender \in Sending
  BY <1>0, BusySender
<1>b. sender' \in Sending /\ sender'.frame = sender.frame /\ sender'.step = "send"
  BY <1>a, ChunksAssumption DEF Sending, SenderSteps
<1>1. TypeOK'
  BY <1>0, <1>a, <1>b DEF TypeOK, Senders, Sending
<1>2. InFlightBounded'
  BY <1>0, <1>a, <1>b, FrameTypes DEF IInv, TypeOK, InFlightBounded
<1>3. InFlightClean'
  BY <1>0, <1>a, <1>b, FrameTypes DEF IInv, TypeOK, InFlightClean
<1>4. CompletedIsDelivered'
  BY <1>0, <1>a, <1>b, FrameTypes DEF IInv, TypeOK, CompletedIsDelivered
<1>5. OnlyFreshIdrRecovers'
  BY <1>0, <1>a, <1>b, FrameTypes DEF IInv, TypeOK, OnlyFreshIdrRecovers, IsWaitingForKeyframe
<1>6. RecoveredMeansAnchored'
  BY <1>0, <1>a, <1>b, FrameTypes DEF IInv, TypeOK, RecoveredMeansAnchored, IsWaitingForKeyframe
<1>7. PFrameNeverFollowsLoss'
  BY <1>0, <1>a, <1>b, FrameTypes DEF IInv, TypeOK, PFrameNeverFollowsLoss, ShouldSuppress,
     RecoveredMeansAnchored, IsWaitingForKeyframe, InFlightClean
<1>8. (RecoveredBounded /\ StampBounded /\ QueueBounded /\ AdmittedClean /\ QueueClean)'
  BY DEF IInv, RecoveredBounded, StampBounded, QueueBounded, AdmittedClean, QueueClean
<1> QED
  BY <1>1, <1>2, <1>3, <1>4, <1>5, <1>6, <1>7, <1>8 DEF IInv

(* Between the chunks nothing but the position changes. *)
LEMMA SendChunkStep == ASSUME IInv, SendChunk PROVE IInv'
<1> USE DEF SendChunk, sessionVars, generationVars, producerVars, SenderAt, SenderIdle
<1>0. TypeOK
  BY DEF IInv
<1>a. sender \in Sending
  BY <1>0, BusySender
<1>b. sender' \in Sending /\ sender'.frame = sender.frame /\ sender'.step = "send"
  BY <1>a, ChunksAssumption DEF Sending, SenderSteps
<1>1. TypeOK'
  BY <1>0, <1>a, <1>b DEF TypeOK, Senders, Sending
<1>2. InFlightBounded'
  BY <1>0, <1>a, <1>b, FrameTypes DEF IInv, TypeOK, InFlightBounded
<1>3. InFlightClean'
  BY <1>0, <1>a, <1>b, FrameTypes DEF IInv, TypeOK, InFlightClean
<1>4. CompletedIsDelivered'
  BY <1>0, <1>a, <1>b, FrameTypes DEF IInv, TypeOK, CompletedIsDelivered
<1>5. OnlyFreshIdrRecovers'
  BY <1>0, <1>a, <1>b, FrameTypes DEF IInv, TypeOK, OnlyFreshIdrRecovers, IsWaitingForKeyframe
<1>6. RecoveredMeansAnchored'
  BY <1>0, <1>a, <1>b, FrameTypes DEF IInv, TypeOK, RecoveredMeansAnchored, IsWaitingForKeyframe
<1>7. PFrameNeverFollowsLoss'
  BY <1>0, <1>a, <1>b, FrameTypes DEF IInv, TypeOK, PFrameNeverFollowsLoss
<1>8. (RecoveredBounded /\ StampBounded /\ QueueBounded /\ AdmittedClean /\ QueueClean)'
  BY DEF IInv, RecoveredBounded, StampBounded, QueueBounded, AdmittedClean, QueueClean
<1> QED
  BY <1>1, <1>2, <1>3, <1>4, <1>5, <1>6, <1>7, <1>8 DEF IInv

(* A whole key frame anchors the chain, a clean P-frame keeps it anchored. *)
LEMMA SendLastChunkStep == ASSUME IInv, SendLastChunk PROVE IInv'
<1> USE DEF SendLastChunk, sessionVars, generationVars, producerVars, SenderAt, SenderIdle,
     SenderGoTo, ChainBecomes, Received
<1>0. TypeOK
  BY DEF IInv
<1>a. sender \in Sending
  BY <1>0, BusySender
<1>b. sender' = SenderIdle \/ (sender' \in Sending /\ sender'.frame = sender.frame /\
     sender'.step = "complete" /\ sender.frame.key)
  BY <1>a, ChunksAssumption DEF Sending, SenderSteps
<1>1. TypeOK'
  BY <1>0, <1>a, <1>b DEF TypeOK, Senders, Sending, Chains, Gaps, Frames
<1>2. InFlightBounded'
  BY <1>0, <1>a, <1>b, FrameTypes DEF IInv, TypeOK, InFlightBounded
<1>3. InFlightClean'
  BY <1>0, <1>a, <1>b, FrameTypes DEF IInv, TypeOK, InFlightClean
<1>4. CompletedIsDelivered'
  BY <1>0, <1>a, <1>b, FrameTypes DEF IInv, TypeOK, CompletedIsDelivered
<1>5. OnlyFreshIdrRecovers'
  BY <1>0, <1>a, <1>b, FrameTypes DEF IInv, TypeOK, OnlyFreshIdrRecovers, IsWaitingForKeyframe
<1>6. RecoveredMeansAnchored'
  BY <1>0, <1>a, <1>b, FrameTypes DEF IInv, TypeOK, RecoveredMeansAnchored,
     IsWaitingForKeyframe, InFlightClean, Gaps, Frames
<1>7. PFrameNeverFollowsLoss'
  BY <1>0, <1>a, <1>b, FrameTypes DEF IInv, TypeOK, PFrameNeverFollowsLoss
<1>8. (RecoveredBounded /\ StampBounded /\ QueueBounded /\ AdmittedClean /\ QueueClean)'
  BY DEF IInv, RecoveredBounded, StampBounded, QueueBounded, AdmittedClean, QueueClean
<1> QED
  BY <1>1, <1>2, <1>3, <1>4, <1>5, <1>6, <1>7, <1>8 DEF IInv

(* The chain breaks with the loop on its way to taint the track. *)
LEMMA SendChunkFailsStep == ASSUME IInv, SendChunkFails PROVE IInv'
<1> USE DEF SendChunkFails, sessionVars, generationVars, producerVars, SenderAt, SenderIdle,
     SenderGoTo, ChainBecomes
<1>0. TypeOK
  BY DEF IInv
<1>a. sender \in Sending
  BY <1>0, BusySender
<1>b. sender' \in Sending /\ sender'.frame = sender.frame /\ sender'.step = "fail"
  BY <1>a, ChunksAssumption DEF Sending, SenderSteps
<1>1. TypeOK'
  BY <1>0, <1>a, <1>b DEF TypeOK, Senders, Sending, Chains
<1>2. InFlightBounded'
  BY <1>0, <1>a, <1>b, FrameTypes DEF IInv, TypeOK, InFlightBounded
<1>3. InFlightClean'
  BY <1>0, <1>a, <1>b, FrameTypes DEF IInv, TypeOK, InFlightClean
<1>4. CompletedIsDelivered'
  BY <1>0, <1>a, <1>b, FrameTypes DEF IInv, TypeOK, CompletedIsDelivered
<1>5. OnlyFreshIdrRecovers'
  BY <1>0, <1>a, <1>b, FrameTypes DEF IInv, TypeOK, OnlyFreshIdrRecovers, IsWaitingForKeyframe
<1>6. RecoveredMeansAnchored'
  BY <1>0, <1>a, <1>b, FrameTypes DEF IInv, TypeOK, RecoveredMeansAnchored, IsWaitingForKeyframe
<1>7. PFrameNeverFollowsLoss'
  BY <1>0, <1>a, <1>b, FrameTypes DEF IInv, TypeOK, PFrameNeverFollowsLoss
<1>8. (RecoveredBounded /\ StampBounded /\ QueueBounded /\ AdmittedClean /\ QueueClean)'
  BY DEF IInv, RecoveredBounded, StampBounded, QueueBounded, AdmittedClean, QueueClean
<1> QED
  BY <1>1, <1>2, <1>3, <1>4, <1>5, <1>6, <1>7, <1>8 DEF IInv

(* The taint puts the track on the wait before the loop goes on. *)
LEMMA TaintAtSenderStep == ASSUME IInv, TaintAtSender PROVE IInv'
<1> USE DEF TaintAtSender, sessionVars, producerVars, SenderAt, SenderIdle, SenderGoTo,
     MarkTainted
<1>0. TypeOK
  BY DEF IInv
<1>a. sender \in Sending
  BY <1>0, BusySender
<1>b. sender' \in Sending /\ sender'.frame = sender.frame /\ sender'.step = "request"
  BY <1>a, ChunksAssumption DEF Sending, SenderSteps
<1>1. TypeOK'
  BY <1>0, <1>a, <1>b, FrameTypes DEF TypeOK, Senders, Sending
<1>2. RecoveredBounded'
  BY <1>0, <1>a, <1>b, FrameTypes DEF IInv, TypeOK, RecoveredBounded
<1>3. StampBounded'
  BY <1>0, <1>a, <1>b, FrameTypes DEF IInv, TypeOK, StampBounded
<1>4. QueueBounded'
  BY <1>0, <1>a, <1>b, FrameTypes DEF IInv, TypeOK, QueueBounded
<1>5. InFlightBounded'
  BY <1>0, <1>a, <1>b, FrameTypes DEF IInv, TypeOK, InFlightBounded
<1>6. InFlightClean'
  BY <1>0, <1>a, <1>b, FrameTypes DEF IInv, TypeOK, InFlightClean
<1>7. CompletedIsDelivered'
  BY <1>0, <1>a, <1>b, FrameTypes DEF IInv, TypeOK, CompletedIsDelivered
<1>8. OnlyFreshIdrRecovers'
  BY <1>0, <1>a, <1>b, FrameTypes DEF IInv, TypeOK, OnlyFreshIdrRecovers,
     IsWaitingForKeyframe, RecoveredBounded, QueueBounded, InFlightBounded
<1>9. RecoveredMeansAnchored'
  BY <1>0, <1>a, <1>b, FrameTypes DEF IInv, TypeOK, RecoveredMeansAnchored,
     IsWaitingForKeyframe, RecoveredBounded
<1>10. PFrameNeverFollowsLoss'
  BY <1>0, <1>a, <1>b, FrameTypes DEF IInv, TypeOK, PFrameNeverFollowsLoss
<1>11. (AdmittedClean /\ QueueClean)'
  BY DEF IInv, AdmittedClean, QueueClean
<1> QED
  BY <1>1, <1>2, <1>3, <1>4, <1>5, <1>6, <1>7, <1>8, <1>9, <1>10, <1>11 DEF IInv

(* The failure of a session that is over taints nothing. *)
LEMMA IgnoreFailureStep == ASSUME IInv, IgnoreFailure PROVE IInv'
<1> USE DEF IgnoreFailure, sessionVars, generationVars, producerVars, SenderAt, SenderIdle
<1>0. TypeOK
  BY DEF IInv
<1>a. sender \in Sending
  BY <1>0, BusySender
<1>b. sender' = SenderIdle
  BY <1>a, ChunksAssumption DEF Sending, SenderSteps
<1>1. TypeOK'
  BY <1>0, <1>a, <1>b DEF TypeOK, Senders
<1>2. InFlightBounded'
  BY <1>0, <1>a, <1>b, FrameTypes DEF IInv, TypeOK, InFlightBounded
<1>3. InFlightClean'
  BY <1>0, <1>a, <1>b, FrameTypes DEF IInv, TypeOK, InFlightClean
<1>4. CompletedIsDelivered'
  BY <1>0, <1>a, <1>b, FrameTypes DEF IInv, TypeOK, CompletedIsDelivered
<1>5. OnlyFreshIdrRecovers'
  BY <1>0, <1>a, <1>b, FrameTypes DEF IInv, TypeOK, OnlyFreshIdrRecovers, IsWaitingForKeyframe
<1>6. RecoveredMeansAnchored'
  BY <1>0, <1>a, <1>b, FrameTypes DEF IInv, TypeOK, RecoveredMeansAnchored, IsWaitingForKeyframe
<1>7. PFrameNeverFollowsLoss'
  BY <1>0, <1>a, <1>b, FrameTypes DEF IInv, TypeOK, PFrameNeverFollowsLoss
<1>8. (RecoveredBounded /\ StampBounded /\ QueueBounded /\ AdmittedClean /\ QueueClean)'
  BY DEF IInv, RecoveredBounded, StampBounded, QueueBounded, AdmittedClean, QueueClean
<1> QED
  BY <1>1, <1>2, <1>3, <1>4, <1>5, <1>6, <1>7, <1>8 DEF IInv

(* Asking for an IDR touches neither frames nor generations. *)
LEMMA RequestAtSenderStep == ASSUME IInv, RequestAtSender PROVE IInv'
<1> USE DEF RequestAtSender, generationVars, SenderAt, SenderIdle, RequestRecoveryKeyframe
<1>0. TypeOK
  BY DEF IInv
<1>a. sender \in Sending
  BY <1>0, BusySender
<1>b. sender' = SenderIdle
  BY <1>a, ChunksAssumption DEF Sending, SenderSteps
<1>1. TypeOK'
  BY <1>0, <1>a, <1>b DEF TypeOK, Senders
<1>2. InFlightBounded'
  BY <1>0, <1>a, <1>b, FrameTypes DEF IInv, TypeOK, InFlightBounded
<1>3. InFlightClean'
  BY <1>0, <1>a, <1>b, FrameTypes DEF IInv, TypeOK, InFlightClean
<1>4. CompletedIsDelivered'
  BY <1>0, <1>a, <1>b, FrameTypes DEF IInv, TypeOK, CompletedIsDelivered
<1>5. OnlyFreshIdrRecovers'
  BY <1>0, <1>a, <1>b, FrameTypes DEF IInv, TypeOK, OnlyFreshIdrRecovers, IsWaitingForKeyframe
<1>6. RecoveredMeansAnchored'
  BY <1>0, <1>a, <1>b, FrameTypes DEF IInv, TypeOK, RecoveredMeansAnchored, IsWaitingForKeyframe
<1>7. PFrameNeverFollowsLoss'
  BY <1>0, <1>a, <1>b, FrameTypes DEF IInv, TypeOK, PFrameNeverFollowsLoss
<1>8. (RecoveredBounded /\ StampBounded /\ QueueBounded /\ AdmittedClean /\ QueueClean)'
  BY DEF IInv, RecoveredBounded, StampBounded, QueueBounded, AdmittedClean, QueueClean
<1> QED
  BY <1>1, <1>2, <1>3, <1>4, <1>5, <1>6, <1>7, <1>8 DEF IInv

(* Only a delivered key frame gets as far as completing its generation. *)
LEMMA CheckCompleteStep == ASSUME IInv, CheckComplete PROVE IInv'
<1> USE DEF CheckComplete, sessionVars, generationVars, producerVars, SenderAt, SenderIdle,
     SenderGoTo
<1>0. TypeOK
  BY DEF IInv
<1>a. sender \in Sending
  BY <1>0, BusySender
<1>b. sender' = SenderIdle \/ (sender' \in Sending /\ sender'.frame = sender.frame /\
     sender'.step = "recover")
  BY <1>a, ChunksAssumption DEF Sending, SenderSteps
<1>1. TypeOK'
  BY <1>0, <1>a, <1>b DEF TypeOK, Senders, Sending
<1>2. InFlightBounded'
  BY <1>0, <1>a, <1>b, FrameTypes DEF IInv, TypeOK, InFlightBounded
<1>3. InFlightClean'
  BY <1>0, <1>a, <1>b, FrameTypes DEF IInv, TypeOK, InFlightClean
<1>4. CompletedIsDelivered'
  BY <1>0, <1>a, <1>b, FrameTypes DEF IInv, TypeOK, CompletedIsDelivered
<1>5. OnlyFreshIdrRecovers'
  BY <1>0, <1>a, <1>b, FrameTypes DEF IInv, TypeOK, OnlyFreshIdrRecovers, IsWaitingForKeyframe
<1>6. RecoveredMeansAnchored'
  BY <1>0, <1>a, <1>b, FrameTypes DEF IInv, TypeOK, RecoveredMeansAnchored, IsWaitingForKeyframe
<1>7. PFrameNeverFollowsLoss'
  BY <1>0, <1>a, <1>b, FrameTypes DEF IInv, TypeOK, PFrameNeverFollowsLoss
<1>8. (RecoveredBounded /\ StampBounded /\ QueueBounded /\ AdmittedClean /\ QueueClean)'
  BY DEF IInv, RecoveredBounded, StampBounded, QueueBounded, AdmittedClean, QueueClean
<1> QED
  BY <1>1, <1>2, <1>3, <1>4, <1>5, <1>6, <1>7, <1>8 DEF IInv

(* The late write can end the wait only of a track whose chain is intact. *)
LEMMA WriteRecoveredStep == ASSUME IInv, WriteRecovered PROVE IInv'
<1> USE DEF WriteRecovered, sessionVars, producerVars, SenderAt, SenderIdle
<1>0. TypeOK
  BY DEF IInv
<1>a. sender \in Sending
  BY <1>0, BusySender
<1>b. sender' = SenderIdle
  BY <1>a, ChunksAssumption DEF Sending, SenderSteps
<1>1. TypeOK'
  BY <1>0, <1>a, <1>b, FrameTypes DEF TypeOK, Senders
<1>2. RecoveredBounded'
  BY <1>0, <1>a, <1>b, FrameTypes DEF IInv, TypeOK, RecoveredBounded, InFlightBounded
<1>3. InFlightBounded'
  BY <1>0, <1>a, <1>b, FrameTypes DEF IInv, TypeOK, InFlightBounded
<1>4. InFlightClean'
  BY <1>0, <1>a, <1>b, FrameTypes DEF IInv, TypeOK, InFlightClean
<1>5. CompletedIsDelivered'
  BY <1>0, <1>a, <1>b, FrameTypes DEF IInv, TypeOK, CompletedIsDelivered
<1>6. OnlyFreshIdrRecovers'
  BY <1>0, <1>a, <1>b, FrameTypes DEF IInv, TypeOK, OnlyFreshIdrRecovers, IsWaitingForKeyframe
<1>7. RecoveredMeansAnchored'
  BY <1>0, <1>a, <1>b, FrameTypes DEF IInv, TypeOK, RecoveredMeansAnchored,
     IsWaitingForKeyframe, CompletedIsDelivered
<1>8. PFrameNeverFollowsLoss'
  BY <1>0, <1>a, <1>b, FrameTypes DEF IInv, TypeOK, PFrameNeverFollowsLoss
<1>9. (StampBounded /\ QueueBounded /\ AdmittedClean /\ QueueClean)'
  BY DEF IInv, StampBounded, QueueBounded, AdmittedClean, QueueClean
<1> QED
  BY <1>1, <1>2, <1>3, <1>4, <1>5, <1>6, <1>7, <1>8, <1>9 DEF IInv

(* The rate limiter is no part of the invariant. *)
LEMMA SecondElapsesStep == ASSUME IInv, SecondElapses PROVE IInv'
<1> USE DEF SecondElapses, producerVars, SenderAt
<1>0. TypeOK
  BY DEF IInv
<1>1. TypeOK'
  BY <1>0 DEF TypeOK
<1>2. (RecoveredBounded /\ StampBounded /\ QueueBounded /\ InFlightBounded /\ AdmittedClean /\
     QueueClean /\ InFlightClean /\ CompletedIsDelivered /\ OnlyFreshIdrRecovers /\
     RecoveredMeansAnchored /\ PFrameNeverFollowsLoss)'
  BY DEF IInv, RecoveredBounded, StampBounded, QueueBounded, InFlightBounded, AdmittedClean,
     QueueClean, InFlightClean, CompletedIsDelivered, OnlyFreshIdrRecovers,
     RecoveredMeansAnchored, PFrameNeverFollowsLoss, IsWaitingForKeyframe
<1> QED
  BY <1>1, <1>2 DEF IInv

(* Leaving the relay only weakens what is promised. *)
LEMMA ClearRelayModeStep == ASSUME IInv, ClearRelayMode PROVE IInv'
<1> USE DEF ClearRelayMode, generationVars, producerVars, SenderAt
<1>0. TypeOK
  BY DEF IInv
<1>1. TypeOK'
  BY <1>0 DEF TypeOK
<1>2. RecoveredMeansAnchored'
  BY <1>0, FrameTypes DEF IInv, TypeOK, RecoveredMeansAnchored, IsWaitingForKeyframe
<1>3. (RecoveredBounded /\ StampBounded /\ QueueBounded /\ InFlightBounded /\ AdmittedClean /\
     QueueClean /\ InFlightClean /\ CompletedIsDelivered /\ OnlyFreshIdrRecovers /\
     PFrameNeverFollowsLoss)'
  BY DEF IInv, RecoveredBounded, StampBounded, QueueBounded, InFlightBounded, AdmittedClean,
     QueueClean, InFlightClean, CompletedIsDelivered, OnlyFreshIdrRecovers,
     PFrameNeverFollowsLoss, IsWaitingForKeyframe
<1> QED
  BY <1>1, <1>2, <1>3 DEF IInv

(* Completing the writer changes no frame and no generation. *)
LEMMA StopWorkersStep == ASSUME IInv, StopWorkers PROVE IInv'
<1> USE DEF StopWorkers, generationVars, producerVars, SenderAt
<1>0. TypeOK
  BY DEF IInv
<1>1. TypeOK'
  BY <1>0 DEF TypeOK
<1>2. RecoveredMeansAnchored'
  BY <1>0, FrameTypes DEF IInv, TypeOK, RecoveredMeansAnchored, IsWaitingForKeyframe
<1>3. (RecoveredBounded /\ StampBounded /\ QueueBounded /\ InFlightBounded /\ AdmittedClean /\
     QueueClean /\ InFlightClean /\ CompletedIsDelivered /\ OnlyFreshIdrRecovers /\
     PFrameNeverFollowsLoss)'
  BY DEF IInv, RecoveredBounded, StampBounded, QueueBounded, InFlightBounded, AdmittedClean,
     QueueClean, InFlightClean, CompletedIsDelivered, OnlyFreshIdrRecovers,
     PFrameNeverFollowsLoss, IsWaitingForKeyframe
<1> QED
  BY <1>1, <1>2, <1>3 DEF IInv

-----------------------------------------------------------------------------
(* Every step preserves the invariant: one lemma per action above.           *)
LEMMA NextIInv == IInv /\ [Next]_vars => IInv'
<1> SUFFICES ASSUME IInv, [Next]_vars PROVE IInv'
  OBVIOUS
<1>1. ASSUME NEW t \in Tracks, Produce(t) PROVE IInv'
  <2>1. CASE \E key, fits \in BOOLEAN : Encode(t, key, fits)
    BY <2>1, EncodeStep
  <2>2. CASE EncodeStale(t) \/ SuppressAtEnqueue(t) \/ AdmitToQueue(t) \/ StampGeneration(t)
    BY <2>2, EncodeStaleStep, SuppressAtEnqueueStep, AdmitToQueueStep, StampGenerationStep
  <2>3. CASE TryWriteOk(t) \/ TryWriteFull(t) \/ TaintAtProducer(t) \/ RequestAtProducer(t)
    BY <2>3, TryWriteOkStep, TryWriteFullStep, TaintAtProducerStep, RequestAtProducerStep
  <2> QED
    BY <1>1, <2>1, <2>2, <2>3 DEF Produce
<1>2. CASE SendLoop
  <2>1. CASE Dequeue \/ AbandonFrame \/ SuppressAtSend \/ StartSend
    BY <2>1, DequeueStep, AbandonFrameStep, SuppressAtSendStep, StartSendStep
  <2>2. CASE SendChunk \/ SendLastChunk
    BY <2>2, SendChunkStep, SendLastChunkStep
  <2>3. CASE TaintAtSender \/ IgnoreFailure \/ RequestAtSender
    BY <2>3, TaintAtSenderStep, IgnoreFailureStep, RequestAtSenderStep
  <2>4. CASE CheckComplete \/ WriteRecovered
    BY <2>4, CheckCompleteStep, WriteRecoveredStep
  <2> QED
    BY <1>2, <2>1, <2>2, <2>3, <2>4 DEF SendLoop
<1>3. CASE SendChunkFails \/ SecondElapses \/ ClearRelayMode \/ StopWorkers
  BY <1>3, SendChunkFailsStep, SecondElapsesStep, ClearRelayModeStep, StopWorkersStep
<1>4. CASE UNCHANGED vars
  BY <1>4 DEF vars, IInv, TypeOK, RecoveredBounded, StampBounded, QueueBounded, InFlightBounded,
     AdmittedClean, QueueClean, InFlightClean, CompletedIsDelivered, OnlyFreshIdrRecovers,
     RecoveredMeansAnchored, PFrameNeverFollowsLoss, SenderAt, IsWaitingForKeyframe
<1> QED
  BY <1>1, <1>2, <1>3, <1>4 DEF Next

(* The strengthened invariant holds in every reachable state.               *)
THEOREM Invariant == Spec => []IInv
<1>1. Init => IInv
  BY InitIInv
<1>2. IInv /\ [Next]_vars => IInv'
  BY NextIInv
<1> QED
  BY <1>1, <1>2, PTL DEF Spec

(* Type correctness of the relay queue, RelayMedia.cs:54-150 and 459-595.    *)
THEOREM TypeCorrect == Spec => []TypeOK
<1>1. IInv => TypeOK
  BY DEF IInv
<1> QED
  BY <1>1, Invariant, PTL

(* RelayMedia.cs:453-458: no P-frame is put on the socket while a frame whose *)
(* loss tainted its track is missing after the client's last whole IDR.      *)
THEOREM LossNeverFollowed == Spec => []PFrameNeverFollowsLoss
<1>1. IInv => PFrameNeverFollowsLoss
  BY DEF IInv
<1> QED
  BY <1>1, Invariant, PTL

(* RelayMedia.cs:68-88: a track that stopped waiting for a key frame has a    *)
(* client whose decoder is anchored.                                        *)
THEOREM RecoveryIsSound == Spec => []RecoveredMeansAnchored
<1>1. IInv => RecoveredMeansAnchored
  BY DEF IInv
<1> QED
  BY <1>1, Invariant, PTL

(* RelayMedia.cs:81-88: after a loss at the producer nothing that is already  *)
(* queued or being sent can complete the track's current generation.         *)
THEOREM StaleIdrCannotRecover == Spec => []OnlyFreshIdrRecovers
<1>1. IInv => OnlyFreshIdrRecovers
  BY DEF IInv
<1> QED
  BY <1>1, Invariant, PTL
=============================================================================

---------------------------- MODULE RelayRoomProofs ----------------------------
(***************************************************************************)
(* The election of the host, for any number of clients: between two logins    *)
(* there is never more than one, and it keeps its capture from its likes.     *)
(***************************************************************************)
EXTENDS RelayRoom, TLAPS

(* No handler before the first login; a role comes with the handler; a viewer  *)
(* that has found a host, a finally block and a callback know the manager     *)
(* they have read.                                                           *)
RolesFit ==
  /\ online => logins # 0
  /\ \A h \in Handlers :
       /\ logins = 0 => stage[h] = "none"
       /\ stage[h] = "none" <=> role[h] = "none"
       /\ saw[h] <= logins
       /\ stage[h] \in {"found", "removing", "unhooking", "forgetting", "releasing"}
          => saw[h] # 0
       /\ streamer[h] \/ callback[h] # "none" => stage[h] # "none"
       /\ callback[h] \notin {"none", "waits"} => target[h] # 0

IInv == TypeOK /\ RolesFit /\ OneHost

LEMMA InitIInv == Init => IInv
<1> SUFFICES ASSUME Init PROVE IInv
  OBVIOUS
<1> USE MaxLoginsAssumption DEF Init, Managers
<1>1. TypeOK
  <2>1. logins \in 0 .. MaxLogins /\ online \in BOOLEAN
    <3>1. online \in BOOLEAN
      BY Zenon
    <3> QED
      BY <3>1
  <2>2. /\ hostClaimed \in [Managers -> BOOLEAN]
        /\ hostStreamer \in [Managers -> Handlers \cup {NoOne}]
        /\ hostConfig \in [Managers -> BOOLEAN]
        /\ viewers \in [Managers -> SUBSET Handlers]
    BY Zenon
  <2>3. /\ adapter \in [Handlers -> {"none", "open", "silent", "closing"}]
        /\ role \in [Handlers -> {"none", "host", "viewer"}]
        /\ stage \in [Handlers -> Stages]
    BY DEF Stages
  <2>4. /\ bridge \in [Handlers -> 0 .. MaxLogins]
        /\ saw \in [Handlers -> 0 .. MaxLogins]
        /\ target \in [Handlers -> 0 .. MaxLogins]
    OBVIOUS
  <2>5. /\ streamer \in [Handlers -> BOOLEAN]
        /\ passed \in [Handlers -> BOOLEAN]
        /\ callback \in [Handlers -> {"none", "waits", "adds", "tests", "unhooks", "sets",
                                      "subscribes", "configures"}]
        /\ shared \in Handlers \cup {NoOne}
    OBVIOUS
  <2> QED
    BY <2>1, <2>2, <2>3, <2>4, <2>5 DEF TypeOK
<1>2. RolesFit
  BY DEF RolesFit
<1>3. OneHost
  <2>1. 1 \in Managers
    OBVIOUS
  <2>2. hostClaimed[1] = FALSE
    BY <2>1
  <2>3. \A h \in Handlers : ~ActiveHost(h)
    BY DEF ActiveHost
  <2> QED
    BY <2>2, <2>3 DEF OneHost
<1> QED
  BY <1>1, <1>2, <1>3 DEF IInv

-----------------------------------------------------------------------------
(* A step that moves no host to the end of its finally block and makes none,  *)
(* and neither takes nor releases a claim, leaves OneHost alone.             *)
LEMMA SameHosts ==
  ASSUME OneHost, logins' <= 1 => logins <= 1, hostClaimed' = hostClaimed,
         \A h \in Handlers : ActiveHost(h)' <=> ActiveHost(h),
         \A h \in Handlers : stage[h] = "broken" => stage'[h] = "broken"
  PROVE  OneHost'
<1> SUFFICES ASSUME logins <= 1
             PROVE  /\ \A g, h \in Handlers :
                         ActiveHost(g)' /\ ActiveHost(h)' => g = h
                    /\ (\E h \in Handlers : ActiveHost(h)') => hostClaimed'[1]
                    /\ hostClaimed'[1] => \/ SomeEndBroken'
                                         \/ \E h \in Handlers : ActiveHost(h)'
  BY DEF OneHost
<1> QED
  BY DEF OneHost, SomeEndBroken

LEMMA LoginStep == ASSUME IInv, Login PROVE IInv'
<1> USE DEF IInv, Login, managerVars, handlerVars, callbackVars
<1>1. TypeOK'
  BY MaxLoginsAssumption DEF TypeOK, Managers
<1>2. RolesFit'
  BY DEF TypeOK, RolesFit
<1>3. OneHost'
  BY SameHosts DEF TypeOK, ActiveHost
<1> QED
  BY <1>1, <1>2, <1>3

LEMMA OutsideStep == ASSUME IInv, Logout \/ PeerDisconnected PROVE IInv'
<1> USE DEF IInv, Logout, PeerDisconnected, managerVars, handlerVars,
            callbackVars
<1>1. TypeOK'
  BY DEF TypeOK
<1>2. RolesFit'
  BY DEF RolesFit
<1>3. OneHost'
  BY SameHosts DEF ActiveHost
<1> QED
  BY <1>1, <1>2, <1>3

(* The election: the claim is free only when there is no active host.        *)
LEMMA RoomReadyStep == ASSUME IInv, NEW h \in Handlers, RoomReady(h) PROVE IInv'
<1> USE DEF IInv, RoomReady, GoesTo, callbackVars
<1>1. TypeOK'
  BY DEF TypeOK, Stages, HostStages, ViewerStages, Managers, RolesFit
<1>2. RolesFit'
  BY DEF RolesFit, TypeOK
<1>3. OneHost'
  <2> SUFFICES ASSUME logins = 1
               PROVE  /\ \A f, g \in Handlers :
                           ActiveHost(f)' /\ ActiveHost(g)' => f = g
                      /\ hostClaimed'[1]
                      /\ SomeEndBroken' \/ \E g \in Handlers : ActiveHost(g)'
    BY DEF OneHost, RolesFit, TypeOK
  <2>1. hostClaimed'[1]
    BY DEF TypeOK, Managers
  <2>2. \A g \in Handlers : g # h => (ActiveHost(g)' <=> ActiveHost(g))
    BY DEF ActiveHost, TypeOK
  <2>3. ~ActiveHost(h)
    BY DEF ActiveHost, RolesFit
  <2>4. ActiveHost(h)' <=> ~hostClaimed[1]
    BY DEF ActiveHost, WinsClaim, TypeOK, OverStages
  <2>5. SomeEndBroken => SomeEndBroken'
    BY DEF SomeEndBroken, TypeOK
  <2> QED
    BY <2>1, <2>2, <2>3, <2>4, <2>5 DEF OneHost
<1> QED
  BY <1>1, <1>2, <1>3

(* The steps between the election and the clean-up.                          *)
LEMMA PhaseStep ==
  ASSUME IInv, NEW h \in Handlers,
         \/ HostCaptures(h) \/ ViewerPolls(h) \/ ViewerJoins(h) \/ ExchangeEnds(h)
         \/ KeepAliveGivesUp(h) \/ Leaves(h)
  PROVE  IInv'
<1> USE DEF IInv, HostCaptures, ViewerPolls, ViewerJoins, ExchangeEnds,
            KeepAliveGivesUp, Leaves, GoesTo, managerVars, callbackVars,
            HostStages
<1>1. TypeOK'
  <2> USE DEF TypeOK, Stages, ViewerStages, EndStages
  <2>1. CASE HostCaptures(h)
    BY <2>1
  <2>2. CASE ViewerPolls(h)
    BY <2>2
  <2>3. CASE ViewerJoins(h)
    <3>1. saw[h] \in Managers
      BY <2>3 DEF RolesFit, Managers
    <3>2. hostConfig[saw[h]] \in BOOLEAN
      BY <3>1
    <3>3. streamer' \in [Handlers -> BOOLEAN]
      BY <2>3, <3>2
    <3>4. /\ stage' \in [Handlers -> Stages]
          /\ saw' \in [Handlers -> 0 .. MaxLogins]
      BY <2>3, MaxLoginsAssumption
    <3> QED
      BY <2>3, <3>3, <3>4
  <2>4. CASE ExchangeEnds(h) \/ KeepAliveGivesUp(h)
    BY <2>4
  <2>5. CASE Leaves(h)
    <3>1. saw' \in [Handlers -> 0 .. MaxLogins]
      BY <2>5, MaxLoginsAssumption
    <3> QED
      BY <2>5, <3>1
  <2> QED
    BY <2>1, <2>2, <2>3, <2>4, <2>5
<1>2. RolesFit'
  BY DEF RolesFit, TypeOK
<1>3. OneHost'
  <2>1. \A g \in Handlers : ActiveHost(g)' <=> ActiveHost(g)
    BY DEF TypeOK, ActiveHost, OverStages
  <2>2. \A g \in Handlers : stage[g] = "broken" => stage'[g] = "broken"
    BY DEF TypeOK
  <2>3. hostClaimed' = hostClaimed /\ logins' = logins
    OBVIOUS
  <2> QED
    BY <2>1, <2>2, <2>3, SameHosts
<1> QED
  BY <1>1, <1>2, <1>3

(* The callback registers without touching the claim or the stages.          *)
LEMMA CallbackIInv ==
  ASSUME IInv, NEW h \in Handlers, TracksReady(h) \/ CallbackStep(h) PROVE IInv'
<1> USE DEF IInv, TracksReady, CallbackStep, PassesStreamer, AddsViewer,
            TestsStreamer, Unhooks, SetsStreamer, Subscribes, SetsConfig, CallbackGoesTo, managerVars
<1>1. TypeOK'
  <2>1. target[h] \in 0 .. MaxLogins /\ logins \in 0 .. MaxLogins
    BY DEF TypeOK
  <2>2. /\ callback' \in [Handlers -> {"none", "waits", "adds", "tests", "unhooks", "sets",
                                       "subscribes", "configures"}]
        /\ passed' \in [Handlers -> BOOLEAN]
    BY DEF TypeOK
  <2>3. target' \in [Handlers -> 0 .. MaxLogins]
    <3>1. CASE TracksReady(h)
      BY <3>1 DEF TypeOK
    <3>2. CASE PassesStreamer(h)
      BY <2>1, <3>2 DEF TypeOK
    <3>3. CASE AddsViewer(h) \/ TestsStreamer(h) \/ Unhooks(h) \/ SetsStreamer(h) \/ Subscribes(h) \/ SetsConfig(h)
      <4>1. PICK k \in {0, target[h]} : target' = [target EXCEPT ![h] = k]
        BY <3>3
      <4>2. k \in 0 .. MaxLogins
        BY <2>1, MaxLoginsAssumption
      <4> QED
        BY <4>1, <4>2 DEF TypeOK
    <3> QED
      BY <3>1, <3>2, <3>3
  <2>4. hostStreamer' \in [Managers -> Handlers \cup {NoOne}]
    BY DEF TypeOK
  <2>5. hostConfig' \in [Managers -> BOOLEAN]
    BY DEF TypeOK
  <2>6. viewers' \in [Managers -> SUBSET Handlers]
    <3>1. \/ viewers' = viewers
          \/ viewers' = [viewers EXCEPT ![target[h]] = @ \cup {h}]
      OBVIOUS
    <3> QED
      BY <3>1 DEF TypeOK
  <2>7. UNCHANGED <<logins, online, hostClaimed, bridge, adapter, role, stage,
                    saw, streamer, shared>>
    OBVIOUS
  <2> QED
    BY <2>2, <2>3, <2>4, <2>5, <2>6, <2>7 DEF TypeOK
<1>2. RolesFit'
  <2>1. UNCHANGED <<logins, online, role, stage, saw, streamer>>
    OBVIOUS
  <2>2. stage[h] # "none" /\ logins # 0
    BY DEF RolesFit, TypeOK
  <2>3. callback'[h] \notin {"none", "waits"} => target'[h] # 0
    BY <2>2 DEF RolesFit, TypeOK
  <2>4. \A g \in Handlers : g # h => callback'[g] = callback[g]
                                   /\ target'[g] = target[g]
    BY DEF TypeOK
  <2> QED
    BY <2>1, <2>2, <2>3, <2>4 DEF RolesFit
<1>3. OneHost'
  BY SameHosts DEF ActiveHost
<1> QED
  BY <1>1, <1>2, <1>3

(* The steps of a finally block: what they set is of the right type, and the   *)
(* manager they speak of is the one that was read.                           *)
LEMMA EndTypes == ASSUME IInv, NEW h \in Handlers, EndStep(h)
                  PROVE  TypeOK' /\ RolesFit'
<1> USE DEF IInv, EndStep, Cleans, TakesManager, RemovesViewer, FindsStreamer,
            ForgetsStreamer, RemoveHostThrows, ForgetsConfig, ReleasesClaim,
            EndGoesTo, GoesTo, managerVars, callbackVars
<1>1. TypeOK'
  <2>1. stage' \in [Handlers -> Stages]
    BY DEF TypeOK, Stages, EndStages, OverStages
  <2>2. saw' \in [Handlers -> 0 .. MaxLogins]
    BY MaxLoginsAssumption DEF TypeOK
  <2>3. /\ hostClaimed' \in [Managers -> BOOLEAN]
        /\ hostConfig' \in [Managers -> BOOLEAN]
        /\ streamer' \in [Handlers -> BOOLEAN]
    BY DEF TypeOK
  <2>4. /\ hostStreamer' \in [Managers -> Handlers \cup {NoOne}]
        /\ viewers' \in [Managers -> SUBSET Handlers]
        /\ shared' \in Handlers \cup {NoOne}
    BY DEF TypeOK
  <2>5. adapter' \in [Handlers -> {"none", "open", "silent", "closing"}]
    BY DEF TypeOK
  <2>6. UNCHANGED <<logins, online, bridge, role, callback, passed, target>>
    OBVIOUS
  <2> QED
    BY <2>1, <2>2, <2>3, <2>4, <2>5, <2>6 DEF TypeOK
<1>2. RolesFit'
  <2>1. UNCHANGED <<logins, online, role, callback, target>>
    OBVIOUS
  <2>2. stage[h] # "none" /\ stage'[h] # "none" /\ logins # 0
    BY DEF RolesFit, TypeOK, OverStages
  <2>3. saw'[h] <= logins
    BY DEF RolesFit, TypeOK, OverStages
  <2>4. stage'[h] \in {"found", "removing", "unhooking", "forgetting", "releasing"}
        => saw'[h] # 0
    BY <2>2 DEF RolesFit, TypeOK, OverStages
  <2>5. \A g \in Handlers : g # h => /\ stage'[g] = stage[g]
                                   /\ saw'[g] = saw[g]
                                   /\ streamer'[g] = streamer[g]
    BY DEF TypeOK
  <2> QED
    BY <2>1, <2>2, <2>3, <2>4, <2>5 DEF RolesFit
<1> QED
  BY <1>1, <1>2

(* The end of the host releases the claim, or an exception keeps it.         *)
LEMMA EndIInv == ASSUME IInv, NEW h \in Handlers, EndStep(h) PROVE IInv'
<1> USE DEF IInv
<1>1. TypeOK' /\ RolesFit'
  BY EndTypes
<1>2. CASE \/ Cleans(h) \/ TakesManager(h) \/ RemovesViewer(h)
           \/ FindsStreamer(h) \/ ForgetsStreamer(h) \/ ForgetsConfig(h)
  <2> USE DEF Cleans, TakesManager, RemovesViewer, FindsStreamer,
              ForgetsStreamer, ForgetsConfig, EndGoesTo, GoesTo, managerVars
  <2>1. hostClaimed' = hostClaimed /\ logins' = logins
    BY <1>2
  <2>2. \A g \in Handlers : ActiveHost(g)' <=> ActiveHost(g)
    BY <1>2 DEF ActiveHost, OverStages, TypeOK
  <2>3. \A g \in Handlers : stage[g] = "broken" => stage'[g] = "broken"
    BY <1>2 DEF TypeOK
  <2> QED
    BY <1>1, <2>1, <2>2, <2>3, SameHosts
<1>3. CASE RemoveHostThrows(h) \/ ReleasesClaim(h)
  <2> USE DEF RemoveHostThrows, ReleasesClaim, EndGoesTo, GoesTo, managerVars
  <2>1. ActiveHost(h) /\ ~ActiveHost(h)'
    BY <1>3 DEF ActiveHost, TypeOK, OverStages
  <2>2. \A g \in Handlers : g # h => (ActiveHost(g)' <=> ActiveHost(g))
    BY <1>3 DEF ActiveHost, TypeOK
  <2>3. logins' = logins /\ logins # 0
    BY <1>3 DEF RolesFit
  <2>4. logins = 1 => ~hostClaimed'[1] \/ SomeEndBroken'
    <3>1. CASE RemoveHostThrows(h)
      BY <3>1 DEF SomeEndBroken, TypeOK
    <3>2. CASE ReleasesClaim(h)
      <4>1. logins = 1 => saw[h] = 1
        <5>1. saw[h] \in 0 .. MaxLogins /\ saw[h] <= logins /\ saw[h] # 0
          BY <3>2 DEF RolesFit, TypeOK
        <5> QED
          BY <5>1, MaxLoginsAssumption
      <4>2. 1 \in Managers
        BY MaxLoginsAssumption DEF Managers
      <4> QED
        BY <3>2, <4>1, <4>2 DEF TypeOK
    <3> QED
      BY <1>3, <3>1, <3>2
  <2>5. logins = 1 => \A g \in Handlers : ~ActiveHost(g)'
    BY <2>1, <2>2 DEF OneHost
  <2>6. OneHost'
    BY <2>3, <2>4, <2>5 DEF OneHost, TypeOK
  <2> QED
    BY <1>1, <2>6
<1> QED
  BY <1>2, <1>3 DEF EndStep

LEMMA StutterStep == ASSUME IInv, UNCHANGED vars PROVE IInv'
<1> USE DEF IInv, vars, managerVars, handlerVars, callbackVars
<1>1. TypeOK' /\ RolesFit'
  BY DEF TypeOK, RolesFit
<1>2. OneHost'
  BY SameHosts DEF ActiveHost
<1> QED
  BY <1>1, <1>2

LEMMA NextIInv == IInv /\ [Next]_vars => IInv'
BY LoginStep, OutsideStep, RoomReadyStep, PhaseStep, CallbackIInv, EndIInv,
   StutterStep
DEF Next, HandlerStep

LEMMA Invariance == Spec => []IInv
BY InitIInv, NextIInv, PTL DEF Spec

-----------------------------------------------------------------------------
(* Every variable keeps its type, for any number of clients and logins.       *)
THEOREM TypeCorrect == Spec => []TypeOK
<1>1. IInv => TypeOK
  BY DEF IInv
<1> QED
  BY Invariance, <1>1, PTL

(* TryClaimHost and RemoveHost elect one host at a time, whatever the          *)
(* callbacks register meanwhile: the claim is taken from the election of a    *)
(* host to the end of its RemoveHost, and no longer unless that throws.      *)
THEOREM ElectsOneHost == Spec => []OneHost
<1>1. IInv => OneHost
  BY DEF IInv
<1> QED
  BY Invariance, <1>1, PTL

-----------------------------------------------------------------------------
(* Once a host has its capture, the static one changes only by the clean-up   *)
(* of a viewer (Messaging.cs disposes of it whatever the role): no clean-up   *)
(* of a former host is still to come, and no other host makes one.           *)
CaptureLostOnlyToViewers ==
  [][\A h \in Handlers :
       /\ logins <= 1 /\ role[h] = "host" /\ stage[h] \in {"ice", "stream"}
       /\ shared' # shared
       => \E v \in Handlers : role[v] = "viewer" /\ stage[v] = "leaving"
                              /\ stage'[v] = "cleaned"]_vars

(* The steps that change the shared capture are those of another host, of    *)
(* which there is none, and clean-ups.                                       *)
LEMMA CaptureStep ==
  ASSUME IInv, [Next]_vars, NEW h \in Handlers,
         logins <= 1, role[h] = "host", stage[h] \in {"ice", "stream"},
         shared' # shared
  PROVE  \E v \in Handlers : role[v] = "viewer" /\ stage[v] = "leaving"
                             /\ stage'[v] = "cleaned"
<1>1. \A g \in Handlers : role[g] = "host" /\ stage[g] \notin OverStages => g = h
  BY DEF IInv, OneHost, ActiveHost, OverStages
<1>2. PICK g \in Handlers : HostCaptures(g) \/ Cleans(g)
  BY DEF Next, HandlerStep, Login, Logout, PeerDisconnected, RoomReady,
         ViewerPolls, ViewerJoins, ExchangeEnds, TracksReady, CallbackStep,
         PassesStreamer, AddsViewer, TestsStreamer, Unhooks, SetsStreamer, Subscribes, SetsConfig,
         CallbackGoesTo, KeepAliveGivesUp, Leaves, EndStep, TakesManager,
         RemovesViewer, FindsStreamer, ForgetsStreamer, RemoveHostThrows,
         ForgetsConfig, ReleasesClaim, EndGoesTo, vars
<1>3. ~HostCaptures(g)
  BY <1>1 DEF HostCaptures, OverStages
<1>4. Cleans(g)
  BY <1>2, <1>3
<1>5. stage[g] = "leaving" /\ stage'[g] = "cleaned"
  BY <1>4 DEF Cleans, GoesTo, IInv, TypeOK
<1>6. role[g] = "viewer"
  BY <1>1, <1>5 DEF IInv, TypeOK, RolesFit, OverStages
<1> QED
  BY <1>5, <1>6

(* A host with its capture loses it to no host, former or later: CleanupAsync  *)
(* is over when RemoveHost lets the next one be elected.                     *)
THEOREM HostKeepsCapture == Spec => CaptureLostOnlyToViewers
<1>1. IInv /\ [Next]_vars
      => [\A h \in Handlers :
            /\ logins <= 1 /\ role[h] = "host" /\ stage[h] \in {"ice", "stream"}
            /\ shared' # shared
            => \E v \in Handlers : role[v] = "viewer" /\ stage[v] = "leaving"
                                   /\ stage'[v] = "cleaned"]_vars
  BY CaptureStep
<1> QED
  BY Invariance, <1>1, PTL DEF Spec, CaptureLostOnlyToViewers
=============================================================================

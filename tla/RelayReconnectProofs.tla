------------------------ MODULE RelayReconnectProofs ------------------------
(***************************************************************************)
(* The state the user interface shows is never left at "connected" over a   *)
(* dead connection, and the guard of the reconnect loop is held exactly     *)
(* while a loop runs, for any number of connections.                        *)
(***************************************************************************)
EXTENDS RelayReconnect, TLAPS

(* The guard is taken and released by the loop it guards.                    *)
GuardMatchesLoop == inFlight <=> ~At("loop", "off")

(* A caller between the connect and the first read has a connection.          *)
ConnectingIsNumbered ==
  \A c \in Callers : caller[c] \in {"connecting", "opened"} => current # 0

(* Whoever shows "connected" has started the read loop that will take it back. *)
StateOwned ==
  state = "connected" =>
    current # 0 /\ reader[current] \in {"reading", "check", "giveUp", "reconnect"}

IInv ==
  /\ TypeOK
  /\ GuardMatchesLoop
  /\ ConnectingIsNumbered
  /\ StateOwned

LEMMA InitIInv == Init => IInv
<1> SUFFICES ASSUME Init PROVE IInv
  OBVIOUS
<1> USE MaxConnectsAssumption DEF Init
<1>1. TypeOK
  <2>1. caller \in [Callers -> ConnectSteps \cup LoopSteps \cup {"off"}]
    BY DEF ConnectSteps
  <2>2. caller["service"] \notin LoopSteps
    BY DEF Callers, LoopSteps
  <2>3. reader \in [Connections -> ReaderSteps]
    BY DEF ReaderSteps
  <2>4. inFlight \in BOOLEAN /\ userDisconnect \in BOOLEAN /\ disposed \in BOOLEAN
    BY Zenon
  <2>5. state \in States /\ current \in 0 .. MaxConnects /\ socket \in Sockets
    BY DEF States, Sockets
  <2> QED
    BY <2>1, <2>2, <2>3, <2>4, <2>5 DEF TypeOK
<1>2. GuardMatchesLoop /\ ConnectingIsNumbered /\ StateOwned
  BY DEF GuardMatchesLoop, ConnectingIsNumbered, StateOwned, At, Callers
<1> QED
  BY <1>1, <1>2 DEF IInv

-----------------------------------------------------------------------------
(* A step of ConnectPresenceAsync, whichever caller makes it.                *)
LEMMA ConnectStep == ASSUME IInv, NEW c \in Callers, Connect(c) PROVE IInv'
<1> USE DEF IInv, Connect, At, GoTo, flagVars
<1>1. TypeOK'
  BY MaxConnectsAssumption DEF TypeOK, States, Sockets, Callers, ConnectSteps, LoopSteps
<1>2. GuardMatchesLoop'
  BY DEF TypeOK, GuardMatchesLoop, Callers
<1>3. ConnectingIsNumbered' /\ StateOwned'
  BY DEF TypeOK, ConnectingIsNumbered, StateOwned, Callers
<1> QED
  BY <1>1, <1>2, <1>3

LEMMA ConnectSucceedsStep ==
  ASSUME IInv, NEW c \in Callers, ConnectSucceeds(c) PROVE IInv'
<1> USE DEF IInv, ConnectSucceeds, At, GoTo, flagVars
<1>1. TypeOK'
  BY DEF TypeOK, Sockets, Callers, ConnectSteps, LoopSteps
<1>2. GuardMatchesLoop'
  BY DEF TypeOK, GuardMatchesLoop, Callers
<1>3. ConnectingIsNumbered' /\ StateOwned'
  BY DEF TypeOK, ConnectingIsNumbered, StateOwned, Callers
<1> QED
  BY <1>1, <1>2, <1>3

LEMMA ConnectFailsStep ==
  ASSUME IInv, NEW c \in Callers, ConnectFails(c) PROVE IInv'
<1> USE DEF IInv, ConnectFails, AfterConnect, At, GoTo, flagVars
<1>1. TypeOK'
  BY DEF TypeOK, States, Sockets, Callers, ConnectSteps, LoopSteps
<1>2. GuardMatchesLoop'
  BY DEF TypeOK, GuardMatchesLoop, Callers
<1>3. ConnectingIsNumbered' /\ StateOwned'
  BY DEF TypeOK, ConnectingIsNumbered, StateOwned, Callers
<1> QED
  BY <1>1, <1>2, <1>3

(* The read loop is started with the state it will take back.                *)
LEMMA OpenedStep == ASSUME IInv, NEW c \in Callers, Opened(c) PROVE IInv'
<1> USE DEF IInv, Opened, AfterConnect, At, GoTo, ReaderGoesTo, flagVars, connectionVars
<1>0. current \in Connections
  BY MaxConnectsAssumption DEF TypeOK, ConnectingIsNumbered, Connections
<1>1. TypeOK'
  BY <1>0 DEF TypeOK, States, Callers, ConnectSteps, LoopSteps, ReaderSteps
<1>2. GuardMatchesLoop'
  BY DEF TypeOK, GuardMatchesLoop, Callers
<1>3. ConnectingIsNumbered'
  BY DEF TypeOK, ConnectingIsNumbered, Callers
<1>4. StateOwned'
  BY <1>0 DEF TypeOK, StateOwned, Connections
<1> QED
  BY <1>1, <1>2, <1>3, <1>4

-----------------------------------------------------------------------------
(* A step of a read loop: only one that changes State leaves the steps that   *)
(* are still to take "connected" back.                                      *)
LEMMA ReadLoopStep == ASSUME IInv, NEW n \in Connections, ReadLoop(n) PROVE IInv'
<1> USE DEF IInv, ReaderAt, ReaderGoesTo, flagVars, connectionVars
<1>1. CASE ReadEnds(n) \/ CheckDisconnect(n) \/ AlreadyInFlight(n)
  <2> USE <1>1 DEF ReadEnds, CheckDisconnect, AlreadyInFlight
  <2>1. TypeOK'
    BY DEF TypeOK, ReaderSteps
  <2>2. GuardMatchesLoop' /\ ConnectingIsNumbered'
    BY DEF GuardMatchesLoop, ConnectingIsNumbered, At
  <2>3. reader' \in [Connections -> ReaderSteps] /\ state' = state /\ current' = current
    BY <2>1 DEF TypeOK
  <2>4. \A k \in Connections \ {n} : reader'[k] = reader[k]
    BY DEF TypeOK
  <2>5. n = current /\ state = "connected" => reader'[n] \in {"check", "giveUp", "reconnect"}
    BY DEF TypeOK, StateOwned
  <2>6. StateOwned'
    BY <2>3, <2>4, <2>5, MaxConnectsAssumption DEF TypeOK, StateOwned, Connections
  <2> QED
    BY <2>1, <2>2, <2>6
<1>2. CASE EndDisconnected(n) \/ EndReconnecting(n)
  <2> USE <1>2 DEF EndDisconnected, EndReconnecting
  <2>1. TypeOK'
    BY DEF TypeOK, ReaderSteps, States
  <2>2. GuardMatchesLoop' /\ ConnectingIsNumbered'
    BY DEF GuardMatchesLoop, ConnectingIsNumbered, At
  <2>3. StateOwned'
    BY DEF StateOwned
  <2> QED
    BY <2>1, <2>2, <2>3
<1>3. CASE StartLoop(n)
  <2> USE <1>3 DEF StartLoop, GoTo
  <2>1. TypeOK'
    BY DEF TypeOK, ReaderSteps, Callers, LoopSteps
  <2>2. GuardMatchesLoop'
    BY DEF TypeOK, GuardMatchesLoop, At, Callers
  <2>3. ConnectingIsNumbered' /\ StateOwned'
    BY DEF TypeOK, ConnectingIsNumbered, StateOwned, Callers
  <2> QED
    BY <2>1, <2>2, <2>3
<1> QED
  BY <1>1, <1>2, <1>3 DEF ReadLoop

(* A step of the reconnect loop.                                            *)
LEMMA ReconnectLoopStep == ASSUME IInv, ReconnectLoop PROVE IInv'
<1> USE DEF IInv, At, GoTo, flagVars, connectionVars
<1>1. CASE While \/ Delay \/ Refresh \/ CheckConnected
  <2> USE <1>1 DEF While, Delay, Refresh, CheckConnected
  <2>1. TypeOK'
    BY DEF TypeOK, Callers, ConnectSteps, LoopSteps
  <2>2. GuardMatchesLoop'
    BY DEF TypeOK, GuardMatchesLoop, Callers
  <2>3. ConnectingIsNumbered' /\ StateOwned'
    BY DEF TypeOK, ConnectingIsNumbered, StateOwned, Callers
  <2> QED
    BY <2>1, <2>2, <2>3
<1>2. CASE GiveUp \/ Finish
  <2> USE <1>2 DEF GiveUp, Finish
  <2>1. TypeOK'
    BY DEF TypeOK, Callers, LoopSteps, States
  <2>2. GuardMatchesLoop'
    BY DEF TypeOK, GuardMatchesLoop, Callers
  <2>3. ConnectingIsNumbered' /\ StateOwned'
    BY DEF TypeOK, ConnectingIsNumbered, StateOwned, Callers
  <2> QED
    BY <2>1, <2>2, <2>3
<1> QED
  BY <1>1, <1>2 DEF ReconnectLoop

(* A drop and the two steps of Dispose touch neither the state nor the tasks. *)
LEMMA OutsideStep == ASSUME IInv, Drop \/ RequestDisconnect \/ CancelAll PROVE IInv'
<1> USE DEF IInv, Drop, RequestDisconnect, CancelAll, flagVars, connectionVars
<1>1. TypeOK'
  BY DEF TypeOK, Sockets
<1>2. GuardMatchesLoop' /\ ConnectingIsNumbered' /\ StateOwned'
  BY DEF GuardMatchesLoop, ConnectingIsNumbered, StateOwned, At
<1> QED
  BY <1>1, <1>2

-----------------------------------------------------------------------------
LEMMA NextIInv == IInv /\ [Next]_vars => IInv'
<1> SUFFICES ASSUME IInv, [Next]_vars PROVE IInv'
  OBVIOUS
<1>1. ASSUME NEW c \in Callers, ConnectPresence(c) PROVE IInv'
  BY <1>1, ConnectStep, ConnectSucceedsStep, ConnectFailsStep, OpenedStep DEF ConnectPresence
<1>2. ASSUME NEW n \in Connections, ReadLoop(n) PROVE IInv'
  BY <1>2, ReadLoopStep
<1>3. CASE ReconnectLoop \/ Drop \/ RequestDisconnect \/ CancelAll
  BY <1>3, ReconnectLoopStep, OutsideStep
<1>4. CASE UNCHANGED vars
  BY <1>4 DEF vars, IInv, TypeOK, GuardMatchesLoop, ConnectingIsNumbered, StateOwned, At
<1> QED
  BY <1>1, <1>2, <1>3, <1>4 DEF Next

(* The strengthened invariant holds in every reachable state.               *)
THEOREM Invariant == Spec => []IInv
<1>1. Init => IInv
  BY InitIInv
<1>2. IInv /\ [Next]_vars => IInv'
  BY NextIInv
<1> QED
  BY <1>1, <1>2, PTL DEF Spec

(* Type correctness of the presence connection, RelayClient.cs:227-324.      *)
THEOREM TypeCorrect == Spec => []TypeOK
<1>1. IInv => TypeOK
  BY DEF IInv
<1> QED
  BY <1>1, Invariant, PTL

(* RelayClient.cs:253-258 and 307-322: "connected" is shown over a dead        *)
(* connection only while its read loop is about to take it back.             *)
THEOREM ShownStateIsTrue == Spec => []ConnectedIsTrue
<1>1. IInv => ConnectedIsTrue
  BY DEF IInv, StateOwned, ConnectedIsTrue
<1> QED
  BY <1>1, Invariant, PTL

(* RelayClient.Reconnect.cs:56 and 102-104: the single-flight guard is held    *)
(* exactly while a loop runs, so no loop is started beside another.          *)
THEOREM SingleFlight == Spec => []GuardMatchesLoop
<1>1. IInv => GuardMatchesLoop
  BY DEF IInv
<1> QED
  BY <1>1, Invariant, PTL
=============================================================================

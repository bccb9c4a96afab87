------------------------- MODULE RelayPresenceProofs -------------------------
(***************************************************************************)
(* No request carries a token the server has revoked while no answer is      *)
(* lost, and what is proved of the connections in RelayReconnectProofs holds *)
(* of the client with its tokens, for any number of connections and tokens.  *)
(***************************************************************************)
EXTENDS RelayPresence, RelayReconnectProofs

(* RelayPresence is built on RelayReconnect: each of its steps is one of that  *)
(* module or leaves its variables alone.                                     *)
LEMMA StepRefines == [PresenceNext]_presenceVars => [Next]_vars
<1> SUFFICES ASSUME [PresenceNext]_presenceVars PROVE [Next]_vars
  OBVIOUS
<1>1. ASSUME NEW c \in Callers, ConnectOrCancel(c) PROVE Next
  BY <1>1 DEF ConnectOrCancel, ConnectAnew, OpenedAnew, Next, ConnectPresence
<1>2. ASSUME NEW n \in Connections, ReadLoop(n) PROVE Next
  BY <1>2 DEF Next
<1>3. CASE ReconnectLoopAnew
  <2>1. CASE TokenIsExpiring
    BY <2>1 DEF TokenIsExpiring
  <2>2. CASE ~ TokenIsExpiring
    BY <1>3, <2>2 DEF ReconnectLoopAnew, TokenIsFresh, ReconnectLoop, Next
  <2> QED
    BY <2>1, <2>2
<1>4. CASE Drop \/ RequestDisconnect \/ CancelLoops
  BY <1>4 DEF CancelLoops, Next
<1>5. CASE TokenExpires
  BY <1>5 DEF TokenExpires
<1>6. ASSUME NEW n \in Connections, TokenRefreshLoop(n) PROVE UNCHANGED vars
  BY <1>6 DEF TokenRefreshLoop, RefreshIsDue, RefreshLoopEnds
<1>7. ASSUME NEW r \in Refreshers, RefreshToken(r) PROVE [Next]_vars
  <2>1. CASE Leave(r)
    BY <2>1 DEF Leave, ReconnectLoop, Next
  <2>2. CASE ~ Leave(r)
    BY <1>7, <2>2 DEF RefreshToken, Post, PostDisposed, Rotate, PostFails, AnswerArrives, AnswerIsLost
  <2> QED
    BY <2>1, <2>2
<1>8. CASE UNCHANGED presenceVars
  BY <1>8 DEF presenceVars
<1> QED
  BY <1>1, <1>2, <1>3, <1>4, <1>5, <1>6, <1>7, <1>8 DEF PresenceNext

(* So what is proved of RelayReconnect can be used here; by the construction   *)
(* of the module, and not a fact about the code.                             *)
LEMMA IsReconnect == PresenceSpec => Spec
<1>1. PresenceInit => Init
  BY DEF PresenceInit
<1>2. [PresenceNext]_presenceVars => [Next]_vars
  BY StepRefines
<1> QED
  BY <1>1, <1>2, PTL DEF PresenceSpec, Spec

-----------------------------------------------------------------------------
(* While the first connect is under way nothing else is.                     *)
OneCaller ==
  ~ At("service", "off") => At("loop", "off") /\ \A n \in Connections : reader[n] = "none"

(* No connection that is still to be made, or is being made, has a refresh    *)
(* loop.                                                                     *)
NoneRefreshesEarly ==
  \A n \in Connections :
    n > current \/ (n = current /\ \E c \in Callers : caller[c] \in {"connecting", "opened"})
      => refresher[n] = "off"

AtServer(r) == refresher[r] \in {"posted", "answered"}

(* The lock keeps requests apart.                                            *)
OneRequest ==
  /\ \A r \in Refreshers : AtServer(r) => lock
  /\ \A r, q \in Refreshers : AtServer(r) /\ AtServer(q) => r = q

(* The client is behind the server only while an answer is on its way.       *)
TokensAgree ==
  lost \/ token = valid \/ \E r \in Refreshers : refresher[r] = "answered"

PInv ==
  /\ TokenTypeOK
  /\ OneCaller
  /\ NoneRefreshesEarly
  /\ OneRequest
  /\ TokensAgree
  /\ NoTokenIsReplayed

LEMMA InitPInv == PresenceInit => PInv
<1> SUFFICES ASSUME PresenceInit PROVE PInv
  OBVIOUS
<1> USE MaxTokensAssumption, MaxConnectsAssumption DEF PresenceInit, Init
<1>1. refresher \in [Refreshers -> RefreshSteps] /\ presented \in [Refreshers -> Tokens \cup {0}]
  BY DEF RefreshSteps
<1>2. token \in Tokens /\ valid \in Tokens /\ cancelled \subseteq Connections
  BY DEF Tokens
<1>3. fresh \in BOOLEAN /\ lock \in BOOLEAN /\ lost \in BOOLEAN
  BY Zenon
<1>4. TokenTypeOK
  BY <1>1, <1>2, <1>3 DEF TokenTypeOK
<1>5. OneCaller /\ NoneRefreshesEarly
  BY DEF OneCaller, NoneRefreshesEarly, At, Callers, Connections, Refreshers
<1>6. OneRequest /\ TokensAgree /\ NoTokenIsReplayed
  BY DEF OneRequest, AtServer, TokensAgree, NoTokenIsReplayed
<1> QED
  BY <1>4, <1>5, <1>6 DEF PInv

(* What the tokens' part of the invariant speaks of does not change.          *)
LEMMA TokensUnchanged ==
  ASSUME PInv, UNCHANGED <<token, valid, lock, refresher, presented, lost>>
  PROVE OneRequest' /\ TokensAgree' /\ NoTokenIsReplayed'
BY DEF PInv, OneRequest, AtServer, TokensAgree, NoTokenIsReplayed

-----------------------------------------------------------------------------
(* The steps of a connect.                                                   *)
LEMMA ConnectAnewStep == ASSUME IInv, PInv, NEW c \in Callers, ConnectAnew(c) PROVE PInv'
<1> USE DEF ConnectAnew, Connect, GoTo, At, flagVars
<1>1. TokenTypeOK'
  BY DEF PInv, TokenTypeOK, IInv, TypeOK, Connections
<1>2. OneCaller'
  BY DEF PInv, OneCaller, IInv, TypeOK, Callers
<1>3. NoneRefreshesEarly'
  BY DEF PInv, NoneRefreshesEarly, IInv, TypeOK, Connections
<1> QED
  BY <1>1, <1>2, <1>3, TokensUnchanged DEF PInv

LEMMA ConnectEndsStep ==
  ASSUME IInv, PInv, NEW c \in Callers, ConnectSucceeds(c) \/ ConnectFails(c), UNCHANGED tokenVars
  PROVE PInv'
<1> USE DEF ConnectSucceeds, ConnectFails, AfterConnect, GoTo, At, flagVars, tokenVars
<1>1. TokenTypeOK'
  BY DEF PInv, TokenTypeOK
<1>2. OneCaller'
  BY DEF PInv, OneCaller, IInv, TypeOK, Callers
<1>3. NoneRefreshesEarly'
  BY DEF PInv, NoneRefreshesEarly, IInv, TypeOK
<1> QED
  BY <1>1, <1>2, <1>3, TokensUnchanged DEF PInv

(* A refresh loop starts: the connection had none.                           *)
LEMMA OpenedAnewStep == ASSUME IInv, PInv, NEW c \in Callers, OpenedAnew(c) PROVE PInv'
<1> USE DEF OpenedAnew, Opened, AfterConnect, GoTo, ReaderGoesTo, RefresherGoesTo, At, flagVars,
            connectionVars
<1>1. current \in Connections /\ current \in Refreshers
  BY MaxConnectsAssumption DEF IInv, TypeOK, ConnectingIsNumbered, Connections, Refreshers
<1>2. refresher[current] = "off"
  BY <1>1 DEF PInv, NoneRefreshesEarly
<1>3. refresher' \in [Refreshers -> RefreshSteps] /\ refresher'[current] = "delay"
      /\ \A r \in Refreshers : r # current => refresher'[r] = refresher[r]
  BY <1>1 DEF PInv, TokenTypeOK, RefreshSteps
<1>4. TokenTypeOK'
  BY <1>3 DEF PInv, TokenTypeOK
<1>5. OneCaller'
  BY DEF PInv, OneCaller, IInv, TypeOK, Callers
<1>6. NoneRefreshesEarly'
  <2>1. \A d \in Callers : caller'[d] \notin {"connecting", "opened"}
    BY DEF PInv, OneCaller, IInv, TypeOK, Callers
  <2>2. ASSUME NEW n \in Connections, n > current PROVE refresher'[n] = "off"
    BY <2>2, <1>1, <1>3 DEF PInv, NoneRefreshesEarly, Connections, Refreshers
  <2> QED
    BY <2>1, <2>2 DEF NoneRefreshesEarly
<1>7. OneRequest' /\ NoTokenIsReplayed'
  BY <1>3 DEF PInv, OneRequest, AtServer, NoTokenIsReplayed
<1>8. TokensAgree'
  BY <1>2, <1>3 DEF PInv, TokensAgree
<1> QED
  BY <1>4, <1>5, <1>6, <1>7, <1>8 DEF PInv

-----------------------------------------------------------------------------
(* Steps of RelayReconnect that leave the tokens and the connects alone.      *)
LEMMA ConnectionStep ==
  ASSUME IInv, PInv, UNCHANGED tokenVars,
         \/ \E n \in Connections : ReadLoop(n)
         \/ While \/ Delay \/ CheckConnected \/ GiveUp \/ Finish
         \/ Drop \/ RequestDisconnect
  PROVE PInv'
<1> USE DEF At, GoTo, flagVars, connectionVars
<1>1. TokenTypeOK' /\ current' = current
  BY DEF PInv, TokenTypeOK, tokenVars, ReadLoop, ReadEnds, CheckDisconnect, EndDisconnected,
         EndReconnecting, StartLoop, AlreadyInFlight, While, Delay, CheckConnected, GiveUp,
         Finish, Drop, RequestDisconnect
<1>2. OneCaller' /\ \A c \in Callers : caller'[c] = caller[c]
                      \/ caller'[c] \notin {"connecting", "opened"}
  <2>1. CASE \E n \in Connections : ReadLoop(n)
    <3>1. PICK n \in Connections : ReadLoop(n)
      BY <2>1
    <3>2. reader[n] # "none"
      BY <3>1 DEF ReadLoop, ReadEnds, CheckDisconnect, EndDisconnected, EndReconnecting,
                  StartLoop, AlreadyInFlight, ReaderAt
    <3>3. caller["service"] = "off"
      BY <3>2 DEF PInv, OneCaller
    <3>4. caller' = caller \/ caller' = [caller EXCEPT !["loop"] = "while"]
      BY <3>1 DEF ReadLoop, ReadEnds, CheckDisconnect, EndDisconnected, EndReconnecting,
                  StartLoop, AlreadyInFlight
    <3> QED
      BY <3>3, <3>4 DEF OneCaller, IInv, TypeOK, Callers
  <2>2. CASE While \/ Delay \/ CheckConnected \/ GiveUp \/ Finish
    <3>1. caller["service"] = "off"
      BY <2>2 DEF PInv, OneCaller, While, Delay, CheckConnected, GiveUp, Finish
    <3> QED
      BY <2>2, <3>1 DEF While, Delay, CheckConnected, GiveUp, Finish, OneCaller, IInv, TypeOK,
                        Callers
  <2>3. CASE Drop \/ RequestDisconnect
    BY <2>3 DEF Drop, RequestDisconnect, PInv, OneCaller
  <2> QED
    BY <2>1, <2>2, <2>3
<1>3. NoneRefreshesEarly'
  BY <1>1, <1>2 DEF PInv, NoneRefreshesEarly, tokenVars
<1> QED
  BY <1>1, <1>2, <1>3, TokensUnchanged DEF PInv, tokenVars

LEMMA CancelStep == ASSUME IInv, PInv, CancelLoops \/ TokenExpires PROVE PInv'
<1> USE DEF CancelLoops, CancelAll, TokenExpires, vars
<1>1. cancelled' \subseteq Connections
  <2>1. current # 0 => current \in Connections
    BY MaxConnectsAssumption DEF IInv, TypeOK, Connections
  <2>2. cancelled \subseteq Connections
    BY DEF PInv, TokenTypeOK
  <2> QED
    BY <2>1, <2>2, Zenon
<1>2. TokenTypeOK'
  <2>1. fresh' \in BOOLEAN
    BY Zenon DEF PInv, TokenTypeOK
  <2> QED
    BY <1>1, <2>1 DEF PInv, TokenTypeOK
<1>3. OneCaller' /\ NoneRefreshesEarly'
  BY DEF PInv, OneCaller, NoneRefreshesEarly, At
<1> QED
  BY <1>2, <1>3, TokensUnchanged DEF PInv

-----------------------------------------------------------------------------
(* A refresher that is not at the server, before and after the step.         *)
LEMMA RefresherStep ==
  ASSUME IInv, PInv, NEW r \in Refreshers, NEW step \in RefreshSteps \ {"posted", "answered"},
         ~ AtServer(r), r = 0 \/ refresher[r] # "off",
         RefresherGoesTo(r, step),
         UNCHANGED <<caller, reader, current, cancelled, token, valid, fresh, lock, presented, lost>>
  PROVE PInv'
<1> USE DEF RefresherGoesTo
<1>1. refresher' \in [Refreshers -> RefreshSteps] /\ refresher'[r] = step
      /\ \A q \in Refreshers : q # r => refresher'[q] = refresher[q]
  BY DEF PInv, TokenTypeOK
<1>2. TokenTypeOK'
  BY <1>1 DEF PInv, TokenTypeOK
<1>3. OneCaller'
  BY DEF PInv, OneCaller, At
<1>4. NoneRefreshesEarly'
  BY <1>1 DEF PInv, NoneRefreshesEarly, Connections, Refreshers
<1>5. OneRequest' /\ NoTokenIsReplayed' /\ TokensAgree'
  BY <1>1 DEF PInv, OneRequest, AtServer, NoTokenIsReplayed, TokensAgree
<1> QED
  BY <1>2, <1>3, <1>4, <1>5 DEF PInv

(* The steps before a request.                                               *)
LEMMA BeforeRequestStep ==
  ASSUME IInv, PInv, TokenIsFresh \/ TokenIsExpiring \/ \E n \in Connections : TokenRefreshLoop(n)
  PROVE PInv'
<1>1. CASE TokenIsFresh
  <2> USE <1>1 DEF TokenIsFresh, Refresh, At, GoTo, flagVars, connectionVars, tokenVars
  <2>1. TokenTypeOK'
    BY DEF PInv, TokenTypeOK
  <2>2. OneCaller' /\ NoneRefreshesEarly'
    BY DEF PInv, OneCaller, NoneRefreshesEarly, IInv, TypeOK, Callers
  <2> QED
    BY <2>1, <2>2, TokensUnchanged DEF PInv
<1>2. CASE TokenIsExpiring
  BY <1>2, RefresherStep, MaxConnectsAssumption
     DEF TokenIsExpiring, AtServer, RefreshSteps, Refreshers, vars
<1>3. ASSUME NEW n \in Connections, TokenRefreshLoop(n) PROVE PInv'
  <2>1. n \in Refreshers
    BY DEF Connections, Refreshers
  <2> QED
    BY <1>3, <2>1, RefresherStep
       DEF TokenRefreshLoop, RefreshIsDue, RefreshLoopEnds, AtServer, RefreshSteps, vars
<1> QED
  BY <1>1, <1>2, <1>3

-----------------------------------------------------------------------------
(* The request is sent under the lock: no other is out, so the client has the *)
(* server's token.                                                           *)
LEMMA PostStep == ASSUME IInv, PInv, NEW r \in Refreshers, Post(r) PROVE PInv'
<1> USE DEF Post, RefresherGoesTo, vars
<1>1. refresher' \in [Refreshers -> RefreshSteps] /\ refresher'[r] = "posted"
      /\ \A q \in Refreshers : q # r => refresher'[q] = refresher[q]
  BY DEF PInv, TokenTypeOK, RefreshSteps
<1>2. presented' \in [Refreshers -> Tokens \cup {0}] /\ presented'[r] = token
  BY DEF PInv, TokenTypeOK
<1>3. \A q \in Refreshers : ~ AtServer(q)
  BY DEF PInv, OneRequest
<1>4. TokenTypeOK'
  BY <1>1, <1>2 DEF PInv, TokenTypeOK
<1>5. OneCaller'
  BY DEF PInv, OneCaller, At
<1>6. NoneRefreshesEarly'
  BY <1>1 DEF PInv, NoneRefreshesEarly, Connections, Refreshers
<1>7. OneRequest'
  BY <1>1, <1>3 DEF OneRequest, AtServer
<1>8. lost \/ token = valid
  BY <1>3 DEF PInv, TokensAgree, AtServer
<1>9. TokensAgree'
  BY <1>8 DEF TokensAgree
<1>10. NoTokenIsReplayed'
  BY <1>1, <1>2, <1>3, <1>8 DEF NoTokenIsReplayed, AtServer
<1> QED
  BY <1>4, <1>5, <1>6, <1>7, <1>9, <1>10 DEF PInv

LEMMA RotateStep == ASSUME IInv, PInv, NEW r \in Refreshers, Rotate(r) PROVE PInv'
<1> USE DEF Rotate, RefresherGoesTo, vars
<1>1. refresher' \in [Refreshers -> RefreshSteps] /\ refresher'[r] = "answered"
      /\ \A q \in Refreshers : q # r => refresher'[q] = refresher[q]
  BY DEF PInv, TokenTypeOK, RefreshSteps
<1>2. TokenTypeOK'
  BY <1>1, MaxTokensAssumption DEF PInv, TokenTypeOK, Tokens
<1>3. \A q \in Refreshers : q # r => ~ AtServer(q)
  BY DEF PInv, OneRequest, AtServer
<1>4. OneCaller'
  BY DEF PInv, OneCaller, At
<1>5. NoneRefreshesEarly'
  BY <1>1 DEF PInv, NoneRefreshesEarly, Connections, Refreshers
<1>6. OneRequest' /\ TokensAgree' /\ NoTokenIsReplayed'
  BY <1>1, <1>3 DEF PInv, OneRequest, AtServer, TokensAgree, NoTokenIsReplayed
<1> QED
  BY <1>2, <1>4, <1>5, <1>6 DEF PInv

(* A refresh that ends leaves nobody at the server.                          *)
LEMMA LeaveStep ==
  ASSUME IInv, PInv, NEW r \in Refreshers, Leave(r),
         refresher[r] # "off",
         \A q \in Refreshers : q # r => ~ AtServer(q),
         token' \in Tokens, fresh' \in BOOLEAN, lost' \in BOOLEAN,
         UNCHANGED <<cancelled, valid>>,
         lost' \/ token' = valid
  PROVE PInv'
<1>1. presented' \in [Refreshers -> Tokens \cup {0}] /\ lock' = FALSE
  BY DEF Leave, PInv, TokenTypeOK
<1>2. refresher' \in [Refreshers -> RefreshSteps] /\ ~ AtServer(r)'
      /\ (r # 0 => refresher'[r] = "delay")
      /\ \A q \in Refreshers : q # r => refresher'[q] = refresher[q]
  BY DEF Leave, RefresherGoesTo, PInv, TokenTypeOK, RefreshSteps, AtServer
<1>3. current' = current /\ reader' = reader
      /\ (caller' = caller \/ (At("loop", "refresh") /\ caller' = [caller EXCEPT !["loop"] = "connect"]))
  BY DEF Leave, Refresh, GoTo, connectionVars, vars
<1>4. TokenTypeOK'
  BY <1>1, <1>2 DEF PInv, TokenTypeOK
<1>5. OneCaller'
  BY <1>3 DEF PInv, OneCaller, At, IInv, TypeOK, Callers
<1>6. \A c \in Callers : caller'[c] = caller[c] \/ caller'[c] \notin {"connecting", "opened"}
  BY <1>3 DEF IInv, TypeOK, Callers
<1>7. NoneRefreshesEarly'
  BY <1>2, <1>3, <1>6 DEF PInv, NoneRefreshesEarly, Connections, Refreshers
<1>8. \A q \in Refreshers : ~ AtServer(q)'
  BY <1>2 DEF AtServer
<1>9. OneRequest' /\ TokensAgree' /\ NoTokenIsReplayed'
  BY <1>8 DEF OneRequest, TokensAgree, NoTokenIsReplayed, AtServer
<1> QED
  BY <1>4, <1>5, <1>7, <1>9 DEF PInv

LEMMA RefreshTokenStep == ASSUME IInv, PInv, NEW r \in Refreshers, RefreshToken(r) PROVE PInv'
<1>1. CASE PostDisposed(r)
  <2>1. \A q \in Refreshers : ~ AtServer(q)
    BY <1>1 DEF PostDisposed, PInv, OneRequest
  <2>2. lost \/ token = valid
    BY <2>1 DEF PInv, TokensAgree, AtServer
  <2> QED
    BY <1>1, <2>1, <2>2, LeaveStep DEF PostDisposed, PInv, TokenTypeOK
<1>2. CASE PostFails(r)
  <2>1. \A q \in Refreshers : q # r => ~ AtServer(q)
    BY <1>2 DEF PostFails, PInv, OneRequest, AtServer
  <2>2. lost \/ token = valid
    BY <1>2, <2>1 DEF PostFails, PInv, TokensAgree, AtServer
  <2> QED
    BY <1>2, <2>1, <2>2, LeaveStep DEF PostFails, PInv, TokenTypeOK
<1>3. CASE AnswerArrives(r) \/ AnswerIsLost(r)
  <2>1. \A q \in Refreshers : q # r => ~ AtServer(q)
    BY <1>3 DEF AnswerArrives, AnswerIsLost, PInv, OneRequest, AtServer
  <2>2. fresh' \in BOOLEAN /\ lost' \in BOOLEAN /\ token' \in Tokens
    BY <1>3 DEF AnswerArrives, AnswerIsLost, PInv, TokenTypeOK
  <2> QED
    BY <1>3, <2>1, <2>2, LeaveStep DEF AnswerArrives, AnswerIsLost
<1> QED
  BY <1>1, <1>2, <1>3, PostStep, RotateStep DEF RefreshToken

-----------------------------------------------------------------------------
LEMMA NextPInv == IInv /\ PInv /\ [PresenceNext]_presenceVars => PInv'
<1> SUFFICES ASSUME IInv, PInv, [PresenceNext]_presenceVars PROVE PInv'
  OBVIOUS
<1>1. ASSUME NEW c \in Callers, ConnectOrCancel(c) PROVE PInv'
  BY <1>1, ConnectAnewStep, ConnectEndsStep, OpenedAnewStep DEF ConnectOrCancel
<1>2. ASSUME NEW n \in Connections, ReadLoop(n), UNCHANGED tokenVars PROVE PInv'
  BY <1>2, ConnectionStep
<1>3. CASE ReconnectLoopAnew
  BY <1>3, ConnectionStep, BeforeRequestStep DEF ReconnectLoopAnew
<1>4. CASE (Drop \/ RequestDisconnect) /\ UNCHANGED tokenVars
  BY <1>4, ConnectionStep
<1>5. CASE CancelLoops \/ TokenExpires
  BY <1>5, CancelStep
<1>6. ASSUME NEW n \in Connections, TokenRefreshLoop(n) PROVE PInv'
  BY <1>6, BeforeRequestStep
<1>7. ASSUME NEW r \in Refreshers, RefreshToken(r) PROVE PInv'
  BY <1>7, RefreshTokenStep
<1>8. CASE UNCHANGED presenceVars
  BY <1>8, TokensUnchanged
     DEF presenceVars, vars, tokenVars, PInv, TokenTypeOK, OneCaller, NoneRefreshesEarly, At
<1> QED
  BY <1>1, <1>2, <1>3, <1>4, <1>5, <1>6, <1>7, <1>8 DEF PresenceNext

(* The strengthened invariant holds in every reachable state.               *)
THEOREM PresenceInvariant == PresenceSpec => []PInv
<1>1. PresenceInit => PInv
  BY InitPInv
<1>2. PresenceSpec => []IInv
  BY IsReconnect, Invariant, PTL
<1>3. IInv /\ PInv /\ [PresenceNext]_presenceVars => PInv'
  BY NextPInv
<1> QED
  BY <1>1, <1>2, <1>3, PTL DEF PresenceSpec

(* Type correctness of the tokens, RelayClient.cs:421-484.                    *)
THEOREM TokensTypeCorrect == PresenceSpec => []TokenTypeOK
<1>1. PInv => TokenTypeOK
  BY DEF PInv
<1> QED
  BY <1>1, PresenceInvariant, PTL

(* RelayClient.cs:438-451: unless an answer has been lost, no refresh presents *)
(* a token another refresh has had revoked.                                  *)
THEOREM NoReplay == PresenceSpec => []NoTokenIsReplayed
<1>1. PInv => NoTokenIsReplayed
  BY DEF PInv
<1> QED
  BY <1>1, PresenceInvariant, PTL

(* RelayClient.cs:253-258: the shown state stays true when the refreshes are   *)
(* part of the client.                                                       *)
THEOREM ShownStateStaysTrue == PresenceSpec => []ConnectedIsTrue
  BY IsReconnect, ShownStateIsTrue, PTL
=============================================================================

---------------------------- MODULE RelayPresence ----------------------------
(***************************************************************************)
(* RelayReconnect together with the tokens of RelayClient: the relay server  *)
(* rotates the refresh token at every /auth/refresh and revokes the one that *)
(* was presented, and the refresh loop of every connection, also of those    *)
(* already replaced, competes with the reconnect loop for it.               *)
(*                                                                         *)
(* Tokens are numbered.  Refresher 0 is the reconnect loop, refresher n the  *)
(* TokenRefreshLoopAsync of connection n.                                    *)
(***************************************************************************)
EXTENDS RelayReconnect

CONSTANT MaxTokens   \* bound on the refresh tokens the server issues

ASSUME MaxTokensAssumption == MaxTokens \in Nat \ {0}

VARIABLES
  cancelled,   \* connections whose _cts is cancelled
  token,       \* _refreshToken
  fresh,       \* the access token is not about to expire, _tokenExpiresAt
  valid,       \* the refresh token the server accepts
  lock,        \* _tokenRefreshLock is taken
  refresher,   \* where each refresh is
  presented,   \* the token its request carries, 0 for none
  lost         \* an answer that carried a token has been lost (history)

tokenVars == <<cancelled, token, fresh, valid, lock, refresher, presented, lost>>
presenceVars == <<vars, tokenVars>>

Refreshers == 0 .. MaxConnects
Tokens == 1 .. MaxTokens
RefreshSteps == {"off", "delay", "wait", "posted", "answered"}

(* Type invariant of the tokens.                                             *)
TokenTypeOK ==
  /\ cancelled \subseteq Connections
  /\ token \in Tokens /\ valid \in Tokens
  /\ fresh \in BOOLEAN /\ lock \in BOOLEAN /\ lost \in BOOLEAN
  /\ refresher \in [Refreshers -> RefreshSteps]
  /\ presented \in [Refreshers -> Tokens \cup {0}]

(* The login has brought the first token.                                    *)
PresenceInit ==
  /\ Init
  /\ cancelled = {}
  /\ token = 1 /\ valid = 1 /\ fresh = TRUE
  /\ lock = FALSE /\ lost = FALSE
  /\ refresher = [r \in Refreshers |-> "off"]
  /\ presented = [r \in Refreshers |-> 0]

RefresherGoesTo(r, step) == refresher' = [refresher EXCEPT ![r] = step]

-----------------------------------------------------------------------------
(* ConnectPresenceAsync cancels the loops of the connection before and starts *)
(* those of the new one; Dispose cancels the loops of the current one.       *)
ConnectAnew(c) ==
  /\ Connect(c)
  /\ cancelled' = cancelled \cup ({current} \ {0})
  /\ UNCHANGED <<token, fresh, valid, lock, refresher, presented, lost>>

OpenedAnew(c) ==
  /\ Opened(c)
  /\ RefresherGoesTo(current, "delay")
  /\ UNCHANGED <<cancelled, token, fresh, valid, lock, presented, lost>>

CancelLoops ==
  /\ CancelAll
  /\ cancelled' = cancelled \cup ({current} \ {0})
  /\ UNCHANGED <<token, fresh, valid, lock, refresher, presented, lost>>

-----------------------------------------------------------------------------
(* TokenRefreshLoopAsync: fourteen minutes have passed, or its connection has *)
(* been cancelled, which it sees only while it waits for them.               *)
RefreshIsDue(n) ==
  /\ refresher[n] = "delay" /\ n \notin cancelled /\ valid < MaxTokens
  /\ RefresherGoesTo(n, "wait")
  /\ UNCHANGED <<vars, cancelled, token, fresh, valid, lock, presented, lost>>

RefreshLoopEnds(n) ==
  /\ refresher[n] = "delay" /\ n \in cancelled
  /\ RefresherGoesTo(n, "off")
  /\ UNCHANGED <<vars, cancelled, token, fresh, valid, lock, presented, lost>>

(* EnsureFreshTokenAsync: what is known of the expiry is read before the lock *)
(* is taken, and not again.                                                  *)
TokenIsFresh ==
  /\ fresh /\ refresher[0] = "off"
  /\ Refresh
  /\ UNCHANGED tokenVars

TokenIsExpiring ==
  /\ At("loop", "refresh") /\ refresher[0] = "off" /\ ~ fresh
  /\ RefresherGoesTo(0, "wait")
  /\ UNCHANGED <<vars, cancelled, token, fresh, valid, lock, presented, lost>>

(* The access token of the last refresh approaches its expiry.               *)
TokenExpires ==
  /\ fresh /\ valid < MaxTokens
  /\ fresh' = FALSE
  /\ UNCHANGED <<vars, cancelled, token, valid, lock, refresher, presented, lost>>

-----------------------------------------------------------------------------
(* RefreshTokenAsync                                                         *)

(* The refresh is over: its loop goes on.                                    *)
Leave(r) ==
  /\ lock' = FALSE
  /\ presented' = [presented EXCEPT ![r] = 0]
  /\ IF r = 0 THEN Refresh /\ RefresherGoesTo(0, "off")
              ELSE UNCHANGED vars /\ RefresherGoesTo(r, "delay")

(* Mutant: nobody takes the lock.                                            *)
PostUnlocked(r) ==
  /\ refresher[r] = "wait" /\ ~ disposed
  /\ presented' = [presented EXCEPT ![r] = token]
  /\ RefresherGoesTo(r, "posted")
  /\ UNCHANGED <<vars, cancelled, token, fresh, valid, lock, lost>>

Post(r) ==
  /\ refresher[r] = "wait" /\ ~ lock /\ ~ disposed
  /\ lock' = TRUE
  /\ presented' = [presented EXCEPT ![r] = token]
  /\ RefresherGoesTo(r, "posted")
  /\ UNCHANGED <<vars, cancelled, token, fresh, valid, lost>>

(* Dispose has disposed of the HTTP client: the request throws.               *)
PostDisposed(r) ==
  /\ refresher[r] = "wait" /\ ~ lock /\ disposed
  /\ Leave(r)
  /\ UNCHANGED <<cancelled, token, fresh, valid, lost>>

(* The server issues the next token and revokes the one presented.           *)
Rotate(r) ==
  /\ refresher[r] = "posted" /\ presented[r] = valid /\ valid < MaxTokens
  /\ valid' = valid + 1
  /\ RefresherGoesTo(r, "answered")
  /\ UNCHANGED <<vars, cancelled, token, fresh, lock, presented, lost>>

(* The server refuses the token, or the request does not reach it.           *)
PostFails(r) ==
  /\ refresher[r] = "posted"
  /\ Leave(r)
  /\ UNCHANGED <<cancelled, token, fresh, valid, lost>>

(* Mutant: the token the server issued next is counted from the client's own. *)
CountTokens(r) ==
  /\ refresher[r] = "answered"
  /\ token' = valid + 1 /\ fresh' = TRUE
  /\ Leave(r)
  /\ UNCHANGED <<cancelled, valid, lost>>

(* ApplyAuthTokens                                                           *)
AnswerArrives(r) ==
  /\ refresher[r] = "answered"
  /\ token' = valid /\ fresh' = TRUE
  /\ Leave(r)
  /\ UNCHANGED <<cancelled, valid, lost>>

(* The network, a time-out or Dispose cuts the answer off.                    *)
AnswerIsLost(r) ==
  /\ refresher[r] = "answered"
  /\ lost' = TRUE
  /\ Leave(r)
  /\ UNCHANGED <<cancelled, token, fresh, valid>>

RefreshToken(r) ==
  \/ Post(r) \/ PostDisposed(r) \/ Rotate(r) \/ PostFails(r)
  \/ AnswerArrives(r) \/ AnswerIsLost(r)

-----------------------------------------------------------------------------
ConnectOrCancel(c) ==
  \/ ConnectAnew(c) \/ OpenedAnew(c)
  \/ (ConnectSucceeds(c) \/ ConnectFails(c)) /\ UNCHANGED tokenVars

ReconnectLoopAnew ==
  \/ (While \/ Delay \/ CheckConnected \/ GiveUp \/ Finish) /\ UNCHANGED tokenVars
  \/ TokenIsFresh \/ TokenIsExpiring

TokenRefreshLoop(n) == RefreshIsDue(n) \/ RefreshLoopEnds(n)

PresenceNext ==
  \/ \E c \in Callers : ConnectOrCancel(c)
  \/ \E n \in Connections : ReadLoop(n) /\ UNCHANGED tokenVars
  \/ ReconnectLoopAnew
  \/ (Drop \/ RequestDisconnect) /\ UNCHANGED tokenVars
  \/ CancelLoops
  \/ TokenExpires
  \/ \E n \in Connections : TokenRefreshLoop(n)
  \/ \E r \in Refreshers : RefreshToken(r)

PresenceSpec == PresenceInit /\ [][PresenceNext]_presenceVars

(* As in RelayReconnect; requests end, and the semaphore is given to those    *)
(* who wait for it in the order they came.                                   *)
PresenceFairness ==
  /\ \A c \in Callers : WF_presenceVars(ConnectOrCancel(c))
  /\ \A n \in Connections : WF_presenceVars(ReadLoop(n) /\ UNCHANGED tokenVars)
  /\ WF_presenceVars(ReconnectLoopAnew)
  /\ WF_presenceVars(CancelLoops)
  /\ SF_presenceVars(RefreshToken(0))
  /\ \A n \in Connections : WF_presenceVars(RefreshToken(n))

FairPresenceSpec == PresenceSpec /\ PresenceFairness

-----------------------------------------------------------------------------
(* "each reads the CURRENT _refreshToken inside the lock, so a caller that    *)
(* waits picks up the token the prior refresh just rotated in (instead of     *)
(* replaying a now-revoked one)" (RelayClient.cs:440-442): as long as no      *)
(* answer is lost, every request that is on its way carries the token the     *)
(* server accepts.                                                           *)
NoTokenIsReplayed ==
  \A r \in Refreshers : refresher[r] = "posted" /\ ~ lost => presented[r] = valid
=============================================================================

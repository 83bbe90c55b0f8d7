---------------------------- MODULE LedgerConnect ----------------------------
(***************************************************************************)
(* The connection of a company to its accounting ledger                    *)
(* (server/ledger-oauth.ts): begin records a state, complete consumes it    *)
(* and writes the connection and then its credentials, disconnect wipes     *)
(* the credentials and then turns the connection off.  Every statement      *)
(* commits by itself.  One company and one provider, which is live: the     *)
(* exchange of the code and the revocation are calls to it.                 *)
(***************************************************************************)
CONSTANTS State,   \* values of ledger_oauth_states.state
          Caller   \* requests that may be in progress at once

VARIABLES pendingState,  \* rows of ledger_oauth_states
          connection,    \* ledger_connections.status, or "none"
          credentials,   \* a row of ledger_credentials exists
          spent,         \* history: states that were consumed
          call           \* the requests in progress

ledgerVars == <<pendingState, connection, credentials, spent, call>>

NoState == "no state"
IdleCall == [step |-> "idle", state |-> NoState]
CallStep == {"idle", "consume", "exchange", "connect", "store",
             "read", "revoke", "wipe", "turn off"}

(* The kinds of value of each table and request of server/ledger-oauth.ts.  *)
LedgerTypeOK ==
  /\ pendingState \subseteq State
  /\ connection \in {"none", "connected", "disconnected"}
  /\ credentials \in BOOLEAN
  /\ spent \subseteq State
  /\ call \in [Caller -> [step : CallStep, state : State \cup {NoState}]]

LedgerInit ==
  /\ pendingState = {}
  /\ connection = "none"
  /\ credentials = FALSE
  /\ spent = {}
  /\ call = [c \in Caller |-> IdleCall]

CallAt(c, step) == call[c].step = step
CallGoes(c, step) == call' = [call EXCEPT ![c].step = step]
CallEnds(c) == call' = [call EXCEPT ![c] = IdleCall]

(* beginLedgerConnect: one insert, of a state never used before.            *)
BeginConnect(s) ==
  /\ s \notin pendingState \cup spent
  /\ pendingState' = pendingState \cup {s}
  /\ UNCHANGED <<connection, credentials, spent, call>>

(* completeLedgerConnect may be called with any state, twice with one (the  *)
(* browser reloads the page that the provider returns to).                  *)
CallComplete(c, s) ==
  /\ CallAt(c, "idle")
  /\ call' = [call EXCEPT ![c] = [step |-> "consume", state |-> s]]
  /\ UNCHANGED <<pendingState, connection, credentials, spent>>

(* Faulty variant: the row is read, to be deleted at the end.               *)
ReadState(c) ==
  /\ CallAt(c, "consume")
  /\ spent' = spent \cup (pendingState \cap {call[c].state})
  /\ IF call[c].state \in pendingState THEN CallGoes(c, "exchange") ELSE CallEnds(c)
  /\ UNCHANGED <<pendingState, connection, credentials>>

(* The delete returns the row to one request only.                          *)
ConsumeState(c) ==
  /\ CallAt(c, "consume")
  /\ pendingState' = pendingState \ {call[c].state}
  /\ spent' = spent \cup (pendingState \cap {call[c].state})
  /\ IF call[c].state \in pendingState THEN CallGoes(c, "exchange") ELSE CallEnds(c)
  /\ UNCHANGED <<connection, credentials>>

(* The provider gives tokens for the code that came back with the state.    *)
ExchangeCode(c) ==
  /\ CallAt(c, "exchange")
  /\ CallGoes(c, "connect")
  /\ UNCHANGED <<pendingState, connection, credentials, spent>>

WriteConnection(c) ==
  /\ CallAt(c, "connect")
  /\ connection' = "connected"
  /\ CallGoes(c, "store")
  /\ UNCHANGED <<pendingState, credentials, spent>>

StoreCredentials(c) ==
  /\ CallAt(c, "store")
  /\ credentials' = TRUE
  /\ CallEnds(c)
  /\ UNCHANGED <<pendingState, connection, spent>>

(* disconnectLedger, for a connection that exists.                          *)
CallDisconnect(c) ==
  /\ CallAt(c, "idle")
  /\ connection # "none"
  /\ call' = [call EXCEPT ![c] = [step |-> "read", state |-> NoState]]
  /\ UNCHANGED <<pendingState, connection, credentials, spent>>

(* Stored tokens are revoked first; the call to the provider may fail, and  *)
(* nothing depends on it.                                                   *)
ReadCredentials(c) ==
  /\ CallAt(c, "read")
  /\ CallGoes(c, IF credentials THEN "revoke" ELSE "wipe")
  /\ UNCHANGED <<pendingState, connection, credentials, spent>>

RevokeToken(c) ==
  /\ CallAt(c, "revoke")
  /\ CallGoes(c, "wipe")
  /\ UNCHANGED <<pendingState, connection, credentials, spent>>

(* Faulty variant: the connection is turned off before the secrets go.      *)
TurnOffFirst(c) ==
  /\ CallAt(c, "wipe")
  /\ connection' = "disconnected"
  /\ CallGoes(c, "turn off")
  /\ UNCHANGED <<pendingState, credentials, spent>>

WipeCredentials(c) ==
  /\ CallAt(c, "wipe")
  /\ credentials' = FALSE
  /\ CallGoes(c, "turn off")
  /\ UNCHANGED <<pendingState, connection, spent>>

TurnOff(c) ==
  /\ CallAt(c, "turn off")
  /\ connection' = "disconnected"
  /\ CallEnds(c)
  /\ UNCHANGED <<pendingState, credentials, spent>>

(* The provider refuses, a statement fails or the process dies.             *)
CallFails(c) ==
  /\ ~CallAt(c, "idle")
  /\ CallEnds(c)
  /\ UNCHANGED <<pendingState, connection, credentials, spent>>

LedgerStep(c) ==
  \/ \E s \in State : CallComplete(c, s)
  \/ ConsumeState(c) \/ ExchangeCode(c) \/ WriteConnection(c) \/ StoreCredentials(c)
  \/ CallDisconnect(c) \/ ReadCredentials(c) \/ RevokeToken(c)
  \/ WipeCredentials(c) \/ TurnOff(c) \/ CallFails(c)

LedgerNext ==
  \/ \E s \in State : BeginConnect(s)
  \/ \E c \in Caller : LedgerStep(c)

LedgerSpec == LedgerInit /\ [][LedgerNext]_ledgerVars

-----------------------------------------------------------------------------
(* A state admits one connection: of two completions with it, overlapping   *)
(* or repeated, at most one goes on to the provider, and once consumed it   *)
(* is never pending again (completeLedgerConnect: "invalid or expired       *)
(* connect request").                                                       *)
Spending(c, s) == call[c].state = s /\ call[c].step \in {"exchange", "connect", "store"}

StateSpentOnce ==
  \A s \in State :
    /\ ~(s \in pendingState /\ s \in spent)
    /\ \A b, c \in Caller : Spending(b, s) /\ Spending(c, s) => b = c

(* While one request disconnects, no other is past the consumption of its   *)
(* state.  A completion that overlaps a disconnection may store credentials *)
(* after they were wiped.                                                   *)
LedgerCallsApart ==
  \A b, c \in Caller :
    call[b].step \in {"read", "revoke", "wipe", "turn off"}
      => b = c \/ call[c].step \in {"idle", "consume"}

(* A connection that is off holds no secrets, wherever its requests failed, *)
(* as long as no two overlap (ledger-oauth.ts: "status becomes              *)
(* 'disconnected' and the secrets are wiped").                              *)
SecretsWiped == connection = "disconnected" => ~credentials
=============================================================================

----------------------------- MODULE TokenSource -----------------------------
(***************************************************************************)
(* The OAuth token source of an MCP client (src/mcp/oauth): Token, called  *)
(* by many requests at once, loads the session, refreshes the token or     *)
(* gets a new grant, and saves; InvalidateToken drops an access token.     *)
(* One mutex is held through all of Token, the user's step included.       *)
(*                                                                         *)
(* Access and refresh tokens are numbered as the server, which is          *)
(* external, gives them out; 0 is none.  Every request to a server may     *)
(* fail, and so may the store.                                             *)
(***************************************************************************)
EXTENDS Integers, Sequences, FiniteSets

CONSTANTS
    Procs,       \* who calls Token
    Free,        \* nobody holds the mutex
    Authorizes,  \* Config.Authorize is set; otherwise Config.ClientSecret is
    MaxTokens,   \* bound: access tokens given out
    MaxFaults    \* bound: things that go wrong in a behaviour

ASSUME TokenAssumption == Free \notin Procs /\ Authorizes \in BOOLEAN /\ MaxTokens \in Nat /\ MaxFaults \in Nat

VARIABLES
    holder,    \* of TokenSource.mu
    auth,      \* where Token stands for each caller: "" when not called
    state,     \* the state parameter of the authorization a caller runs
    bearer,    \* what Token returned
    session,   \* TokenSource.session: [loaded, client, access, refresh]
    meta,      \* TokenSource.meta: "", "found" or "default"
    store,     \* what the Store keeps: [client, access, refresh]
    minted,    \* tokens given out by the server
    good,      \* access tokens the server accepts
    expired,   \* access tokens whose expiry the client knows has come
    grant,     \* the refresh token the server accepts
    clients,   \* clients registered
    states,    \* authorizations the user was sent to
    excused,   \* a failure after which registering or asking again is no surprise
    faults     \* things that went wrong so far

tokenVars == <<holder, auth, state, bearer, session, meta, store, minted, good, expired, grant, clients, states, excused, faults>>
issuer    == <<minted, good, grant>>

NoSession == [loaded |-> FALSE, client |-> 0, access |-> 0, refresh |-> 0]
Nothing   == [client |-> 0, access |-> 0, refresh |-> 0]

\* What is saved of a session.
Saved(s) == [client |-> s.client, access |-> s.access, refresh |-> s.refresh]

\* A step that goes wrong uses up a fault.
May(fault) ==
    /\ fault => faults < MaxFaults
    /\ faults' = IF fault THEN faults + 1 ELSE faults

Valid(access) == access # 0 /\ access \notin expired

-----------------------------------------------------------------------------
(* Token. *)

At(p, label) == auth' = [auth EXCEPT ![p] = label]

\* The caller has used what Token returned.
Used(p) ==
    /\ At(p, "") /\ bearer' = [bearer EXCEPT ![p] = 0]
    /\ UNCHANGED <<holder, state, session, meta, store, issuer, expired, clients, states, excused>>

\* Returning with the mutex held.
LeavesLocked(p, access) ==
    /\ bearer' = [bearer EXCEPT ![p] = access]
    /\ At(p, IF access = 0 THEN "failed" ELSE "got")
    /\ UNCHANGED holder

\* Return what was asked for, or an error, and unlock.
Leave(p, access) ==
    /\ bearer' = [bearer EXCEPT ![p] = access]
    /\ At(p, IF access = 0 THEN "failed" ELSE "got")
    /\ holder' = Free

\* What is tried after discovery when no access token is valid.
NextGrant(s) == IF s.refresh # 0 THEN "refresh" ELSE "grant"

\* Metadata that cannot be fetched is replaced by the default endpoints, for good.
Discovered(reached) == IF meta # "" THEN meta ELSE IF reached THEN "found" ELSE "default"

\* Lock, load the session unless it was, and return the token if it is valid.
Enter(p, reached) ==
    /\ auth[p] = "lock" /\ holder = Free /\ May(~reached)
    /\ LET s == IF session.loaded THEN session
                ELSE [loaded |-> TRUE, client |-> store.client, access |-> store.access, refresh |-> store.refresh]
       IN /\ session' = s
          /\ IF Valid(s.access) THEN Leave(p, s.access) /\ UNCHANGED meta
             ELSE holder' = p /\ At(p, NextGrant(s)) /\ meta' = Discovered(reached) /\ UNCHANGED bearer
    /\ UNCHANGED <<state, store, issuer, expired, clients, states, excused>>

LoadFails(p) ==
    /\ auth[p] = "lock" /\ holder = Free /\ ~session.loaded /\ May(TRUE)
    /\ Leave(p, 0)
    /\ UNCHANGED <<state, session, meta, store, issuer, expired, clients, states, excused>>

\* The server, which is external, gives a token, and a refresh token of its
\* choice: a new one in place of the old, or none.
Mint(refresh) ==
    /\ minted < MaxTokens
    /\ minted' = minted + 1 /\ good' = good \union {minted + 1}
    /\ grant' = IF refresh = 0 THEN grant ELSE refresh

\* A request to the token endpoint is answered unless something goes wrong.
Answers == meta = "found" /\ minted < MaxTokens

\* Taking over an answer without a refresh token as it is.
TakesAsGiven(s, refresh) == refresh

\* store: a refresh token that is left out stays the same.
Kept(s, refresh) == IF refresh = 0 THEN s.refresh ELSE refresh

Granted(p, refresh) ==
    /\ Mint(refresh)
    /\ session' = [session EXCEPT !.access = minted + 1, !.refresh = Kept(session, refresh)]
    /\ At(p, "save")

Refresh(p, rotates) ==
    /\ auth[p] = "refresh" /\ meta = "found" /\ session.refresh = grant
    /\ Granted(p, IF rotates THEN minted + 1 ELSE 0) /\ May(FALSE)
    /\ UNCHANGED <<holder, state, bearer, meta, store, expired, clients, states, excused>>

\* Any failure of the refresh leads to a new grant.
RefreshFails(p) ==
    /\ auth[p] = "refresh" /\ May(Answers /\ session.refresh = grant)
    /\ At(p, "grant")
    /\ excused' = TRUE
    /\ UNCHANGED <<holder, state, bearer, session, meta, store, issuer, expired, clients, states>>

\* authorizationCode: a client that has no ID registers, and saves it.
Register(p, ok) ==
    /\ auth[p] = "grant" /\ Authorizes /\ session.client = 0 /\ May(~ok /\ meta = "found")
    /\ IF ok /\ meta = "found"
       THEN /\ clients' = clients + 1 /\ session' = [session EXCEPT !.client = clients + 1]
            /\ At(p, "save client") /\ UNCHANGED <<holder, bearer, excused>>
       ELSE Leave(p, 0) /\ excused' = TRUE /\ UNCHANGED <<clients, session>>
    /\ UNCHANGED <<state, meta, store, issuer, expired, states>>

\* Then the user is sent to the server, with a state of its own.
Authorize(p) ==
    /\ auth[p] = "grant" /\ Authorizes /\ session.client # 0 /\ May(FALSE)
    /\ states' = states + 1
    /\ state' = [state EXCEPT ![p] = states + 1]
    /\ At(p, "user")
    /\ UNCHANGED <<holder, bearer, session, meta, store, issuer, expired, clients, excused>>

\* Loopback: the first redirect decides, be it of another authorization.
Redirected(p, s, ok) ==
    /\ auth[p] = "user" /\ s \in 1..states /\ May(s # state[p] \/ ~ok)
    /\ IF s = state[p] /\ ok THEN At(p, "exchange") /\ UNCHANGED <<holder, bearer, excused>>
       ELSE Leave(p, 0) /\ excused' = TRUE
    /\ state' = [state EXCEPT ![p] = 0]
    /\ UNCHANGED <<session, meta, store, issuer, expired, clients, states>>

\* The code, or the client's secret, buys a token.
CanExchange(p) == auth[p] = "exchange" \/ (auth[p] = "grant" /\ ~Authorizes)

Exchange(p, refreshes) ==
    /\ CanExchange(p) /\ meta = "found" /\ May(FALSE)
    /\ Granted(p, IF refreshes THEN minted + 1 ELSE 0)
    /\ excused' = (excused \/ ~refreshes)
    /\ UNCHANGED <<holder, state, bearer, meta, store, expired, clients, states>>

ExchangeFails(p) ==
    /\ CanExchange(p) /\ May(Answers)
    /\ Leave(p, 0)
    /\ excused' = TRUE
    /\ UNCHANGED <<state, session, meta, store, issuer, expired, clients, states>>

\* A session that cannot be saved stays in memory, and the call fails.
Save(p, ok) ==
    /\ auth[p] \in {"save", "save client"} /\ May(~ok)
    /\ store' = IF ok THEN Saved(session) ELSE store
    /\ CASE ok /\ auth[p] = "save client" -> At(p, "grant") /\ UNCHANGED <<holder, bearer>>
         [] ok /\ auth[p] = "save"        -> Leave(p, session.access)
         [] OTHER                         -> Leave(p, 0)
    /\ excused' = (excused \/ ~ok)
    /\ UNCHANGED <<state, session, meta, issuer, expired, clients, states>>

-----------------------------------------------------------------------------
(* InvalidateToken, and what the server does to tokens. *)

\* Keeping the token that was rejected.
KeepsToken(s) == s

Invalidated(s) == [s EXCEPT !.access = 0]

InvalidateToken ==
    /\ holder = Free
    /\ session' = Invalidated(session)
    /\ UNCHANGED <<holder, state, bearer, meta, store, issuer, expired, clients, states, excused>>

Expire(access) ==
    /\ access \in good /\ May(TRUE)
    /\ good' = good \ {access} /\ expired' = expired \union {access}
    /\ UNCHANGED <<holder, auth, state, bearer, session, meta, store, minted, grant, clients, states, excused>>

Revoke(access) ==
    /\ access \in good /\ May(TRUE)
    /\ good' = good \ {access}
    /\ UNCHANGED <<holder, auth, state, bearer, session, meta, store, minted, expired, grant, clients, states, excused>>

\* The process stops, and what it had not saved is gone.
Unsaved == \E p \in Procs : auth[p] \in {"save", "save client", "user", "exchange"}

Restart ==
    /\ May(TRUE)
    /\ holder' = Free /\ auth' = [p \in Procs |-> ""] /\ bearer' = [p \in Procs |-> 0]
    /\ session' = NoSession /\ meta' = "" /\ state' = [p \in Procs |-> 0]
    /\ excused' = (excused \/ Unsaved)
    /\ UNCHANGED <<store, issuer, expired, clients, states>>

TokenInit ==
    /\ holder = Free /\ auth = [p \in Procs |-> ""] /\ state = [p \in Procs |-> 0] /\ bearer = [p \in Procs |-> 0]
    /\ session = NoSession /\ meta = "" /\ store = Nothing
    /\ minted = 0 /\ good = {} /\ expired = {} /\ grant = 0
    /\ clients = 0 /\ states = 0 /\ excused = FALSE /\ faults = 0

TokenStep(p) ==
    \/ \E reached \in BOOLEAN : Enter(p, reached)
    \/ LoadFails(p)
    \/ \E rotates \in BOOLEAN : Refresh(p, rotates) \/ Exchange(p, rotates)
    \/ RefreshFails(p)
    \/ \E ok \in BOOLEAN : Register(p, ok) \/ Save(p, ok) \/ \E s \in 1..states : Redirected(p, s, ok)
    \/ Authorize(p)
    \/ ExchangeFails(p)
=============================================================================

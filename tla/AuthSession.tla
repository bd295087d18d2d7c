---------------------------- MODULE AuthSession ----------------------------
(***************************************************************************)
(* The stored session of one profile, shared by concurrent callers in one  *)
(* or several CLI processes: resolve_access_token, `auth refresh`,         *)
(* `auth login` and `auth logout`, with the token lock, the in-process     *)
(* refresh mutex, the keychain-first store with its file fallback, and an  *)
(* IAM server that rotates refresh tokens (external).  AGS_ACCESS_TOKEN,   *)
(* which bypasses all of this, is unset.                                   *)
(*                                                                         *)
(* A token is its mint number, the client and the grant it was minted for; *)
(* authorization-code tokens carry a refresh token, client-credentials     *)
(* ones do not.  Client "A" is the profile's; "B" comes from AGS_CLIENT_ID *)
(* in the environment, together with AGS_CLIENT_SECRET.                    *)
(***************************************************************************)
EXTENDS Naturals, FiniteSets

CONSTANTS
    Resolvers,   \* callers of resolve_access_token
    Refreshers,  \* callers of refresh_profile (`ags auth refresh`)
    Forcers,     \* callers of force_refresh_session (a 401 in the tunnel)
    Logins,      \* probe_existing_session, then a grant and persist_login
    Logouts,     \* callers of logout_profile
    EnvTasks,    \* callers whose client and secret come from the environment
    OneProcess,  \* callers that run as tasks of one process
    Keychain,    \* whether the keychain is in use (AGS_NO_KEYCHAIN unset)
    Sessions,    \* bound: the sessions a run starts from
    MaxTokens,   \* bound: tokens the server mints
    MaxExpired,  \* bound: refresh tokens that expire
    Faults       \* bound: which of the faults below can happen

Tasks == Resolvers \cup Refreshers \cup Forcers \cup Logins \cup Logouts
Free == "free"
NoClient == "none"

ASSUME TasksAssumption ==
    /\ Free \notin Tasks
    /\ Resolvers \cap (Refreshers \cup Forcers \cup Logins \cup Logouts) = {}
    /\ Refreshers \cap (Forcers \cup Logins \cup Logouts) = {}
    /\ Forcers \cap (Logins \cup Logouts) = {} /\ Logins \cap Logouts = {}
    /\ EnvTasks \subseteq Tasks /\ OneProcess \subseteq Tasks
    /\ OneProcess \cap EnvTasks = {} \/ OneProcess \subseteq EnvTasks  \* one environment

ASSUME AuthBoundsAssumption ==
    /\ Keychain \in BOOLEAN /\ MaxTokens \in Nat \ {0} /\ MaxExpired \in Nat
    /\ Sessions \subseteq {"none", "ac", "cc"}
    /\ Faults \subseteq {"outage", "reject", "disk", "network", "revoke", "crash"}

Clients == {"A", "B"}
Grants == {"ac", "cc"}
Tokens == [n : 1..MaxTokens, client : Clients, grant : Grants]
NoToken == [n |-> 0, client |-> NoClient, grant |-> "cc"]

VARIABLES
    kc,      \* the keychain's token entry
    file,    \* token.json
    kcState, \* the keychain works, is absent ("down"), or fails every call
    config,  \* client_id and grant_type in the profile's config
    secret,  \* where a client secret is stored: "keychain", "file"
    lock,    \* holder of the token file lock
    mutex,   \* holder of OneProcess's refresh mutex
    minted,  \* server: tokens minted so far
    live,    \* server: mint numbers whose refresh token it accepts
    stale,   \* mint numbers whose access token is (nearly) expired
    expired, \* mint numbers whose refresh token is past refresh_expires_at
    pc,      \* program counter of each caller
    tok,     \* the token a caller has read, and then the one it was given
    want,    \* the client a caller expects, then the one it presents
    isAc,    \* resolve_access_token's is_authorization_code
    latest   \* history: what the last completed write left in the store

storeVars  == <<kc, file, kcState, latest>>
lockVars   == <<lock, mutex>>
serverVars == <<minted, live, stale, expired>>
callerVars == <<pc, tok, want, isAc>>
vars == <<storeVars, config, secret, lockVars, serverVars, callerVars>>

----------------------------------------------------------------------------
\* get_token_data(..).ok().flatten(): the keychain entry, or the file when
\* there is none or the keychain is absent; a failing read counts as none.
Stored ==
    IF kcState = "failing" THEN NoToken
    ELSE IF kcState = "up" /\ kc # NoToken THEN kc ELSE file

Goto(t, l) == pc' = [pc EXCEPT ![t] = l]

\* env var first, then the profile (credentials.rs).
ClientId(t)  == IF t \in EnvTasks THEN "B" ELSE config.client
HasSecret(t) ==
    \/ t \in EnvTasks
    \/ kcState = "up" /\ "keychain" \in secret
    \/ kcState # "failing" /\ "file" \in secret

FirstToken(g) == IF g = "none" THEN NoToken ELSE [n |-> 1, client |-> "A", grant |-> g]

Init ==
    /\ kcState = IF Keychain THEN "up" ELSE "down"
    /\ \E g \in Sessions :
          LET first == FirstToken(g) IN
          /\ kc = IF Keychain THEN first ELSE NoToken
          /\ file = IF Keychain THEN NoToken ELSE first
          /\ latest = first
          /\ minted = first.n
          /\ live = IF g = "ac" THEN {1} ELSE {}
          /\ stale \in {{}, {first.n} \ {0}}
          /\ config = [client |-> first.client, grant |-> g]
          /\ secret = IF g = "cc" THEN {IF Keychain THEN "keychain" ELSE "file"} ELSE {}
    /\ expired = {}
    /\ lock = Free
    /\ mutex = Free
    /\ pc = [t \in Tasks |-> "start"]
    /\ tok = [t \in Tasks |-> NoToken]
    /\ want = [t \in Tasks |-> NoClient]
    /\ isAc = [t \in Tasks |-> FALSE]

----------------------------------------------------------------------------
(* The beginnings of the four operations.                                  *)

\* The grant type is read once, before the probe; None counts as
\* authorization code.
ResolveStart(t) ==
    /\ pc[t] = "start" /\ t \in Resolvers
    /\ isAc' = [isAc EXCEPT ![t] = Stored = NoToken \/ Stored.grant = "ac"]
    /\ want' = [want EXCEPT ![t] = ClientId(t)]
    /\ Goto(t, "read")
    /\ UNCHANGED <<storeVars, config, secret, lockVars, serverVars, tok>>

\* refresh_profile routes by the recorded grant type, and without one by the
\* credentials at hand; both routes need a client id.
RefreshStart(t) ==
    LET cc == config.grant = "cc" \/ (config.grant = "none" /\ HasSecret(t))
        ac == \/ config.grant = "ac"
              \/ config.grant = "none" /\ ~HasSecret(t) /\ Stored.grant = "ac"
    IN
    /\ pc[t] = "start" /\ t \in Refreshers
    /\ want' = [want EXCEPT ![t] = ClientId(t)]
    /\ Goto(t, IF ClientId(t) = NoClient THEN "failed"
               ELSE IF cc /\ HasSecret(t) THEN "grant"
               ELSE IF ~cc /\ ac THEN "read" ELSE "failed")
    /\ UNCHANGED <<storeVars, config, secret, lockVars, serverVars, tok, isAc>>

\* force_refresh_session expects no particular client.
ForceStart(t) ==
    /\ pc[t] = "start" /\ t \in Forcers
    /\ Goto(t, "read")
    /\ UNCHANGED <<storeVars, config, secret, lockVars, serverVars, tok, want, isAc>>

LoginClient(t) == IF t \in EnvTasks THEN "B" ELSE "A"

Fresh(x) == x # NoToken /\ x.n \notin stale

\* stored_identity_matches and existing_access_token_still_valid.
LoginStart(t) ==
    LET same == config.client \in {NoClient, LoginClient(t)}
        usable == Fresh(Stored) /\ Stored.client = LoginClient(t)
    IN
    /\ pc[t] = "start" /\ t \in Logins
    /\ want' = [want EXCEPT ![t] = LoginClient(t)]
    /\ \/ ~same /\ Goto(t, "grant") /\ UNCHANGED tok
       \/ same /\ usable /\ Goto(t, "done") /\ tok' = [tok EXCEPT ![t] = Stored]
       \/ same /\ ~usable /\ Goto(t, "read") /\ UNCHANGED tok
    /\ UNCHANGED <<storeVars, config, secret, lockVars, serverVars, isAc>>

\* delete_secret needs no lock; it skips an absent keychain and gives up on
\* a failing one, and logout ignores that.
LogoutStart(t) ==
    /\ pc[t] = "start" /\ t \in Logouts
    /\ secret' = IF kcState = "up" THEN {}
                 ELSE IF kcState = "down" THEN secret \ {"file"} ELSE secret
    /\ Goto(t, "dellock")
    /\ UNCHANGED <<storeVars, config, lockVars, serverVars, tok, want, isAc>>

----------------------------------------------------------------------------
(* try_refresh_stored_session.                                             *)

\* client_matches, then the fresh-token shortcut of RefreshMode::Probe, then
\* refresh_token_availability.
Verdict(t, x) ==
    IF x = NoToken THEN "none"
    ELSE IF want[t] # NoClient /\ x.client # want[t] THEN "mismatch"
    ELSE IF t \notin Refreshers \cup Forcers /\ Fresh(x) THEN "fresh"
    ELSE IF x.grant = "cc" \/ x.n \in expired THEN "norefresh"
    ELSE "go"

\* Where RefreshOutcome::Unavailable leads: a forced refresh fails, login goes
\* on to a fresh grant, and a resolver falls through to client credentials
\* unless the session is an authorization-code one (or another client's, and
\* no secret is at hand).
AfterUnavailable(t, why) ==
    IF t \in Logins THEN "grant"
    ELSE IF t \in Resolvers /\ \/ why = "none"
                               \/ why = "mismatch" /\ HasSecret(t)
                               \/ why = "norefresh" /\ ~isAc[t]
         THEN "cc"
    ELSE "failed"

AfterVerdict(t, v) ==
    IF v = "fresh" THEN "done" ELSE AfterUnavailable(t, v)

\* The fast path, without locks.
Read(t) ==
    /\ pc[t] = "read"
    /\ LET v == Verdict(t, Stored) IN
          /\ Goto(t, IF v = "go" THEN "mutex" ELSE AfterVerdict(t, v))
          /\ tok' = [tok EXCEPT ![t] = Stored]
    /\ UNCHANGED <<storeVars, config, secret, lockVars, serverVars, want, isAc>>

\* The in-process mutex, then the file lock (twice in resolve_access_token:
\* for the refresh and for the client-credentials grant).
TakeMutex(t) ==
    /\ pc[t] \in {"mutex", "ccmutex"}
    /\ \/ t \notin OneProcess /\ UNCHANGED mutex
       \/ t \in OneProcess /\ mutex = Free /\ mutex' = t
    /\ Goto(t, IF pc[t] = "mutex" THEN "lock" ELSE "cclock")
    /\ UNCHANGED <<storeVars, config, secret, lock, serverVars, tok, want, isAc>>

AfterLock ==
    [l \in {"lock", "cclock", "dellock", "plock"} |->
        IF l = "lock" THEN "reread" ELSE
        IF l = "cclock" THEN "ccfetch" ELSE
        IF l = "dellock" THEN "delkc" ELSE "store"]

\* Mutant: a lock that is held is not waited for.
TakeLockNoWait(t) ==
    /\ pc[t] \in DOMAIN AfterLock
    /\ lock' = t
    /\ Goto(t, AfterLock[pc[t]])
    /\ UNCHANGED <<storeVars, config, secret, mutex, serverVars, tok, want, isAc>>

TakeLock(t) ==
    /\ pc[t] \in DOMAIN AfterLock
    /\ lock = Free
    /\ lock' = t
    /\ Goto(t, AfterLock[pc[t]])
    /\ UNCHANGED <<storeVars, config, secret, mutex, serverVars, tok, want, isAc>>

\* Returning drops both guards.
Release(t) ==
    /\ lock' = IF lock = t THEN Free ELSE lock
    /\ mutex' = IF mutex = t THEN Free ELSE mutex

\* Mutant: the token read before the lock was taken is used.
RereadStale(t) ==
    /\ pc[t] = "reread"
    /\ Goto(t, "fetch")
    /\ want' = [want EXCEPT ![t] = ClientId(t)]
    /\ UNCHANGED <<storeVars, config, secret, lockVars, serverVars, tok, isAc>>

\* Mutant: the client is not compared again under the lock.
RereadNoClientCheck(t) ==
    /\ pc[t] = "reread"
    /\ tok' = [tok EXCEPT ![t] = Stored]
    /\ IF Fresh(Stored)
       THEN Goto(t, "done") /\ Release(t)
       ELSE Goto(t, "failed") /\ Release(t)
    /\ UNCHANGED <<storeVars, config, secret, serverVars, want, isAc>>

\* Everything is decided again from what is stored now, under both locks.
Reread(t) ==
    LET v == Verdict(t, Stored) IN
    /\ pc[t] = "reread"
    /\ tok' = [tok EXCEPT ![t] = Stored]
    /\ \/ /\ v = "go" /\ ClientId(t) # NoClient
          /\ want' = [want EXCEPT ![t] = ClientId(t)]
          /\ Goto(t, "fetch")
          /\ UNCHANGED lockVars
       \/ /\ v = "go" /\ ClientId(t) = NoClient       \* ClientIdMissing
          /\ Goto(t, "failed")
          /\ Release(t) /\ UNCHANGED want
       \/ /\ v # "go"
          /\ Goto(t, AfterVerdict(t, v))
          /\ Release(t) /\ UNCHANGED want
    /\ UNCHANGED <<storeVars, config, secret, serverVars, isAc>>

\* Server (external): a refresh token is accepted once, from its own client,
\* and replaced by a new one.
Accepts(t) == tok[t].n \in live /\ tok[t].client = want[t]

Minted(t, g) == [n |-> minted + 1, client |-> want[t], grant |-> g]

Mint(t, g) ==
    /\ minted < MaxTokens
    /\ minted' = minted + 1
    /\ tok' = [tok EXCEPT ![t] = Minted(t, g)]

\* Mutant: a refresh that fails keeps the locks.
FetchKeepsLock(t) ==
    /\ pc[t] = "fetch"
    /\ \/ /\ Accepts(t) /\ Mint(t, tok[t].grant)
          /\ live' = (live \ {tok[t].n}) \cup {minted + 1}
          /\ Goto(t, "store")
          /\ UNCHANGED lockVars
       \/ /\ ~Accepts(t)
          /\ Goto(t, IF t \in Logins THEN "dellock"
                     ELSE IF t \in Resolvers /\ ~isAc[t] THEN "cc" ELSE "failed")
          /\ UNCHANGED <<lockVars, minted, live, tok>>
       \/ /\ "network" \in Faults
          /\ live' \in {live, IF Accepts(t) THEN live \ {tok[t].n} ELSE live}
          /\ Goto(t, "failed")
          /\ UNCHANGED <<lockVars, minted, tok>>
    /\ UNCHANGED <<storeVars, config, secret, stale, expired, want, isAc>>

\* The refresh request: a new token, a rejection (classify_refresh_error), or
\* a transport error, which may hide that the server did rotate the token.
Fetch(t) ==
    /\ pc[t] = "fetch"
    /\ \/ /\ Accepts(t) /\ Mint(t, tok[t].grant)
          /\ live' = (live \ {tok[t].n}) \cup {minted + 1}
          /\ Goto(t, "store")
          /\ UNCHANGED lockVars
       \/ /\ ~Accepts(t)
          /\ Goto(t, IF t \in Logins THEN "dellock"
                     ELSE IF t \in Resolvers /\ ~isAc[t] THEN "cc" ELSE "failed")
          /\ Release(t) /\ UNCHANGED <<minted, live, tok>>
       \/ /\ "network" \in Faults
          /\ live' \in {live, IF Accepts(t) THEN live \ {tok[t].n} ELSE live}
          /\ Goto(t, "failed")
          /\ Release(t) /\ UNCHANGED <<minted, tok>>
    /\ UNCHANGED <<storeVars, config, secret, stale, expired, want, isAc>>

----------------------------------------------------------------------------
(* The client-credentials grant of resolve_access_token.                   *)

Credentials(t) ==
    /\ pc[t] = "cc"
    /\ \/ ClientId(t) # NoClient /\ HasSecret(t) /\ Goto(t, "ccmutex")
       \/ ~(ClientId(t) # NoClient /\ HasSecret(t)) /\ Goto(t, "failed")
    /\ want' = [want EXCEPT ![t] = ClientId(t)]
    /\ UNCHANGED <<storeVars, config, secret, lockVars, serverVars, tok, isAc>>

CcFetch(t) ==
    /\ pc[t] = "ccfetch"
    /\ \/ Mint(t, "cc") /\ Goto(t, "store") /\ UNCHANGED lockVars
       \/ /\ "network" \in Faults
          /\ Goto(t, "failed") /\ Release(t) /\ UNCHANGED <<minted, tok>>
    /\ UNCHANGED <<storeVars, config, secret, live, stale, expired, want, isAc>>

\* login_with_authorization_code, login_with_client_credentials and the
\* client-credentials route of refresh_profile fetch their token before
\* persist_login takes the lock.
Grant(t) ==
    LET g == IF t \in EnvTasks \cup Refreshers THEN "cc" ELSE "ac" IN
    /\ pc[t] = "grant"
    /\ \/ /\ Mint(t, g)
          /\ live' = IF g = "ac" THEN live \cup {minted + 1} ELSE live
          /\ Goto(t, "plock")
       \/ /\ "network" \in Faults
          /\ Goto(t, "failed") /\ UNCHANGED <<minted, live, tok>>
    /\ UNCHANGED <<storeVars, config, secret, lockVars, stale, expired, want, isAc>>

----------------------------------------------------------------------------
(* store_token_data_unlocked and delete_token_data_unlocked.               *)

\* persist_login goes on to the config; the refresh and the client-credentials
\* grant of resolve_access_token end here.
AfterStore(t, x) ==
    IF t \in Logins \/ (t \in Refreshers /\ x.grant = "cc") THEN "config" ELSE "done"

\* Mutant: a token that goes to the file leaves the keychain entry alone.
StoreKeepsEntry(t) ==
    /\ pc[t] = "store"
    /\ \/ /\ kcState = "up"
          /\ kc' = tok[t] /\ latest' = tok[t]
          /\ Goto(t, AfterStore(t, tok[t])) /\ Release(t)
       \/ /\ kcState # "up" \/ "reject" \in Faults
          /\ Goto(t, "write")
          /\ UNCHANGED <<kc, latest, lockVars>>
    /\ UNCHANGED <<file, kcState, config, secret, serverVars, tok, want, isAc>>

\* The keychain takes the token; or it is off, absent, failing, or refuses
\* this token (over its size limit), and then clear_keychain_token_entry
\* deletes its entry, best effort, before the file is written.
Store(t) ==
    /\ pc[t] = "store"
    /\ \/ /\ kcState = "up"
          /\ kc' = tok[t] /\ latest' = tok[t]
          /\ Goto(t, AfterStore(t, tok[t])) /\ Release(t)
       \/ /\ kcState # "up" \/ "reject" \in Faults
          /\ kc' = IF kcState = "up" THEN NoToken ELSE kc
          /\ Goto(t, "write")
          /\ UNCHANGED <<latest, lockVars>>
    /\ UNCHANGED <<file, kcState, config, secret, serverVars, tok, want, isAc>>

\* write_file_restricted renames a complete temporary file over token.json.  A
\* failure leaves the file that was there, which the keychain entry, cleared
\* before, no longer hides: the token it holds may be an old one.
WriteFile(t) ==
    /\ pc[t] = "write"
    /\ \/ /\ file' = tok[t] /\ latest' = tok[t]
          /\ Goto(t, AfterStore(t, tok[t]))
       \/ /\ "disk" \in Faults
          /\ Goto(t, "failed") /\ UNCHANGED <<file, latest>>
    /\ Release(t)
    /\ UNCHANGED <<kc, kcState, config, secret, serverVars, tok, want, isAc>>

\* What follows delete_token_data, whether it succeeded or not.
AfterDelete(t) == IF t \in Logins THEN "grant" ELSE "config"

\* An absent keychain is skipped; a failing one ends the deletion with an
\* error, which logout ignores and login only reports.
DeleteEntry(t) ==
    /\ pc[t] = "delkc"
    /\ kc' = IF kcState = "up" THEN NoToken ELSE kc
    /\ \/ kcState # "failing" /\ Goto(t, "delfile") /\ UNCHANGED lockVars
       \/ kcState = "failing" /\ Goto(t, AfterDelete(t)) /\ Release(t)
    /\ UNCHANGED <<file, kcState, latest, config, secret, serverVars, tok, want, isAc>>

\* Mutant: logout clears the keychain entry only.
DeleteFileSkipped(t) ==
    /\ pc[t] = "delfile"
    /\ latest' = NoToken
    /\ Goto(t, AfterDelete(t)) /\ Release(t)
    /\ UNCHANGED <<file, kc, kcState, config, secret, serverVars, tok, want, isAc>>

\* token.json is removed; a failure leaves it, and the session it holds.
DeleteFile(t) ==
    /\ pc[t] = "delfile"
    /\ \/ file' = NoToken /\ latest' = NoToken
       \/ "disk" \in Faults /\ file # NoToken /\ UNCHANGED <<file, latest>>
    /\ Goto(t, AfterDelete(t)) /\ Release(t)
    /\ UNCHANGED <<kc, kcState, config, secret, serverVars, tok, want, isAc>>

\* ProfileConfig::update, after the token lock is gone: persist_login records
\* the client and the grant, logout removes the client; either may fail.
UpdateConfig(t) ==
    /\ pc[t] = "config"
    /\ \/ /\ "disk" \in Faults
          /\ Goto(t, "failed") /\ UNCHANGED config
       \/ /\ t \in Logouts
          /\ config' = [config EXCEPT !.client = NoClient]
          /\ Goto(t, "done")
       \/ /\ t \notin Logouts
          /\ config' = [client |-> want[t], grant |-> tok[t].grant]
          /\ Goto(t, IF tok[t].grant = "cc" THEN "secret" ELSE "done")
    /\ UNCHANGED <<storeVars, secret, lockVars, serverVars, tok, want, isAc>>

\* A client-credentials login also stores the secret, or fails at that.
StoreSecret(t) ==
    /\ pc[t] = "secret"
    /\ \/ /\ kcState # "failing"
          /\ secret' = secret \cup {IF kcState = "up" THEN "keychain" ELSE "file"}
          /\ Goto(t, "done")
       \/ /\ kcState = "failing" \/ (kcState = "down" /\ "disk" \in Faults)
          /\ Goto(t, "failed") /\ UNCHANGED secret
    /\ UNCHANGED <<storeVars, config, lockVars, serverVars, tok, want, isAc>>

----------------------------------------------------------------------------
(* The surroundings.                                                       *)

Expire ==
    /\ \/ /\ \E n \in 1..minted \ stale : stale' = stale \cup {n}
          /\ UNCHANGED expired
       \/ /\ Cardinality(expired) < MaxExpired
          /\ \E n \in stale \ expired : expired' = expired \cup {n}
          /\ UNCHANGED stale
    /\ UNCHANGED <<storeVars, config, secret, lockVars, minted, live, callerVars>>

\* The keychain is locked, or its daemon stops, and comes back.
KeychainChanges ==
    /\ "outage" \in Faults /\ Keychain
    /\ kcState' \in {"up", "down", "failing"} \ {kcState}
    /\ UNCHANGED <<kc, file, latest, config, secret, lockVars, serverVars, callerVars>>

\* The session is ended on the server side.
Revoke ==
    /\ "revoke" \in Faults
    /\ \E n \in live : live' = live \ {n}
    /\ UNCHANGED <<storeVars, config, secret, lockVars, minted, stale, expired, callerVars>>

Ended(t) == pc[t] \in {"done", "failed"}

\* A process is killed: the system drops its file lock.
Crash(t) ==
    /\ "crash" \in Faults /\ t \notin OneProcess
    /\ pc[t] # "start" /\ ~Ended(t)
    /\ Goto(t, "failed") /\ Release(t)
    /\ UNCHANGED <<storeVars, config, secret, serverVars, tok, want, isAc>>

Start(t)       == ResolveStart(t) \/ RefreshStart(t) \/ ForceStart(t)
                    \/ LoginStart(t) \/ LogoutStart(t)
RefreshStep(t) == Read(t) \/ TakeMutex(t) \/ TakeLock(t) \/ Reread(t) \/ Fetch(t)
GrantStep(t)   == Credentials(t) \/ CcFetch(t) \/ Grant(t)
WriteStep(t)   == Store(t) \/ WriteFile(t) \/ DeleteEntry(t) \/ DeleteFile(t)
                    \/ UpdateConfig(t) \/ StoreSecret(t)

TaskStep(t) == Start(t) \/ RefreshStep(t) \/ GrantStep(t) \/ WriteStep(t)

Next ==
    \/ \E t \in Tasks : TaskStep(t) \/ Crash(t)
    \/ Expire \/ KeychainChanges \/ Revoke

Spec == Init /\ [][Next]_vars

\* Every caller keeps running; a lock that stays free is granted, and the
\* server and the stores answer.
FairSpec == Spec /\ \A t \in Tasks : WF_vars(TaskStep(t))

----------------------------------------------------------------------------
(* Properties.                                                             *)

\* Type invariant of the stores, the server and the callers.
TypeOK ==
    /\ kc \in Tokens \cup {NoToken} /\ file \in Tokens \cup {NoToken}
    /\ latest \in Tokens \cup {NoToken}
    /\ kcState \in {"up", "down", "failing"}
    /\ config \in [client : Clients \cup {NoClient}, grant : Grants \cup {"none"}]
    /\ secret \subseteq {"keychain", "file"}
    /\ lock \in Tasks \cup {Free} /\ mutex \in OneProcess \cup {Free}
    /\ minted \in 0..MaxTokens
    /\ live \subseteq 1..MaxTokens
    /\ expired \subseteq stale /\ stale \subseteq 1..MaxTokens
    /\ pc \in [Tasks -> {"start", "read", "mutex", "lock", "reread", "fetch", "cc",
                         "ccmutex", "cclock", "ccfetch", "grant", "plock", "dellock",
                         "delkc", "delfile", "store", "write", "config", "secret",
                         "done", "failed"}]
    /\ tok \in [Tasks -> Tokens \cup {NoToken}]
    /\ want \in [Tasks -> Clients \cup {NoClient}]
    /\ isAc \in [Tasks -> BOOLEAN]

\* Callers between taking and dropping the token lock.
Critical == {"reread", "fetch", "ccfetch", "delkc", "delfile", "store", "write"}

\* The token store is read for a decision and written by one caller at a
\* time, in this process or another: with_token_lock and
\* acquire_async_token_lock are held from the re-read to the write, and every
\* way out of them drops the lock.
OneWriter == \A t \in Tasks : (pc[t] \in Critical) <=> (lock = t)

\* Whatever the interleaving of resolvers, forced refreshes and logins, the
\* refresh token that goes to the server is one the server still accepts:
\* the value is taken from the re-read under the locks, never from before
\* them.  (Unless the server, the network or the machine fails.)
RotatedNeverSent == \A t \in Tasks : pc[t] = "fetch" => tok[t].n \in live

\* A caller is never handed a token minted for another client than the one
\* it asked for (client_matches, before and after the locks).
OwnClient ==
    \A t \in Tasks : pc[t] = "done" /\ want[t] # NoClient => tok[t].client = want[t]

\* Outside a write, a keychain-first read finds what was written last: no
\* older entry of the keychain shadows the file
\* (clear_keychain_token_entry), and none of the file shows through.  (Unless
\* token.json could not be written or removed once the entry was cleared: then
\* an older token in that file does show through.)
LatestRead == lock = Free => Stored = latest

\* Once a logout has come back, no refresh that was under way brings the
\* authorization-code session back: only a login can.
LogoutSticks ==
    (\E t \in Logouts : pc[t] = "done") =>
        Stored.grant # "ac" \/ \E t \in Logins : pc[t] # "start"

\* Every caller ends, whatever fails: the locks are dropped on every path
\* and taken in one order.
CallersEnd == <>(\A t \in Tasks : Ended(t))

============================================================================

------------------------- MODULE AuthSessionProofs -------------------------
(***************************************************************************)
(* Proofs about AuthSession, for any set of callers, with or without a     *)
(* keychain and with any of the faults.                                    *)
(***************************************************************************)
EXTENDS AuthSession, TLAPS

\* What a token is made of.
LEMMA TokenFacts ==
    /\ NoToken \notin Tokens
    /\ \A x \in Tokens \cup {NoToken} :
          x.n \in Nat /\ x.client \in Clients \cup {NoClient} /\ x.grant \in Grants
BY AuthBoundsAssumption DEF Tokens, NoToken, NoClient, Clients, Grants

\* get_token_data returns a token or none.
LEMMA StoredTyped == TypeOK => Stored \in Tokens \cup {NoToken}
BY DEF TypeOK, Stored

\* The resolved client id is a client or none.
LEMMA ClientTyped ==
    ASSUME TypeOK, NEW t \in Tasks
    PROVE  ClientId(t) \in Clients \cup {NoClient}
BY DEF TypeOK, ClientId, Clients

\* The labels a caller can be sent to.
Labels == {"start", "read", "mutex", "lock", "reread", "fetch", "cc",
           "ccmutex", "cclock", "ccfetch", "grant", "plock", "dellock",
           "delkc", "delfile", "store", "write", "config", "secret",
           "done", "failed"}

\* A jump keeps the program counters typed.
LEMMA GotoTyped ==
    ASSUME TypeOK, NEW t \in Tasks, NEW l \in Labels, Goto(t, l)
    PROVE  pc' \in [Tasks -> Labels]
BY DEF TypeOK, Goto, Labels

\* A minted token is a token, within the bound on mint numbers.
LEMMA MintTyped ==
    ASSUME TypeOK, NEW t \in Tasks, NEW g \in Grants, want[t] # NoClient, Mint(t, g)
    PROVE  /\ minted' \in 0..MaxTokens
           /\ minted + 1 \in 1..MaxTokens
           /\ tok' \in [Tasks -> Tokens \cup {NoToken}]
<1>1. minted + 1 \in 1..MaxTokens BY AuthBoundsAssumption DEF TypeOK, Mint
<1>2. Minted(t, g) \in Tokens BY <1>1 DEF TypeOK, Minted, Tokens, NoClient
<1> QED BY <1>1, <1>2 DEF TypeOK, Mint

\* Dropping the guards keeps the lock and the mutex typed.
LEMMA ReleaseTyped ==
    ASSUME TypeOK, NEW t \in Tasks, Release(t)
    PROVE  lock' \in Tasks \cup {Free} /\ mutex' \in OneProcess \cup {Free}
BY DEF TypeOK, Release

----------------------------------------------------------------------------
\* Whoever asks the server for a token has a client to present.
WantsClient ==
    \A t \in Tasks :
        /\ pc[t] \in {"fetch", "ccmutex", "cclock", "ccfetch", "grant"} => want[t] # NoClient
        /\ t \in Logins /\ pc[t] # "start" => want[t] # NoClient
        /\ pc[t] = "cc" => t \in Resolvers

Inv == TypeOK /\ OneWriter /\ WantsClient

\* The invariant holds initially.
LEMMA InitInv == Init => Inv
<1> SUFFICES ASSUME Init PROVE Inv OBVIOUS
<1> USE DEF Init
<1>1. PICK g \in Sessions :
         /\ kc = IF Keychain THEN FirstToken(g) ELSE NoToken
         /\ file = IF Keychain THEN NoToken ELSE FirstToken(g)
         /\ latest = FirstToken(g)
         /\ minted = FirstToken(g).n
         /\ live = IF g = "ac" THEN {1} ELSE {}
         /\ stale \in {{}, {FirstToken(g).n} \ {0}}
         /\ config = [client |-> FirstToken(g).client, grant |-> g]
         /\ secret = IF g = "cc" THEN {IF Keychain THEN "keychain" ELSE "file"} ELSE {}
  OBVIOUS
<1>2. g \in {"none", "ac", "cc"} BY AuthBoundsAssumption
<1>3. /\ FirstToken(g) \in Tokens \cup {NoToken}
      /\ FirstToken(g).n \in {0, 1}
      /\ FirstToken(g).client \in Clients \cup {NoClient}
  BY <1>2, AuthBoundsAssumption DEF FirstToken, Tokens, NoToken, Clients, Grants
<1>4. 1 \in 1..MaxTokens /\ 0 \in 0..MaxTokens /\ 1 \in 0..MaxTokens BY AuthBoundsAssumption
<1>5. config \in [client : Clients \cup {NoClient}, grant : Grants \cup {"none"}]
  BY <1>1, <1>2, <1>3 DEF Grants
<1>6. secret \subseteq {"keychain", "file"} BY <1>1
<1>7. TypeOK BY <1>1, <1>2, <1>3, <1>4, <1>5, <1>6 DEF TypeOK
<1>8. OneWriter /\ WantsClient BY TasksAssumption DEF OneWriter, WantsClient, Critical
<1> QED BY <1>7, <1>8 DEF Inv

\* ResolveStart preserves the invariant.
LEMMA ResolveStartInv ==
    ASSUME Inv, NEW t \in Tasks, ResolveStart(t)
    PROVE  Inv'
<1> USE DEF Inv
<1>1. TypeOK'
  BY StoredTyped, ClientTyped, TokenFacts, TasksAssumption DEF TypeOK, ResolveStart,
    Goto, LoginClient, Clients, Grants, storeVars, lockVars, serverVars, callerVars
<1>2. OneWriter'
  BY TasksAssumption DEF TypeOK, OneWriter, Critical, ResolveStart, Goto, lockVars
<1>3. WantsClient'
  BY TasksAssumption DEF TypeOK, WantsClient, ResolveStart, Goto, LoginClient, NoClient
<1> QED BY <1>1, <1>2, <1>3

\* RefreshStart preserves the invariant.
LEMMA RefreshStartInv ==
    ASSUME Inv, NEW t \in Tasks, RefreshStart(t)
    PROVE  Inv'
<1> USE DEF Inv
<1>1. TypeOK'
  BY StoredTyped, ClientTyped, TokenFacts, TasksAssumption DEF TypeOK, RefreshStart,
    Goto, LoginClient, Clients, Grants, storeVars, lockVars, serverVars, callerVars
<1>2. OneWriter'
  BY TasksAssumption DEF TypeOK, OneWriter, Critical, RefreshStart, Goto, lockVars
<1>3. WantsClient'
  BY TasksAssumption DEF TypeOK, WantsClient, RefreshStart, Goto, LoginClient, NoClient
<1> QED BY <1>1, <1>2, <1>3

\* ForceStart preserves the invariant.
LEMMA ForceStartInv ==
    ASSUME Inv, NEW t \in Tasks, ForceStart(t)
    PROVE  Inv'
<1> USE DEF Inv
<1>1. TypeOK'
  BY StoredTyped, ClientTyped, TokenFacts, TasksAssumption DEF TypeOK, ForceStart,
    Goto, LoginClient, Clients, Grants, storeVars, lockVars, serverVars, callerVars
<1>2. OneWriter'
  BY TasksAssumption DEF TypeOK, OneWriter, Critical, ForceStart, Goto, lockVars
<1>3. WantsClient'
  BY TasksAssumption DEF TypeOK, WantsClient, ForceStart, Goto, LoginClient, NoClient
<1> QED BY <1>1, <1>2, <1>3

\* LoginStart preserves the invariant.
LEMMA LoginStartInv ==
    ASSUME Inv, NEW t \in Tasks, LoginStart(t)
    PROVE  Inv'
<1> USE DEF Inv
<1>1. TypeOK'
  BY StoredTyped, ClientTyped, TokenFacts, TasksAssumption DEF TypeOK, LoginStart,
    Goto, LoginClient, Clients, Grants, storeVars, lockVars, serverVars, callerVars
<1>2. OneWriter'
  BY TasksAssumption DEF TypeOK, OneWriter, Critical, LoginStart, Goto, lockVars
<1>3. WantsClient'
  BY TasksAssumption DEF TypeOK, WantsClient, LoginStart, Goto, LoginClient, NoClient
<1> QED BY <1>1, <1>2, <1>3

\* LogoutStart preserves the invariant.
LEMMA LogoutStartInv ==
    ASSUME Inv, NEW t \in Tasks, LogoutStart(t)
    PROVE  Inv'
<1> USE DEF Inv
<1>1. TypeOK'
  BY StoredTyped, ClientTyped, TokenFacts, TasksAssumption DEF TypeOK, LogoutStart,
    Goto, LoginClient, Clients, Grants, storeVars, lockVars, serverVars, callerVars
<1>2. OneWriter'
  BY TasksAssumption DEF TypeOK, OneWriter, Critical, LogoutStart, Goto, lockVars
<1>3. WantsClient'
  BY TasksAssumption DEF TypeOK, WantsClient, LogoutStart, Goto, LoginClient, NoClient
<1> QED BY <1>1, <1>2, <1>3

\* Read preserves the invariant.
LEMMA ReadInv ==
    ASSUME Inv, NEW t \in Tasks, Read(t)
    PROVE  Inv'
<1> USE DEF Inv
<1>1. TypeOK'
  BY StoredTyped, ClientTyped, TokenFacts, TasksAssumption DEF TypeOK, Read, Goto,
    LoginClient, Clients, Grants, storeVars, lockVars, serverVars, callerVars,
    Verdict, AfterVerdict, AfterUnavailable
<1>2. OneWriter'
  BY TasksAssumption DEF TypeOK, OneWriter, Critical, Read, Goto, lockVars, Verdict,
    AfterVerdict, AfterUnavailable
<1>3. WantsClient'
  BY TasksAssumption DEF TypeOK, WantsClient, Read, Goto, LoginClient, NoClient,
    Verdict, AfterVerdict, AfterUnavailable
<1> QED BY <1>1, <1>2, <1>3

\* TakeMutex preserves the invariant.
LEMMA TakeMutexInv ==
    ASSUME Inv, NEW t \in Tasks, TakeMutex(t)
    PROVE  Inv'
<1> USE DEF Inv
<1>1. TypeOK'
  BY StoredTyped, ClientTyped, TokenFacts, TasksAssumption DEF TypeOK, TakeMutex,
    Goto, LoginClient, Clients, Grants, storeVars, lockVars, serverVars, callerVars
<1>2. OneWriter'
  BY TasksAssumption DEF TypeOK, OneWriter, Critical, TakeMutex, Goto, lockVars
<1>3. WantsClient'
  BY TasksAssumption DEF TypeOK, WantsClient, TakeMutex, Goto, LoginClient, NoClient
<1> QED BY <1>1, <1>2, <1>3

\* TakeLock preserves the invariant.
LEMMA TakeLockInv ==
    ASSUME Inv, NEW t \in Tasks, TakeLock(t)
    PROVE  Inv'
<1> USE DEF Inv
<1>1. TypeOK'
  BY StoredTyped, ClientTyped, TokenFacts, TasksAssumption DEF TypeOK, TakeLock, Goto,
    LoginClient, Clients, Grants, storeVars, lockVars, serverVars, callerVars,
    AfterLock
<1>2. OneWriter'
  BY TasksAssumption DEF TypeOK, OneWriter, Critical, TakeLock, Goto, lockVars, AfterLock
<1>3. WantsClient'
  BY TasksAssumption DEF TypeOK, WantsClient, TakeLock, Goto, LoginClient, NoClient,
    AfterLock
<1> QED BY <1>1, <1>2, <1>3

\* Reread preserves the invariant.
LEMMA RereadInv ==
    ASSUME Inv, NEW t \in Tasks, Reread(t)
    PROVE  Inv'
<1> USE DEF Inv
<1>1. TypeOK'
  BY StoredTyped, ClientTyped, TokenFacts, TasksAssumption DEF TypeOK, Reread, Goto,
    LoginClient, Clients, Grants, storeVars, lockVars, serverVars, callerVars,
    Release, Verdict, AfterVerdict, AfterUnavailable
<1>2. OneWriter'
  BY TasksAssumption DEF TypeOK, OneWriter, Critical, Reread, Goto, lockVars, Release,
    Verdict, AfterVerdict, AfterUnavailable
<1>3. WantsClient'
  BY TasksAssumption DEF TypeOK, WantsClient, Reread, Goto, LoginClient, NoClient,
    Verdict, AfterVerdict, AfterUnavailable
<1> QED BY <1>1, <1>2, <1>3

\* Fetch preserves the invariant.
LEMMA FetchInv ==
    ASSUME Inv, NEW t \in Tasks, Fetch(t)
    PROVE  Inv'
<1> USE DEF Inv
<1>0. want[t] # NoClient BY DEF WantsClient, Fetch
<1>1. TypeOK'
  <2> USE DEF Fetch
  <2>0. tok[t].grant \in Grants BY TokenFacts DEF TypeOK
  <2>1. CASE Accepts(t) /\ Mint(t, tok[t].grant) /\ Goto(t, "store")
             /\ live' = (live \ {tok[t].n}) \cup {minted + 1} /\ UNCHANGED lockVars
    <3>1. /\ minted' \in 0..MaxTokens /\ minted + 1 \in 1..MaxTokens
          /\ tok' \in [Tasks -> Tokens \cup {NoToken}]
      BY <1>0, <2>0, <2>1, MintTyped
    <3>2. pc' \in [Tasks -> Labels] BY <2>1, GotoTyped DEF Labels
    <3>3. live' \subseteq 1..MaxTokens BY <2>1, <3>1 DEF TypeOK
    <3>4. UNCHANGED <<storeVars, config, secret, stale, expired, want, isAc, lock, mutex>>
      BY <2>1 DEF lockVars
    <3> HIDE DEF Fetch
    <3> QED BY <3>1, <3>2, <3>3, <3>4 DEF TypeOK, Labels, storeVars
  <2>2. CASE UNCHANGED <<minted, tok>> /\ Release(t) /\ live' \subseteq live
             /\ \E l \in {"dellock", "cc", "failed"} : Goto(t, l)
    BY <2>2, ReleaseTyped, GotoTyped DEF TypeOK, Labels, storeVars
  <2> QED BY <2>1, <2>2
<1>2. OneWriter'
  BY TasksAssumption DEF TypeOK, OneWriter, Critical, Fetch, Goto, lockVars, Release
<1>3. WantsClient'
  BY TasksAssumption DEF TypeOK, WantsClient, Fetch, Goto, LoginClient, NoClient
<1> QED BY <1>1, <1>2, <1>3

\* Credentials preserves the invariant.
LEMMA CredentialsInv ==
    ASSUME Inv, NEW t \in Tasks, Credentials(t)
    PROVE  Inv'
<1> USE DEF Inv
<1>1. TypeOK'
  BY StoredTyped, ClientTyped, TokenFacts, TasksAssumption DEF TypeOK, Credentials,
    Goto, LoginClient, Clients, Grants, storeVars, lockVars, serverVars, callerVars
<1>2. OneWriter'
  BY TasksAssumption DEF TypeOK, OneWriter, Critical, Credentials, Goto, lockVars
<1>3. WantsClient'
  BY TasksAssumption DEF TypeOK, WantsClient, Credentials, Goto, LoginClient, NoClient
<1> QED BY <1>1, <1>2, <1>3

\* CcFetch preserves the invariant.
LEMMA CcFetchInv ==
    ASSUME Inv, NEW t \in Tasks, CcFetch(t)
    PROVE  Inv'
<1> USE DEF Inv
<1>0. want[t] # NoClient BY DEF WantsClient, CcFetch
<1>1. TypeOK'
  <2> USE DEF CcFetch
  <2>1. CASE Mint(t, "cc") /\ Goto(t, "store") /\ UNCHANGED lockVars
    BY <1>0, <2>1, MintTyped, GotoTyped DEF TypeOK, Labels, Grants, storeVars, lockVars
  <2>2. CASE Goto(t, "failed") /\ Release(t) /\ UNCHANGED <<minted, tok>>
    BY <2>2, ReleaseTyped, GotoTyped DEF TypeOK, Labels, storeVars
  <2> QED BY <2>1, <2>2
<1>2. OneWriter'
  BY TasksAssumption DEF TypeOK, OneWriter, Critical, CcFetch, Goto, lockVars, Release
<1>3. WantsClient'
  BY TasksAssumption DEF TypeOK, WantsClient, CcFetch, Goto, LoginClient, NoClient
<1> QED BY <1>1, <1>2, <1>3

\* Grant preserves the invariant.
LEMMA GrantInv ==
    ASSUME Inv, NEW t \in Tasks, Grant(t)
    PROVE  Inv'
<1> USE DEF Inv
<1>0. want[t] # NoClient BY DEF WantsClient, Grant
<1>1. TypeOK'
  <2> USE DEF Grant
  <2>1. CASE \E g \in Grants : /\ Mint(t, g) /\ Goto(t, "plock")
                               /\ live' \in {live, live \cup {minted + 1}}
    BY <1>0, <2>1, MintTyped, GotoTyped DEF TypeOK, Labels, storeVars, lockVars
  <2>2. CASE Goto(t, "failed") /\ UNCHANGED <<minted, live, tok>>
    BY <2>2, GotoTyped DEF TypeOK, Labels, storeVars, lockVars
  <2> QED BY <2>1, <2>2 DEF Grants
<1>2. OneWriter'
  BY TasksAssumption DEF TypeOK, OneWriter, Critical, Grant, Goto, lockVars
<1>3. WantsClient'
  BY TasksAssumption DEF TypeOK, WantsClient, Grant, Goto, LoginClient, NoClient
<1> QED BY <1>1, <1>2, <1>3

\* Store preserves the invariant.
LEMMA StoreInv ==
    ASSUME Inv, NEW t \in Tasks, Store(t)
    PROVE  Inv'
<1> USE DEF Inv
<1>1. TypeOK'
  BY StoredTyped, ClientTyped, TokenFacts, TasksAssumption DEF TypeOK, Store, Goto,
    LoginClient, Clients, Grants, storeVars, lockVars, serverVars, callerVars,
    Release, AfterStore
<1>2. OneWriter'
  BY TasksAssumption DEF TypeOK, OneWriter, Critical, Store, Goto, lockVars, Release,
    AfterStore
<1>3. WantsClient'
  BY TasksAssumption DEF TypeOK, WantsClient, Store, Goto, LoginClient, NoClient, AfterStore
<1> QED BY <1>1, <1>2, <1>3

\* WriteFile preserves the invariant.
LEMMA WriteFileInv ==
    ASSUME Inv, NEW t \in Tasks, WriteFile(t)
    PROVE  Inv'
<1> USE DEF Inv
<1>1. TypeOK'
  BY StoredTyped, ClientTyped, TokenFacts, TasksAssumption DEF TypeOK, WriteFile,
    Goto, LoginClient, Clients, Grants, storeVars, lockVars, serverVars, callerVars,
    Release, AfterStore
<1>2. OneWriter'
  BY TasksAssumption DEF TypeOK, OneWriter, Critical, WriteFile, Goto, lockVars,
    Release, AfterStore
<1>3. WantsClient'
  BY TasksAssumption DEF TypeOK, WantsClient, WriteFile, Goto, LoginClient, NoClient,
    AfterStore
<1> QED BY <1>1, <1>2, <1>3

\* DeleteEntry preserves the invariant.
LEMMA DeleteEntryInv ==
    ASSUME Inv, NEW t \in Tasks, DeleteEntry(t)
    PROVE  Inv'
<1> USE DEF Inv
<1>1. TypeOK'
  BY StoredTyped, ClientTyped, TokenFacts, TasksAssumption DEF TypeOK, DeleteEntry,
    Goto, LoginClient, Clients, Grants, storeVars, lockVars, serverVars, callerVars,
    Release, AfterDelete
<1>2. OneWriter'
  BY TasksAssumption DEF TypeOK, OneWriter, Critical, DeleteEntry, Goto, lockVars,
    Release, AfterDelete
<1>3. WantsClient'
  BY TasksAssumption DEF TypeOK, WantsClient, DeleteEntry, Goto, LoginClient,
    NoClient, AfterDelete
<1> QED BY <1>1, <1>2, <1>3

\* DeleteFile preserves the invariant.
LEMMA DeleteFileInv ==
    ASSUME Inv, NEW t \in Tasks, DeleteFile(t)
    PROVE  Inv'
<1> USE DEF Inv
<1>1. TypeOK'
  BY StoredTyped, ClientTyped, TokenFacts, TasksAssumption DEF TypeOK, DeleteFile,
    Goto, LoginClient, Clients, Grants, storeVars, lockVars, serverVars, callerVars,
    Release, AfterDelete
<1>2. OneWriter'
  BY TasksAssumption DEF TypeOK, OneWriter, Critical, DeleteFile, Goto, lockVars,
    Release, AfterDelete
<1>3. WantsClient'
  BY TasksAssumption DEF TypeOK, WantsClient, DeleteFile, Goto, LoginClient, NoClient,
    AfterDelete
<1> QED BY <1>1, <1>2, <1>3

\* UpdateConfig preserves the invariant.
LEMMA UpdateConfigInv ==
    ASSUME Inv, NEW t \in Tasks, UpdateConfig(t)
    PROVE  Inv'
<1> USE DEF Inv
<1>1. TypeOK'
  BY StoredTyped, ClientTyped, TokenFacts, TasksAssumption DEF TypeOK, UpdateConfig,
    Goto, LoginClient, Clients, Grants, storeVars, lockVars, serverVars, callerVars
<1>2. OneWriter'
  BY TasksAssumption DEF TypeOK, OneWriter, Critical, UpdateConfig, Goto, lockVars
<1>3. WantsClient'
  BY TasksAssumption DEF TypeOK, WantsClient, UpdateConfig, Goto, LoginClient, NoClient
<1> QED BY <1>1, <1>2, <1>3

\* StoreSecret preserves the invariant.
LEMMA StoreSecretInv ==
    ASSUME Inv, NEW t \in Tasks, StoreSecret(t)
    PROVE  Inv'
<1> USE DEF Inv
<1>0. secret' \subseteq {"keychain", "file"}
  BY DEF TypeOK, StoreSecret
<1>1. TypeOK'
  <2>1. pc' \in [Tasks -> {"start", "read", "mutex", "lock", "reread", "fetch", "cc",
                           "ccmutex", "cclock", "ccfetch", "grant", "plock", "dellock",
                           "delkc", "delfile", "store", "write", "config", "secret",
                           "done", "failed"}]
    BY DEF TypeOK, StoreSecret, Goto
  <2>2. UNCHANGED <<storeVars, config, lockVars, serverVars, tok, want, isAc>>
    BY DEF StoreSecret
  <2> QED BY <1>0, <2>1, <2>2 DEF TypeOK, storeVars, lockVars, serverVars
<1>2. OneWriter'
  BY TasksAssumption DEF TypeOK, OneWriter, Critical, StoreSecret, Goto, lockVars
<1>3. WantsClient'
  BY TasksAssumption DEF TypeOK, WantsClient, StoreSecret, Goto, LoginClient, NoClient
<1> QED BY <1>1, <1>2, <1>3

\* Crash preserves the invariant.
LEMMA CrashInv ==
    ASSUME Inv, NEW t \in Tasks, Crash(t)
    PROVE  Inv'
<1> USE DEF Inv
<1>1. TypeOK'
  BY StoredTyped, ClientTyped, TokenFacts, TasksAssumption DEF TypeOK, Crash, Goto,
    LoginClient, Clients, Grants, storeVars, lockVars, serverVars, callerVars, Release
<1>2. OneWriter'
  BY TasksAssumption DEF TypeOK, OneWriter, Critical, Crash, Goto, lockVars, Release
<1>3. WantsClient'
  BY TasksAssumption DEF TypeOK, WantsClient, Crash, Goto, LoginClient, NoClient
<1> QED BY <1>1, <1>2, <1>3

\* The clock, the keychain, the server and stuttering preserve the invariant.
LEMMA SurroundingsInv ==
    ASSUME Inv, Expire \/ KeychainChanges \/ Revoke \/ UNCHANGED vars
    PROVE  Inv'
<1> USE DEF Inv, storeVars, lockVars, serverVars, callerVars
<1>1. UNCHANGED <<kc, file, latest, config, secret, lockVars, minted, callerVars>>
  BY DEF Expire, KeychainChanges, Revoke, vars
<1>2. live' \subseteq 1..MaxTokens BY DEF TypeOK, Expire, KeychainChanges, Revoke, vars
<1>3. expired' \subseteq stale' /\ stale' \subseteq 1..MaxTokens
  <2>1. \A n \in 1..minted : n \in 1..MaxTokens BY AuthBoundsAssumption DEF TypeOK
  <2>2. ASSUME NEW n \in (1..minted) \ stale, stale' = stale \cup {n}, UNCHANGED expired
        PROVE  expired' \subseteq stale' /\ stale' \subseteq 1..MaxTokens
    BY <2>1, <2>2 DEF TypeOK
  <2>3. ASSUME NEW n \in stale, expired' = expired \cup {n}, UNCHANGED stale
        PROVE  expired' \subseteq stale' /\ stale' \subseteq 1..MaxTokens
    BY <2>3 DEF TypeOK
  <2>4. CASE Expire BY <2>2, <2>3, <2>4 DEF Expire
  <2> QED BY <2>4 DEF TypeOK, KeychainChanges, Revoke, vars
<1>4. kcState' \in {"up", "down", "failing"}
  BY DEF TypeOK, Expire, KeychainChanges, Revoke, vars
<1>5. TypeOK' BY <1>1, <1>2, <1>3, <1>4 DEF TypeOK
<1>6. OneWriter' /\ WantsClient' BY <1>1 DEF OneWriter, WantsClient
<1> QED BY <1>5, <1>6

\* Every step preserves the invariant.
LEMMA NextInv == Inv /\ [Next]_vars => Inv'
<1> SUFFICES ASSUME Inv, [Next]_vars PROVE Inv' OBVIOUS
<1>1. ASSUME NEW t \in Tasks, Start(t) PROVE Inv'
  BY <1>1, ResolveStartInv, RefreshStartInv, ForceStartInv, LoginStartInv,
    LogoutStartInv DEF Start
<1>2. ASSUME NEW t \in Tasks, RefreshStep(t) PROVE Inv'
  BY <1>2, ReadInv, TakeMutexInv, TakeLockInv, RereadInv, FetchInv DEF RefreshStep
<1>3. ASSUME NEW t \in Tasks, GrantStep(t) PROVE Inv'
  BY <1>3, CredentialsInv, CcFetchInv, GrantInv DEF GrantStep
<1>4. ASSUME NEW t \in Tasks, WriteStep(t) PROVE Inv'
  BY <1>4, StoreInv, WriteFileInv, DeleteEntryInv, DeleteFileInv, UpdateConfigInv,
    StoreSecretInv DEF WriteStep
<1>5. ASSUME NEW t \in Tasks, Crash(t) PROVE Inv' BY <1>5, CrashInv
<1>6. CASE Expire \/ KeychainChanges \/ Revoke \/ UNCHANGED vars BY <1>6, SurroundingsInv
<1> QED BY <1>1, <1>2, <1>3, <1>4, <1>5, <1>6 DEF Next, TaskStep

\* The invariant holds always.
LEMMA SpecInv == Spec => []Inv
BY InitInv, NextInv, PTL DEF Spec

\* The stores, the server and the callers keep their types, under any faults.
THEOREM AuthTypeCorrect == Spec => []TypeOK
<1>1. Inv => TypeOK BY DEF Inv
<1> QED BY SpecInv, <1>1, PTL

\* Exactly the callers between the re-read and the write hold the token lock,
\* so the store has one writer at a time however many processes there are,
\* and no failure, rejection or crash leaves the lock behind.
THEOREM WritersExclusive == Spec => []OneWriter
<1>1. Inv => OneWriter BY DEF Inv
<1> QED BY SpecInv, <1>1, PTL

----------------------------------------------------------------------------
(* Why a rotated refresh token is never sent.  The server, the network and  *)
(* the machine do not fail; the keychain may refuse tokens, and refresh     *)
(* tokens may expire.                                                       *)

Quiet == Faults \subseteq {"reject"}

\* Between minting a token and storing it.
Holding == {"plock", "store", "write"}

\* A token on its way to the store is nobody else's, and its refresh token is
\* accepted.
HeldTokens ==
    \A t \in Tasks : pc[t] \in Holding =>
        /\ tok[t].n \in 1..minted
        /\ tok[t].n # kc.n /\ tok[t].n # file.n
        /\ tok[t].grant = "ac" => tok[t].n \in live
        /\ \A u \in Tasks \ {t} : pc[u] \in Holding => tok[u].n # tok[t].n

\* A caller that is about to send a refresh token sends the stored one.
SentTokens ==
    \A t \in Tasks : pc[t] = "fetch" => tok[t] = Stored /\ tok[t].n \in live

\* The store, except while a write or a deletion is under way.
StoreLive ==
    (\A t \in Tasks : pc[t] \notin {"store", "write", "delkc", "delfile"}) =>
        (Stored.grant = "ac" => Stored.n \in live)

StoreNumbers ==
    /\ kcState # "failing"
    /\ kc.n <= minted /\ file.n <= minted
    /\ \A t \in Tasks : pc[t] \in {"write", "delfile"} => kcState # "up" \/ kc = NoToken

Rotation == HeldTokens /\ SentTokens /\ StoreLive /\ StoreNumbers

\* Nobody else is in the critical section with its holder.
LEMMA OnlyWriter ==
    ASSUME OneWriter, NEW t \in Tasks, pc[t] \in Critical
    PROVE  \A u \in Tasks \ {t} : pc[u] \notin Critical
BY DEF OneWriter

\* The rotation invariant holds initially.
LEMMA RotationInit == Init => Rotation
<1> SUFFICES ASSUME Init PROVE Rotation OBVIOUS
<1>1. PICK g \in Sessions :
         /\ kc = IF Keychain THEN FirstToken(g) ELSE NoToken
         /\ file = IF Keychain THEN NoToken ELSE FirstToken(g)
         /\ minted = FirstToken(g).n
         /\ live = IF g = "ac" THEN {1} ELSE {}
  BY DEF Init
<1>2. g \in {"none", "ac", "cc"} BY AuthBoundsAssumption
<1>3. Stored = FirstToken(g) BY <1>1 DEF Init, Stored
<1> QED BY <1>1, <1>2, <1>3 DEF Init, Rotation, HeldTokens, SentTokens, StoreLive, StoreNumbers,
           Holding, FirstToken, NoToken

\* ResolveStart preserves the rotation invariant.
LEMMA ResolveStartRotation ==
    ASSUME Quiet, Inv, Rotation, NEW t \in Tasks, ResolveStart(t)
    PROVE  Rotation'
<1> USE TokenFacts, StoredTyped DEF Rotation, Inv, ResolveStart, Goto, storeVars, serverVars
<1>1. HeldTokens' BY DEF TypeOK, HeldTokens, Holding
<1>2. SentTokens' BY DEF TypeOK, SentTokens, Stored
<1>3. StoreLive' BY DEF TypeOK, StoreLive, Stored
<1>4. StoreNumbers' BY DEF TypeOK, StoreNumbers
<1> QED BY <1>1, <1>2, <1>3, <1>4

\* RefreshStart preserves the rotation invariant.
LEMMA RefreshStartRotation ==
    ASSUME Quiet, Inv, Rotation, NEW t \in Tasks, RefreshStart(t)
    PROVE  Rotation'
<1> USE TokenFacts, StoredTyped DEF Rotation, Inv, RefreshStart, Goto, storeVars, serverVars
<1>1. HeldTokens' BY DEF TypeOK, HeldTokens, Holding
<1>2. SentTokens' BY DEF TypeOK, SentTokens, Stored
<1>3. StoreLive' BY DEF TypeOK, StoreLive, Stored
<1>4. StoreNumbers' BY DEF TypeOK, StoreNumbers
<1> QED BY <1>1, <1>2, <1>3, <1>4

\* ForceStart preserves the rotation invariant.
LEMMA ForceStartRotation ==
    ASSUME Quiet, Inv, Rotation, NEW t \in Tasks, ForceStart(t)
    PROVE  Rotation'
<1> USE TokenFacts, StoredTyped DEF Rotation, Inv, ForceStart, Goto, storeVars, serverVars
<1>1. HeldTokens' BY DEF TypeOK, HeldTokens, Holding
<1>2. SentTokens' BY DEF TypeOK, SentTokens, Stored
<1>3. StoreLive' BY DEF TypeOK, StoreLive, Stored
<1>4. StoreNumbers' BY DEF TypeOK, StoreNumbers
<1> QED BY <1>1, <1>2, <1>3, <1>4

\* LoginStart preserves the rotation invariant.
LEMMA LoginStartRotation ==
    ASSUME Quiet, Inv, Rotation, NEW t \in Tasks, LoginStart(t)
    PROVE  Rotation'
<1> USE TokenFacts, StoredTyped DEF Rotation, Inv, LoginStart, Goto, storeVars, serverVars
<1>1. HeldTokens' BY DEF TypeOK, HeldTokens, Holding
<1>2. SentTokens' BY DEF TypeOK, SentTokens, Stored
<1>3. StoreLive' BY DEF TypeOK, StoreLive, Stored
<1>4. StoreNumbers' BY DEF TypeOK, StoreNumbers
<1> QED BY <1>1, <1>2, <1>3, <1>4

\* LogoutStart preserves the rotation invariant.
LEMMA LogoutStartRotation ==
    ASSUME Quiet, Inv, Rotation, NEW t \in Tasks, LogoutStart(t)
    PROVE  Rotation'
<1> USE TokenFacts, StoredTyped DEF Rotation, Inv, LogoutStart, Goto, storeVars, serverVars
<1>1. HeldTokens' BY DEF TypeOK, HeldTokens, Holding
<1>2. SentTokens' BY DEF TypeOK, SentTokens, Stored
<1>3. StoreLive' BY DEF TypeOK, StoreLive, Stored
<1>4. StoreNumbers' BY DEF TypeOK, StoreNumbers
<1> QED BY <1>1, <1>2, <1>3, <1>4

\* Read preserves the rotation invariant.
LEMMA ReadRotation ==
    ASSUME Quiet, Inv, Rotation, NEW t \in Tasks, Read(t)
    PROVE  Rotation'
<1> USE TokenFacts, StoredTyped DEF Rotation, Inv, Read, Goto, storeVars, serverVars
<1>1. HeldTokens' BY DEF TypeOK, HeldTokens, Holding, Verdict, AfterVerdict, AfterUnavailable
<1>2. SentTokens' BY DEF TypeOK, SentTokens, Stored, Verdict, AfterVerdict, AfterUnavailable
<1>3. StoreLive' BY DEF TypeOK, StoreLive, Stored, Verdict, AfterVerdict, AfterUnavailable
<1>4. StoreNumbers' BY DEF TypeOK, StoreNumbers, Verdict, AfterVerdict, AfterUnavailable
<1> QED BY <1>1, <1>2, <1>3, <1>4

\* TakeMutex preserves the rotation invariant.
LEMMA TakeMutexRotation ==
    ASSUME Quiet, Inv, Rotation, NEW t \in Tasks, TakeMutex(t)
    PROVE  Rotation'
<1> USE TokenFacts, StoredTyped DEF Rotation, Inv, TakeMutex, Goto, storeVars, serverVars
<1>1. HeldTokens' BY DEF TypeOK, HeldTokens, Holding
<1>2. SentTokens' BY DEF TypeOK, SentTokens, Stored
<1>3. StoreLive' BY DEF TypeOK, StoreLive, Stored
<1>4. StoreNumbers' BY DEF TypeOK, StoreNumbers
<1> QED BY <1>1, <1>2, <1>3, <1>4

\* TakeLock preserves the rotation invariant.
LEMMA TakeLockRotation ==
    ASSUME Quiet, Inv, Rotation, NEW t \in Tasks, TakeLock(t)
    PROVE  Rotation'
<1> USE TokenFacts, StoredTyped DEF Rotation, Inv, TakeLock, Goto, storeVars, serverVars
<1>1. HeldTokens' BY DEF TypeOK, HeldTokens, Holding, AfterLock
<1>2. SentTokens' BY DEF TypeOK, SentTokens, Stored, AfterLock
<1>3. StoreLive' BY DEF TypeOK, StoreLive, Stored, AfterLock
<1>4. StoreNumbers' BY DEF TypeOK, StoreNumbers, AfterLock
<1> QED BY <1>1, <1>2, <1>3, <1>4

\* Reread preserves the rotation invariant.
LEMMA RereadRotation ==
    ASSUME Quiet, Inv, Rotation, NEW t \in Tasks, Reread(t)
    PROVE  Rotation'
<1> USE TokenFacts, StoredTyped DEF Rotation, Inv, Reread, Goto, storeVars, serverVars
<1> USE DEF Verdict, AfterVerdict, AfterUnavailable
<1>1. HeldTokens' BY DEF TypeOK, HeldTokens, Holding
<1>2. Stored.grant = "ac" => Stored.n \in live
  BY OnlyWriter DEF Critical, StoreLive
<1>3. SentTokens'
  <2>1. Stored' = Stored BY DEF Stored
  <2>2. \A u \in Tasks \ {t} : pc'[u] # "fetch" BY OnlyWriter DEF TypeOK, Critical
  <2>3. pc'[t] = "fetch" => Verdict(t, Stored) = "go" /\ tok'[t] = Stored
    BY DEF TypeOK
  <2>4. Verdict(t, Stored) = "go" => Stored.grant = "ac" BY DEF Grants
  <2> HIDE DEF Reread, Verdict
  <2>5. UNCHANGED live BY DEF Reread
  <2> QED BY <1>2, <2>1, <2>2, <2>3, <2>4, <2>5 DEF SentTokens
<1>4. StoreLive' BY DEF TypeOK, StoreLive, Stored
<1>5. StoreNumbers' BY DEF TypeOK, StoreNumbers
<1> QED BY <1>1, <1>3, <1>4, <1>5

\* Fetch preserves the rotation invariant.
LEMMA FetchRotation ==
    ASSUME Quiet, Inv, Rotation, NEW t \in Tasks, Fetch(t)
    PROVE  Rotation'
<1> USE TokenFacts, StoredTyped DEF Rotation, Inv, storeVars
<1>0. /\ pc[t] = "fetch" /\ tok[t] = Stored /\ tok[t].n \in live
      /\ \A u \in Tasks \ {t} : pc[u] \notin Critical
      /\ UNCHANGED <<kc, file, kcState>> /\ Stored' = Stored
  BY OnlyWriter DEF Fetch, SentTokens, Critical, Stored
<1>1. CASE Mint(t, tok[t].grant) /\ live' = (live \ {tok[t].n}) \cup {minted + 1} /\ Goto(t, "store")
  <2>1. /\ minted \in Nat /\ minted' = minted + 1
        /\ tok' = [tok EXCEPT ![t] = Minted(t, tok[t].grant)] /\ pc' = [pc EXCEPT ![t] = "store"]
    BY <1>1 DEF Mint, Goto, TypeOK
  <2>2. kc.n \in Nat /\ file.n \in Nat /\ kc.n <= minted /\ file.n <= minted
        /\ Stored.n \in {kc.n, file.n}
    BY DEF StoreNumbers, TypeOK, Stored
  <2>3. HeldTokens'
    <3>1. ASSUME NEW u \in Tasks \ {t}, pc'[u] \in Holding
          PROVE  /\ tok'[u] = tok[u] /\ tok[u].n \in 1..minted /\ tok[u].n # kc.n /\ tok[u].n # file.n
                 /\ tok[u].grant = "ac" => tok[u].n \in live
                 /\ \A v \in Tasks \ {t, u} : pc[v] \in Holding => tok[v].n # tok[u].n
                 /\ tok[u].n # tok[t].n
      BY <1>0, <2>1, <2>2, <3>1 DEF TypeOK, HeldTokens, Holding
    <3>2. tok'[t].n = minted + 1 BY <2>1 DEF TypeOK, Minted
    <3> HIDE DEF Rotation, Inv
    <3>3. ASSUME NEW u \in Tasks, pc'[u] \in Holding
          PROVE  /\ tok'[u].n \in 1..minted' /\ tok'[u].n # kc'.n /\ tok'[u].n # file'.n
                 /\ tok'[u].grant = "ac" => tok'[u].n \in live'
      <4>1. CASE u = t BY <1>0, <1>1, <2>1, <2>2, <3>2, <4>1
      <4>2. CASE u # t BY <1>0, <1>1, <2>1, <3>1, <3>3, <4>2
      <4> QED BY <4>1, <4>2
    <3>4. ASSUME NEW u \in Tasks, NEW v \in Tasks \ {u}, pc'[u] \in Holding, pc'[v] \in Holding
          PROVE  tok'[v].n # tok'[u].n
      <4>1. CASE u = t BY <2>1, <3>1, <3>2, <3>4, <4>1
      <4>2. CASE v = t BY <2>1, <3>1, <3>2, <3>4, <4>2
      <4>3. CASE u # t /\ v # t BY <2>1, <3>1, <3>4, <4>3 DEF Inv, TypeOK
      <4> QED BY <4>1, <4>2, <4>3
    <3> QED BY <3>3, <3>4 DEF HeldTokens
  <2>4. SentTokens' BY <1>0, <2>1 DEF SentTokens, TypeOK, Critical
  <2>5. StoreLive' BY <2>1 DEF StoreLive, TypeOK
  <2>6. StoreNumbers' BY <1>0, <2>1, <2>2 DEF StoreNumbers, TypeOK
  <2> QED BY <2>3, <2>4, <2>5, <2>6
<1>2. CASE \E l \in {"dellock", "cc", "failed"} : Goto(t, l) /\ UNCHANGED <<minted, live, tok>>
  <2>1. HeldTokens' BY <1>0, <1>2 DEF HeldTokens, Holding, Goto, TypeOK
  <2>2. SentTokens' BY <1>0, <1>2 DEF SentTokens, Goto, TypeOK, Critical
  <2>3. StoreLive' BY <1>0, <1>2 DEF StoreLive, Goto, TypeOK
  <2>4. StoreNumbers' BY <1>0, <1>2 DEF StoreNumbers, Goto, TypeOK
  <2> QED BY <2>1, <2>2, <2>3, <2>4
<1> QED BY <1>1, <1>2 DEF Fetch, Quiet

\* Credentials preserves the rotation invariant.
LEMMA CredentialsRotation ==
    ASSUME Quiet, Inv, Rotation, NEW t \in Tasks, Credentials(t)
    PROVE  Rotation'
<1> USE TokenFacts, StoredTyped DEF Rotation, Inv, Credentials, Goto, storeVars, serverVars
<1>1. HeldTokens' BY DEF TypeOK, HeldTokens, Holding
<1>2. SentTokens' BY DEF TypeOK, SentTokens, Stored
<1>3. StoreLive' BY DEF TypeOK, StoreLive, Stored
<1>4. StoreNumbers' BY DEF TypeOK, StoreNumbers
<1> QED BY <1>1, <1>2, <1>3, <1>4

\* CcFetch preserves the rotation invariant.
LEMMA CcFetchRotation ==
    ASSUME Quiet, Inv, Rotation, NEW t \in Tasks, CcFetch(t)
    PROVE  Rotation'
<1> USE TokenFacts, StoredTyped DEF Rotation, Inv, storeVars
<1>1. PICK g \in Grants : /\ Mint(t, g) /\ Goto(t, "store")
                          /\ live' = IF g = "ac" THEN live \cup {minted + 1} ELSE live
  BY DEF CcFetch, Quiet, Grants
<1>2. /\ pc[t] \notin Holding /\ minted \in Nat /\ minted' = minted + 1
      /\ tok' = [tok EXCEPT ![t] = Minted(t, g)] /\ pc' = [pc EXCEPT ![t] = "store"]
      /\ UNCHANGED <<kc, file, kcState>> /\ Stored' = Stored
  BY <1>1 DEF CcFetch, Mint, Goto, TypeOK, Stored, Holding
<1>3. kc.n \in Nat /\ file.n \in Nat /\ kc.n <= minted /\ file.n <= minted
  BY DEF StoreNumbers, TypeOK
<1>4. tok'[t].n = minted + 1 /\ tok'[t].grant = g BY <1>2 DEF TypeOK, Minted
<1>5. HeldTokens'
  <2>1. ASSUME NEW u \in Tasks \ {t}, pc'[u] \in Holding
        PROVE  /\ tok'[u] = tok[u] /\ pc[u] \in Holding
               /\ tok[u].n \in 1..minted /\ tok[u].n # kc.n /\ tok[u].n # file.n
               /\ tok[u].grant = "ac" => tok[u].n \in live
    BY <1>2, <2>1 DEF TypeOK, HeldTokens
  <2>2. ASSUME NEW u \in Tasks, pc'[u] \in Holding
        PROVE  /\ tok'[u].n \in 1..minted' /\ tok'[u].n # kc'.n /\ tok'[u].n # file'.n
               /\ tok'[u].grant = "ac" => tok'[u].n \in live'
    <3> HIDE DEF Rotation, Inv
    <3>1. CASE u = t BY <1>1, <1>2, <1>3, <1>4, <3>1
    <3>2. CASE u # t BY <1>1, <1>2, <2>1, <2>2, <3>2
    <3> QED BY <3>1, <3>2
  <2>3. ASSUME NEW u \in Tasks, NEW v \in Tasks \ {u}, pc'[u] \in Holding, pc'[v] \in Holding
        PROVE  tok'[v].n # tok'[u].n
    <3>1. CASE u = t BY <1>2, <1>4, <2>1, <2>3, <3>1
    <3>2. CASE v = t BY <1>2, <1>4, <2>1, <2>3, <3>2
    <3>3. CASE u # t /\ v # t BY <2>1, <2>3, <3>3 DEF HeldTokens
    <3> QED BY <3>1, <3>2, <3>3
  <2> QED BY <2>2, <2>3 DEF HeldTokens
<1>6. SentTokens' BY <1>1, <1>2 DEF SentTokens, TypeOK
<1>7. StoreLive' BY <1>1, <1>2, OnlyWriter DEF StoreLive, TypeOK, Critical, CcFetch
<1>8. StoreNumbers' BY <1>2, <1>3 DEF StoreNumbers, TypeOK
<1> QED BY <1>5, <1>6, <1>7, <1>8

\* Grant preserves the rotation invariant.
LEMMA GrantRotation ==
    ASSUME Quiet, Inv, Rotation, NEW t \in Tasks, Grant(t)
    PROVE  Rotation'
<1> USE TokenFacts, StoredTyped DEF Rotation, Inv, storeVars
<1>1. PICK g \in Grants : /\ Mint(t, g) /\ Goto(t, "plock")
                          /\ live' = IF g = "ac" THEN live \cup {minted + 1} ELSE live
  BY DEF Grant, Quiet, Grants
<1>2. /\ pc[t] \notin Holding /\ minted \in Nat /\ minted' = minted + 1
      /\ tok' = [tok EXCEPT ![t] = Minted(t, g)] /\ pc' = [pc EXCEPT ![t] = "plock"]
      /\ UNCHANGED <<kc, file, kcState>> /\ Stored' = Stored
  BY <1>1 DEF Grant, Mint, Goto, TypeOK, Stored, Holding
<1>3. kc.n \in Nat /\ file.n \in Nat /\ kc.n <= minted /\ file.n <= minted
  BY DEF StoreNumbers, TypeOK
<1>4. tok'[t].n = minted + 1 /\ tok'[t].grant = g BY <1>2 DEF TypeOK, Minted
<1>5. HeldTokens'
  <2>1. ASSUME NEW u \in Tasks \ {t}, pc'[u] \in Holding
        PROVE  /\ tok'[u] = tok[u] /\ pc[u] \in Holding
               /\ tok[u].n \in 1..minted /\ tok[u].n # kc.n /\ tok[u].n # file.n
               /\ tok[u].grant = "ac" => tok[u].n \in live
    BY <1>2, <2>1 DEF TypeOK, HeldTokens
  <2>2. ASSUME NEW u \in Tasks, pc'[u] \in Holding
        PROVE  /\ tok'[u].n \in 1..minted' /\ tok'[u].n # kc'.n /\ tok'[u].n # file'.n
               /\ tok'[u].grant = "ac" => tok'[u].n \in live'
    <3> HIDE DEF Rotation, Inv
    <3>1. CASE u = t BY <1>1, <1>2, <1>3, <1>4, <3>1
    <3>2. CASE u # t BY <1>1, <1>2, <2>1, <2>2, <3>2
    <3> QED BY <3>1, <3>2
  <2>3. ASSUME NEW u \in Tasks, NEW v \in Tasks \ {u}, pc'[u] \in Holding, pc'[v] \in Holding
        PROVE  tok'[v].n # tok'[u].n
    <3>1. CASE u = t BY <1>2, <1>4, <2>1, <2>3, <3>1
    <3>2. CASE v = t BY <1>2, <1>4, <2>1, <2>3, <3>2
    <3>3. CASE u # t /\ v # t BY <2>1, <2>3, <3>3 DEF HeldTokens
    <3> QED BY <3>1, <3>2, <3>3
  <2> QED BY <2>2, <2>3 DEF HeldTokens
<1>6. SentTokens' BY <1>1, <1>2 DEF SentTokens, TypeOK
<1>7. StoreLive' BY <1>1, <1>2 DEF StoreLive, TypeOK, Critical, Grant
<1>8. StoreNumbers' BY <1>2, <1>3 DEF StoreNumbers, TypeOK
<1> QED BY <1>5, <1>6, <1>7, <1>8

\* Store preserves the rotation invariant.
LEMMA StoreRotation ==
    ASSUME Quiet, Inv, Rotation, NEW t \in Tasks, Store(t)
    PROVE  Rotation'
<1> USE TokenFacts DEF Rotation, Inv
<1>0. /\ pc[t] = "store" /\ UNCHANGED <<tok, minted, live, file, kcState>>
      /\ \A u \in Tasks \ {t} : pc[u] \notin Critical
      /\ tok[t] \in Tokens /\ tok[t] # NoToken /\ tok[t].n \in 1..minted /\ minted \in Nat
      /\ tok[t].grant = "ac" => tok[t].n \in live
  BY OnlyWriter DEF Store, Critical, HeldTokens, Holding, TypeOK, serverVars, NoToken
<1>1. CASE kcState = "up" /\ kc' = tok[t] /\ Goto(t, AfterStore(t, tok[t]))
  <2>1. HeldTokens' BY <1>0, <1>1 DEF HeldTokens, Holding, Goto, AfterStore, TypeOK
  <2>2. SentTokens' BY <1>0, <1>1 DEF SentTokens, Critical, Goto, AfterStore, TypeOK
  <2>3. Stored' = tok[t] BY <1>0, <1>1 DEF Stored
  <2>4. StoreLive' BY <1>0, <2>3 DEF StoreLive
  <2>5. StoreNumbers' BY <1>0, <1>1 DEF StoreNumbers, Critical, Goto, AfterStore, TypeOK
  <2> QED BY <2>1, <2>2, <2>4, <2>5
<1>2. CASE kc' = (IF kcState = "up" THEN NoToken ELSE kc) /\ Goto(t, "write")
  <2>0. NoToken.n = 0 BY DEF NoToken
  <2>1. HeldTokens' BY <1>0, <1>2, <2>0 DEF HeldTokens, Holding, Goto, TypeOK
  <2>2. SentTokens' BY <1>0, <1>2 DEF SentTokens, Critical, Goto, TypeOK
  <2>3. StoreLive' BY <1>0, <1>2 DEF StoreLive, Goto, TypeOK
  <2>4. StoreNumbers' BY <1>0, <1>2, <2>0 DEF StoreNumbers, Critical, Goto, TypeOK
  <2> QED BY <2>1, <2>2, <2>3, <2>4
<1> QED BY <1>1, <1>2 DEF Store

\* WriteFile preserves the rotation invariant.
LEMMA WriteFileRotation ==
    ASSUME Quiet, Inv, Rotation, NEW t \in Tasks, WriteFile(t)
    PROVE  Rotation'
<1> USE TokenFacts DEF Rotation, Inv
<1>0. /\ pc[t] = "write" /\ UNCHANGED <<tok, minted, live, kc, kcState>>
      /\ \A u \in Tasks \ {t} : pc[u] \notin Critical
      /\ tok[t] \in Tokens \cup {NoToken} /\ tok[t].n \in 1..minted /\ minted \in Nat
      /\ tok[t].grant = "ac" => tok[t].n \in live
  BY OnlyWriter DEF WriteFile, Critical, HeldTokens, Holding, TypeOK, serverVars
<1>1. file' = tok[t] /\ Goto(t, AfterStore(t, tok[t])) BY DEF WriteFile, Quiet
<1>2. HeldTokens' BY <1>0, <1>1 DEF HeldTokens, Holding, Goto, AfterStore, TypeOK
<1>3. SentTokens' BY <1>0, <1>1 DEF SentTokens, Critical, Goto, AfterStore, TypeOK
<1>4. Stored' = tok[t] BY <1>0, <1>1 DEF Stored, StoreNumbers
<1>5. StoreLive' BY <1>0, <1>4 DEF StoreLive
<1>6. StoreNumbers' BY <1>0, <1>1 DEF StoreNumbers, Critical, Goto, AfterStore, TypeOK
<1> QED BY <1>2, <1>3, <1>5, <1>6

\* DeleteEntry preserves the rotation invariant.
LEMMA DeleteEntryRotation ==
    ASSUME Quiet, Inv, Rotation, NEW t \in Tasks, DeleteEntry(t)
    PROVE  Rotation'
<1> USE TokenFacts DEF Rotation, Inv
<1>0. /\ pc[t] = "delkc" /\ UNCHANGED <<tok, minted, live, file, kcState>>
      /\ \A u \in Tasks \ {t} : pc[u] \notin Critical
      /\ kc' = (IF kcState = "up" THEN NoToken ELSE kc) /\ Goto(t, "delfile")
      /\ minted \in Nat /\ NoToken.n = 0
  BY OnlyWriter DEF DeleteEntry, Critical, TypeOK, serverVars, StoreNumbers, NoToken
<1>1. HeldTokens' BY <1>0 DEF HeldTokens, Holding, Goto, TypeOK
<1>2. SentTokens' BY <1>0 DEF SentTokens, Critical, Goto, TypeOK
<1>3. StoreLive' BY <1>0 DEF StoreLive, Goto, TypeOK
<1>4. StoreNumbers' BY <1>0 DEF StoreNumbers, Critical, Goto, TypeOK
<1> QED BY <1>1, <1>2, <1>3, <1>4

\* DeleteFile preserves the rotation invariant.
LEMMA DeleteFileRotation ==
    ASSUME Quiet, Inv, Rotation, NEW t \in Tasks, DeleteFile(t)
    PROVE  Rotation'
<1> USE TokenFacts DEF Rotation, Inv
<1>0. /\ pc[t] = "delfile" /\ UNCHANGED <<tok, minted, live, kc, kcState>>
      /\ \A u \in Tasks \ {t} : pc[u] \notin Critical
      /\ file' = NoToken /\ Goto(t, AfterDelete(t))
      /\ minted \in Nat /\ NoToken.n = 0 /\ NoToken.grant = "cc"
  BY OnlyWriter DEF DeleteFile, Critical, TypeOK, serverVars, NoToken, Quiet
<1>1. HeldTokens' BY <1>0 DEF HeldTokens, Holding, Goto, AfterDelete, TypeOK
<1>2. SentTokens' BY <1>0 DEF SentTokens, Critical, Goto, AfterDelete, TypeOK
<1>3. Stored' = NoToken BY <1>0 DEF Stored, StoreNumbers
<1>4. StoreLive' BY <1>0, <1>3 DEF StoreLive
<1>5. StoreNumbers' BY <1>0 DEF StoreNumbers, Critical, Goto, AfterDelete, TypeOK
<1> QED BY <1>1, <1>2, <1>4, <1>5

\* UpdateConfig preserves the rotation invariant.
LEMMA UpdateConfigRotation ==
    ASSUME Quiet, Inv, Rotation, NEW t \in Tasks, UpdateConfig(t)
    PROVE  Rotation'
<1> USE TokenFacts, StoredTyped DEF Rotation, Inv, UpdateConfig, Goto, storeVars, serverVars
<1>1. HeldTokens' BY DEF TypeOK, HeldTokens, Holding
<1>2. SentTokens' BY DEF TypeOK, SentTokens, Stored
<1>3. StoreLive' BY DEF TypeOK, StoreLive, Stored
<1>4. StoreNumbers' BY DEF TypeOK, StoreNumbers
<1> QED BY <1>1, <1>2, <1>3, <1>4

\* StoreSecret preserves the rotation invariant.
LEMMA StoreSecretRotation ==
    ASSUME Quiet, Inv, Rotation, NEW t \in Tasks, StoreSecret(t)
    PROVE  Rotation'
<1> USE TokenFacts, StoredTyped DEF Rotation, Inv, StoreSecret, Goto, storeVars, serverVars
<1>1. HeldTokens' BY DEF TypeOK, HeldTokens, Holding
<1>2. SentTokens' BY DEF TypeOK, SentTokens, Stored
<1>3. StoreLive' BY DEF TypeOK, StoreLive, Stored
<1>4. StoreNumbers' BY DEF TypeOK, StoreNumbers
<1> QED BY <1>1, <1>2, <1>3, <1>4

\* Crash preserves the rotation invariant.
LEMMA CrashRotation ==
    ASSUME Quiet, Inv, Rotation, NEW t \in Tasks, Crash(t)
    PROVE  Rotation'
BY DEF Crash, Quiet

\* The clock and stuttering preserve the rotation invariant.
LEMMA SurroundingsRotation ==
    ASSUME Quiet, Inv, Rotation, Expire \/ KeychainChanges \/ Revoke \/ UNCHANGED vars
    PROVE  Rotation'
<1>1. UNCHANGED <<kc, file, kcState, minted, live, pc, tok>>
  BY DEF Quiet, Expire, KeychainChanges, Revoke, vars, storeVars, serverVars, callerVars
<1>2. Stored' = Stored BY <1>1 DEF Stored
<1> QED BY <1>1, <1>2 DEF Rotation, HeldTokens, SentTokens, StoreLive, StoreNumbers

\* Every step preserves the rotation invariant.
LEMMA NextRotation == Quiet /\ Inv /\ Rotation /\ [Next]_vars => Rotation'
<1> SUFFICES ASSUME Quiet, Inv, Rotation, [Next]_vars PROVE Rotation' OBVIOUS
<1>1. ASSUME NEW t \in Tasks, Start(t) PROVE Rotation'
  BY <1>1, ResolveStartRotation, RefreshStartRotation, ForceStartRotation,
    LoginStartRotation, LogoutStartRotation DEF Start
<1>2. ASSUME NEW t \in Tasks, RefreshStep(t) PROVE Rotation'
  BY <1>2, ReadRotation, TakeMutexRotation, TakeLockRotation, RereadRotation,
    FetchRotation DEF RefreshStep
<1>3. ASSUME NEW t \in Tasks, GrantStep(t) PROVE Rotation'
  BY <1>3, CredentialsRotation, CcFetchRotation, GrantRotation DEF GrantStep
<1>4. ASSUME NEW t \in Tasks, WriteStep(t) PROVE Rotation'
  BY <1>4, StoreRotation, WriteFileRotation, DeleteEntryRotation, DeleteFileRotation,
    UpdateConfigRotation, StoreSecretRotation DEF WriteStep
<1>5. ASSUME NEW t \in Tasks, Crash(t) PROVE Rotation' BY <1>5, CrashRotation
<1>6. CASE Expire \/ KeychainChanges \/ Revoke \/ UNCHANGED vars BY <1>6, SurroundingsRotation
<1> QED BY <1>1, <1>2, <1>3, <1>4, <1>5, <1>6 DEF Next, TaskStep

\* Whatever resolvers, forced refreshes, logins and logouts run together, in
\* however many processes, the refresh token that is sent is one the server
\* accepts, so that no caller is rejected because another one refreshed first.
THEOREM NoRotatedToken ==
    ASSUME Quiet
    PROVE  Spec => []RotatedNeverSent
<1>1. Inv /\ Rotation /\ [Next]_vars => Rotation' BY Quiet, NextRotation
<1>2. Spec => []Rotation BY SpecInv, RotationInit, <1>1, PTL DEF Spec
<1>3. Rotation => RotatedNeverSent BY DEF Rotation, SentTokens, RotatedNeverSent
<1> QED BY <1>2, <1>3, PTL

----------------------------------------------------------------------------
\* A token on its way to the store, or already handed over, is one of the
\* client its holder presents; what is to be stored is one; only logins and
\* logouts delete; a logout presents no client.
ClientKept ==
    \A t \in Tasks :
        /\ pc[t] \in {"plock", "store", "write", "config", "secret", "done"}
              /\ want[t] # NoClient => tok[t].client = want[t]
        /\ pc[t] \in {"plock", "store", "write"} => tok[t] # NoToken
        /\ pc[t] \in {"dellock", "delkc", "delfile"} => t \in Logins \cup Logouts
        /\ t \in Logouts => want[t] = NoClient
                /\ pc[t] \in {"start", "dellock", "delkc", "delfile", "config", "done", "failed"}

\* No caller has a token at first.
LEMMA InitClientKept == Init => ClientKept
BY DEF Init, ClientKept

\* Every step keeps tokens with the client they were asked for.
LEMMA NextClientKept ==
    ASSUME Inv, ClientKept, [Next]_vars
    PROVE  ClientKept'
<1> USE TokenFacts, StoredTyped DEF Inv, ClientKept
<1>1. ASSUME NEW t \in Tasks, ResolveStart(t) PROVE ClientKept'
  BY <1>1, TasksAssumption DEF TypeOK, ResolveStart, Goto, storeVars, lockVars, serverVars
<1>2. ASSUME NEW t \in Tasks, RefreshStart(t) PROVE ClientKept'
  BY <1>2, TasksAssumption DEF TypeOK, RefreshStart, Goto, storeVars, lockVars, serverVars
<1>3. ASSUME NEW t \in Tasks, ForceStart(t) PROVE ClientKept'
  BY <1>3, TasksAssumption DEF TypeOK, ForceStart, Goto, storeVars, lockVars, serverVars
<1>4. ASSUME NEW t \in Tasks, LoginStart(t) PROVE ClientKept'
  BY <1>4, TasksAssumption DEF TypeOK, LoginStart, Goto, storeVars, lockVars, serverVars,
     LoginClient
<1>5. ASSUME NEW t \in Tasks, LogoutStart(t) PROVE ClientKept'
  BY <1>5, TasksAssumption DEF TypeOK, LogoutStart, Goto, storeVars, lockVars, serverVars
<1>6. ASSUME NEW t \in Tasks, Read(t) PROVE ClientKept'
  BY <1>6, TasksAssumption DEF TypeOK, Read, Goto, storeVars, lockVars, serverVars, Verdict,
     AfterVerdict, AfterUnavailable
<1>7. ASSUME NEW t \in Tasks, TakeMutex(t) PROVE ClientKept'
  BY <1>7, TasksAssumption DEF TypeOK, TakeMutex, Goto, storeVars, lockVars, serverVars
<1>8. ASSUME NEW t \in Tasks, TakeLock(t) PROVE ClientKept'
  BY <1>8, TasksAssumption DEF TypeOK, TakeLock, Goto, storeVars, lockVars, serverVars, AfterLock
<1>9. ASSUME NEW t \in Tasks, Reread(t) PROVE ClientKept'
  BY <1>9, TasksAssumption DEF TypeOK, Reread, Goto, storeVars, lockVars, serverVars, Verdict,
     AfterVerdict, AfterUnavailable, Release
<1>10. ASSUME NEW t \in Tasks, Fetch(t) PROVE ClientKept'
  BY <1>10, TasksAssumption DEF TypeOK, Fetch, Goto, storeVars, lockVars, serverVars, NoToken,
     Mint, Minted, Release
<1>11. ASSUME NEW t \in Tasks, Credentials(t) PROVE ClientKept'
  BY <1>11, TasksAssumption DEF TypeOK, Credentials, Goto, storeVars, lockVars, serverVars
<1>12. ASSUME NEW t \in Tasks, CcFetch(t) PROVE ClientKept'
  BY <1>12, TasksAssumption DEF TypeOK, CcFetch, Goto, storeVars, lockVars, serverVars,
     NoToken, Mint, Minted, Release
<1>13. ASSUME NEW t \in Tasks, Grant(t) PROVE ClientKept'
  BY <1>13, TasksAssumption DEF TypeOK, Grant, Goto, storeVars, lockVars, serverVars, NoToken,
     Mint, Minted
<1>14. ASSUME NEW t \in Tasks, Store(t) PROVE ClientKept'
  BY <1>14, TasksAssumption DEF TypeOK, Store, Goto, storeVars, lockVars, serverVars,
     AfterStore, Release
<1>15. ASSUME NEW t \in Tasks, WriteFile(t) PROVE ClientKept'
  BY <1>15, TasksAssumption DEF TypeOK, WriteFile, Goto, storeVars, lockVars, serverVars,
     AfterStore, Release
<1>16. ASSUME NEW t \in Tasks, DeleteEntry(t) PROVE ClientKept'
  BY <1>16, TasksAssumption DEF TypeOK, DeleteEntry, Goto, storeVars, lockVars, serverVars,
     AfterDelete, Release
<1>17. ASSUME NEW t \in Tasks, DeleteFile(t) PROVE ClientKept'
  BY <1>17, TasksAssumption DEF TypeOK, DeleteFile, Goto, storeVars, lockVars, serverVars,
     AfterDelete, Release
<1>18. ASSUME NEW t \in Tasks, UpdateConfig(t) PROVE ClientKept'
  BY <1>18, TasksAssumption DEF TypeOK, UpdateConfig, Goto, storeVars, lockVars, serverVars
<1>19. ASSUME NEW t \in Tasks, StoreSecret(t) PROVE ClientKept'
  BY <1>19, TasksAssumption DEF TypeOK, StoreSecret, Goto, storeVars, lockVars, serverVars
<1>20. ASSUME NEW t \in Tasks, Crash(t) PROVE ClientKept'
  BY <1>20, TasksAssumption DEF TypeOK, Crash, Goto, storeVars, lockVars, serverVars, Release,
     Ended
<1>21. CASE Expire \/ KeychainChanges \/ Revoke \/ UNCHANGED vars
  BY <1>21 DEF Expire, KeychainChanges, Revoke, vars, storeVars, serverVars, callerVars
<1> HIDE DEF Inv, ClientKept
<1>22. QED
  BY <1>1, <1>2, <1>3, <1>4, <1>5, <1>6, <1>7, <1>8, <1>9, <1>10, <1>11, <1>12, <1>13, <1>14,
     <1>15, <1>16, <1>17, <1>18, <1>19, <1>20, <1>21
    DEF Next, TaskStep, Start, RefreshStep, GrantStep, WriteStep

\* So they stay in every behaviour.
LEMMA SpecClientKept == Spec => []ClientKept
<1>1. Inv /\ ClientKept /\ [Next]_vars => ClientKept' BY NextClientKept
<1> QED BY SpecInv, InitClientKept, <1>1, PTL DEF Spec

\* Nobody is handed another client's token, whatever the callers, the faults
\* and the order of their steps: client_matches is asked before and after the
\* locks, and what is minted is minted for the client that is presented.
THEOREM HandedOwnClient == Spec => []OwnClient
<1>1. ClientKept => OwnClient BY DEF ClientKept, OwnClient
<1> QED BY SpecClientKept, <1>1, PTL

----------------------------------------------------------------------------
\* Between the keychain's entry being deleted and the file being written.
Rewriting == {"write", "delfile"}

\* The keychain is up or absent; while it is up, a caller in the middle of
\* rewriting the store has deleted its entry: only the file can be read.
EntryDeleted ==
    /\ kcState # "failing"
    /\ \A t \in Tasks : pc[t] \in Rewriting /\ kcState = "up" => kc = NoToken

\* Only the writer can be rewriting.
LEMMA OnlyRewriter ==
    ASSUME Inv, NEW t \in Tasks, pc[t] \in Critical
    PROVE  \A u \in Tasks \ {t} : pc[u] \notin Critical /\ pc[u] \notin Rewriting
BY OnlyWriter DEF Inv, Rewriting, Critical

\* The keychain is there or is not, and nobody is writing yet.
LEMMA InitEntryDeleted == Init => EntryDeleted
BY DEF Init, EntryDeleted, Rewriting

\* Every step keeps the entry deleted while the store is rewritten.
LEMMA NextEntryDeleted ==
    ASSUME "outage" \notin Faults, Inv, EntryDeleted, [Next]_vars
    PROVE  EntryDeleted'
<1> USE TokenFacts, StoredTyped DEF Inv, EntryDeleted
<1>1. ASSUME NEW t \in Tasks, ResolveStart(t) PROVE EntryDeleted'
  BY <1>1, TasksAssumption DEF TypeOK, ResolveStart, Goto, storeVars, lockVars, serverVars,
     Rewriting
<1>2. ASSUME NEW t \in Tasks, RefreshStart(t) PROVE EntryDeleted'
  BY <1>2, TasksAssumption DEF TypeOK, RefreshStart, Goto, storeVars, lockVars, serverVars,
     Rewriting
<1>3. ASSUME NEW t \in Tasks, ForceStart(t) PROVE EntryDeleted'
  BY <1>3, TasksAssumption DEF TypeOK, ForceStart, Goto, storeVars, lockVars, serverVars,
     Rewriting
<1>4. ASSUME NEW t \in Tasks, LoginStart(t) PROVE EntryDeleted'
  BY <1>4, TasksAssumption DEF TypeOK, LoginStart, Goto, storeVars, lockVars, serverVars,
     Rewriting, LoginClient
<1>5. ASSUME NEW t \in Tasks, LogoutStart(t) PROVE EntryDeleted'
  BY <1>5, TasksAssumption DEF TypeOK, LogoutStart, Goto, storeVars, lockVars, serverVars,
     Rewriting
<1>6. ASSUME NEW t \in Tasks, Read(t) PROVE EntryDeleted'
  BY <1>6, TasksAssumption DEF TypeOK, Read, Goto, storeVars, lockVars, serverVars, Rewriting,
     Verdict, AfterVerdict, AfterUnavailable
<1>7. ASSUME NEW t \in Tasks, TakeMutex(t) PROVE EntryDeleted'
  BY <1>7, TasksAssumption DEF TypeOK, TakeMutex, Goto, storeVars, lockVars, serverVars, Rewriting
<1>8. ASSUME NEW t \in Tasks, TakeLock(t) PROVE EntryDeleted'
  BY <1>8, TasksAssumption DEF TypeOK, TakeLock, Goto, storeVars, lockVars, serverVars,
     Rewriting, AfterLock
<1>9. ASSUME NEW t \in Tasks, Reread(t) PROVE EntryDeleted'
  BY <1>9, TasksAssumption, OnlyRewriter DEF TypeOK, Reread, Goto, storeVars, lockVars,
     serverVars, Critical, Rewriting, Verdict, AfterVerdict, AfterUnavailable, Release
<1>10. ASSUME NEW t \in Tasks, Fetch(t) PROVE EntryDeleted'
  BY <1>10, TasksAssumption, OnlyRewriter DEF TypeOK, Fetch, Goto, storeVars, lockVars,
     serverVars, Critical, Rewriting, Mint, Minted, Release
<1>11. ASSUME NEW t \in Tasks, Credentials(t) PROVE EntryDeleted'
  BY <1>11, TasksAssumption DEF TypeOK, Credentials, Goto, storeVars, lockVars, serverVars,
     Rewriting
<1>12. ASSUME NEW t \in Tasks, CcFetch(t) PROVE EntryDeleted'
  BY <1>12, TasksAssumption, OnlyRewriter DEF TypeOK, CcFetch, Goto, storeVars, lockVars,
     serverVars, Critical, Rewriting, Mint, Minted, Release
<1>13. ASSUME NEW t \in Tasks, Grant(t) PROVE EntryDeleted'
  BY <1>13, TasksAssumption DEF TypeOK, Grant, Goto, storeVars, lockVars, serverVars,
     Rewriting, Mint, Minted
<1>14. ASSUME NEW t \in Tasks, Store(t) PROVE EntryDeleted'
  BY <1>14, TasksAssumption, OnlyRewriter DEF TypeOK, Store, Goto, storeVars, lockVars,
     serverVars, Critical, Rewriting, AfterStore, Release
<1>15. ASSUME NEW t \in Tasks, WriteFile(t) PROVE EntryDeleted'
  BY <1>15, TasksAssumption, OnlyRewriter DEF TypeOK, WriteFile, Goto, storeVars, lockVars,
     serverVars, Critical, Rewriting, AfterStore, Release
<1>16. ASSUME NEW t \in Tasks, DeleteEntry(t) PROVE EntryDeleted'
  BY <1>16, TasksAssumption, OnlyRewriter DEF TypeOK, DeleteEntry, Goto, storeVars, lockVars,
     serverVars, Critical, Rewriting, AfterDelete, Release
<1>17. ASSUME NEW t \in Tasks, DeleteFile(t) PROVE EntryDeleted'
  BY <1>17, TasksAssumption, OnlyRewriter DEF TypeOK, DeleteFile, Goto, storeVars, lockVars,
     serverVars, Critical, Rewriting, AfterDelete, Release
<1>18. ASSUME NEW t \in Tasks, UpdateConfig(t) PROVE EntryDeleted'
  BY <1>18, TasksAssumption DEF TypeOK, UpdateConfig, Goto, storeVars, lockVars, serverVars,
     Rewriting
<1>19. ASSUME NEW t \in Tasks, StoreSecret(t) PROVE EntryDeleted'
  BY <1>19, TasksAssumption DEF TypeOK, StoreSecret, Goto, storeVars, lockVars, serverVars,
     Rewriting
<1>20. ASSUME NEW t \in Tasks, Crash(t) PROVE EntryDeleted'
  BY <1>20, TasksAssumption DEF TypeOK, Crash, Goto, storeVars, lockVars, serverVars,
     Rewriting, Release, Ended
<1>21. CASE Expire \/ KeychainChanges \/ Revoke \/ UNCHANGED vars
  BY <1>21 DEF Expire, KeychainChanges, Revoke, vars, storeVars, serverVars, callerVars
<1> HIDE DEF Inv, EntryDeleted
<1>22. QED
  BY <1>1, <1>2, <1>3, <1>4, <1>5, <1>6, <1>7, <1>8, <1>9, <1>10, <1>11, <1>12, <1>13, <1>14,
     <1>15, <1>16, <1>17, <1>18, <1>19, <1>20, <1>21
    DEF Next, TaskStep, Start, RefreshStep, GrantStep, WriteStep

\* Without outages of the keychain, the entry stays deleted in every
\* behaviour.
LEMMA SpecEntryDeleted ==
    ASSUME "outage" \notin Faults
    PROVE  Spec => []EntryDeleted
<1>1. Inv /\ EntryDeleted /\ [Next]_vars => EntryDeleted' BY NextEntryDeleted
<1> QED BY SpecInv, InitEntryDeleted, <1>1, PTL DEF Spec

\* Unless somebody is rewriting the store, it reads as the last write left it.
ReadsLatest == (\A t \in Tasks : pc[t] \notin Rewriting) => Stored = latest

\* The first session is read as it was left.
LEMMA InitReadsLatest == Init => ReadsLatest
BY DEF Init, ReadsLatest, Stored, NoToken, FirstToken

\* Every step leaves a store that reads as the last write left it.
LEMMA NextReadsLatest ==
    ASSUME "outage" \notin Faults, "disk" \notin Faults, "crash" \notin Faults,
           EntryDeleted, ClientKept, Inv, ReadsLatest, [Next]_vars
    PROVE  ReadsLatest'
<1> USE TokenFacts, StoredTyped DEF Inv, ReadsLatest, EntryDeleted, ClientKept
<1>1. ASSUME NEW t \in Tasks, ResolveStart(t) PROVE ReadsLatest'
  BY <1>1, TasksAssumption DEF TypeOK, ResolveStart, Goto, storeVars, lockVars, serverVars,
     Rewriting, Stored
<1>2. ASSUME NEW t \in Tasks, RefreshStart(t) PROVE ReadsLatest'
  BY <1>2, TasksAssumption DEF TypeOK, RefreshStart, Goto, storeVars, lockVars, serverVars,
     Rewriting, Stored
<1>3. ASSUME NEW t \in Tasks, ForceStart(t) PROVE ReadsLatest'
  BY <1>3, TasksAssumption DEF TypeOK, ForceStart, Goto, storeVars, lockVars, serverVars,
     Rewriting, Stored
<1>4. ASSUME NEW t \in Tasks, LoginStart(t) PROVE ReadsLatest'
  BY <1>4, TasksAssumption DEF TypeOK, LoginStart, Goto, storeVars, lockVars, serverVars,
     Rewriting, Stored, LoginClient
<1>5. ASSUME NEW t \in Tasks, LogoutStart(t) PROVE ReadsLatest'
  BY <1>5, TasksAssumption DEF TypeOK, LogoutStart, Goto, storeVars, lockVars, serverVars,
     Rewriting, Stored
<1>6. ASSUME NEW t \in Tasks, Read(t) PROVE ReadsLatest'
  BY <1>6, TasksAssumption DEF TypeOK, Read, Goto, storeVars, lockVars, serverVars, Rewriting,
     Stored, Verdict, AfterVerdict, AfterUnavailable
<1>7. ASSUME NEW t \in Tasks, TakeMutex(t) PROVE ReadsLatest'
  BY <1>7, TasksAssumption DEF TypeOK, TakeMutex, Goto, storeVars, lockVars, serverVars,
     Rewriting, Stored
<1>8. ASSUME NEW t \in Tasks, TakeLock(t) PROVE ReadsLatest'
  BY <1>8, TasksAssumption DEF TypeOK, TakeLock, Goto, storeVars, lockVars, serverVars,
     Rewriting, Stored, AfterLock
<1>9. ASSUME NEW t \in Tasks, Reread(t) PROVE ReadsLatest'
  BY <1>9, TasksAssumption, OnlyRewriter DEF TypeOK, Reread, Goto, storeVars, lockVars,
     serverVars, Critical, Rewriting, Stored, Verdict, AfterVerdict, AfterUnavailable, Release
<1>10. ASSUME NEW t \in Tasks, Fetch(t) PROVE ReadsLatest'
  BY <1>10, TasksAssumption, OnlyRewriter DEF TypeOK, Fetch, Goto, storeVars, lockVars,
     serverVars, Critical, Rewriting, Stored, Mint, Minted, Release
<1>11. ASSUME NEW t \in Tasks, Credentials(t) PROVE ReadsLatest'
  BY <1>11, TasksAssumption DEF TypeOK, Credentials, Goto, storeVars, lockVars, serverVars,
     Rewriting, Stored
<1>12. ASSUME NEW t \in Tasks, CcFetch(t) PROVE ReadsLatest'
  BY <1>12, TasksAssumption, OnlyRewriter DEF TypeOK, CcFetch, Goto, storeVars, lockVars,
     serverVars, Critical, Rewriting, Stored, Mint, Minted, Release
<1>13. ASSUME NEW t \in Tasks, Grant(t) PROVE ReadsLatest'
  BY <1>13, TasksAssumption DEF TypeOK, Grant, Goto, storeVars, lockVars, serverVars,
     Rewriting, Stored, Mint, Minted
<1>14. ASSUME NEW t \in Tasks, Store(t) PROVE ReadsLatest'
  BY <1>14, TasksAssumption, OnlyRewriter DEF TypeOK, Store, Goto, storeVars, lockVars,
     serverVars, Critical, Rewriting, Stored, AfterStore, Release
<1>15. ASSUME NEW t \in Tasks, WriteFile(t) PROVE ReadsLatest'
  BY <1>15, TasksAssumption, OnlyRewriter DEF TypeOK, WriteFile, Goto, storeVars, lockVars,
     serverVars, Critical, Rewriting, Stored, AfterStore, Release
<1>16. ASSUME NEW t \in Tasks, DeleteEntry(t) PROVE ReadsLatest'
  BY <1>16, TasksAssumption, OnlyRewriter DEF TypeOK, DeleteEntry, Goto, storeVars, lockVars,
     serverVars, Critical, Rewriting, Stored, AfterDelete, Release
<1>17. ASSUME NEW t \in Tasks, DeleteFile(t) PROVE ReadsLatest'
  BY <1>17, TasksAssumption, OnlyRewriter DEF TypeOK, DeleteFile, Goto, storeVars, lockVars,
     serverVars, Critical, Rewriting, Stored, AfterDelete, Release
<1>18. ASSUME NEW t \in Tasks, UpdateConfig(t) PROVE ReadsLatest'
  BY <1>18, TasksAssumption DEF TypeOK, UpdateConfig, Goto, storeVars, lockVars, serverVars,
     Rewriting, Stored
<1>19. ASSUME NEW t \in Tasks, StoreSecret(t) PROVE ReadsLatest'
  BY <1>19, TasksAssumption DEF TypeOK, StoreSecret, Goto, storeVars, lockVars, serverVars,
     Rewriting, Stored
<1>20. ASSUME NEW t \in Tasks, Crash(t) PROVE ReadsLatest'
  BY <1>20 DEF Crash
<1>21. CASE Expire \/ KeychainChanges \/ Revoke \/ UNCHANGED vars
  BY <1>21 DEF Expire, KeychainChanges, Revoke, vars, storeVars, serverVars, callerVars, Stored
<1> HIDE DEF Inv, ReadsLatest, EntryDeleted, ClientKept
<1>22. QED
  BY <1>1, <1>2, <1>3, <1>4, <1>5, <1>6, <1>7, <1>8, <1>9, <1>10, <1>11, <1>12, <1>13, <1>14,
     <1>15, <1>16, <1>17, <1>18, <1>19, <1>20, <1>21
    DEF Next, TaskStep, Start, RefreshStep, GrantStep, WriteStep

\* While the keychain neither fails nor comes and goes, token.json can be
\* written and removed, and no writer is killed half way, a free lock means that
\* a read finds the last write: whatever tokens the keychain refuses and in
\* whatever order the callers write, the entry that would shadow the file is
\* gone before the file is written.  Without the second hypothesis it fails: a
\* write of token.json that fails after clear_keychain_token_entry uncovers the
\* token that the file held before.
THEOREM ReadFindsLastWrite ==
    ASSUME "outage" \notin Faults, "disk" \notin Faults, "crash" \notin Faults
    PROVE  Spec => []LatestRead
<1>1. Inv /\ EntryDeleted /\ ClientKept /\ ReadsLatest /\ [Next]_vars => ReadsLatest'
  BY NextReadsLatest
<1>2. Inv /\ ReadsLatest => LatestRead
  BY TasksAssumption DEF Inv, OneWriter, Critical, Rewriting, ReadsLatest, LatestRead
<1> QED BY SpecInv, SpecEntryDeleted, SpecClientKept, InitReadsLatest, <1>1, <1>2, PTL DEF Spec

----------------------------------------------------------------------------
\* A logout has deleted the session, and nobody has logged in.
LoggedOut ==
    /\ \E t \in Logouts : pc[t] \in {"config", "done"}
    /\ \A t \in Logins : pc[t] = "start"

\* Then no authorization-code token is left where it could be read, nor in the
\* hands of anybody who could store it.
NothingLeft ==
    /\ file.grant # "ac" /\ (kcState = "up" => kc.grant # "ac")
    /\ \A t \in Tasks : pc[t] \in {"fetch", "store", "write"} => tok[t].grant # "ac"

NoneLeft == LoggedOut => NothingLeft

\* Only a login takes a granted authorization-code token to the lock.
GrantedByLogin ==
    \A t \in Tasks :
        /\ pc[t] = "grant" => t \in Logins \cup Refreshers
        /\ pc[t] = "plock" /\ tok[t].grant = "ac" => t \in Logins

\* Nobody has been granted a token at first, and nobody has logged out.
LEMMA InitNoneLeft == Init => NoneLeft /\ GrantedByLogin
BY TasksAssumption DEF Init, NoneLeft, LoggedOut, GrantedByLogin, Tasks

\* Every step leaves such tokens to logins.
LEMMA NextGrantedByLogin ==
    ASSUME Inv, GrantedByLogin, [Next]_vars
    PROVE  GrantedByLogin'
<1> USE TokenFacts, StoredTyped DEF Inv, GrantedByLogin
<1>1. ASSUME NEW t \in Tasks, ResolveStart(t) PROVE GrantedByLogin'
  BY <1>1, TasksAssumption DEF TypeOK, ResolveStart, Goto, storeVars, lockVars, serverVars
<1>2. ASSUME NEW t \in Tasks, RefreshStart(t) PROVE GrantedByLogin'
  BY <1>2, TasksAssumption DEF TypeOK, RefreshStart, Goto, storeVars, lockVars, serverVars
<1>3. ASSUME NEW t \in Tasks, ForceStart(t) PROVE GrantedByLogin'
  BY <1>3, TasksAssumption DEF TypeOK, ForceStart, Goto, storeVars, lockVars, serverVars
<1>4. ASSUME NEW t \in Tasks, LoginStart(t) PROVE GrantedByLogin'
  BY <1>4, TasksAssumption DEF TypeOK, LoginStart, Goto, storeVars, lockVars, serverVars,
     LoginClient
<1>5. ASSUME NEW t \in Tasks, LogoutStart(t) PROVE GrantedByLogin'
  BY <1>5, TasksAssumption DEF TypeOK, LogoutStart, Goto, storeVars, lockVars, serverVars
<1>6. ASSUME NEW t \in Tasks, Read(t) PROVE GrantedByLogin'
  BY <1>6, TasksAssumption DEF TypeOK, Read, Goto, storeVars, lockVars, serverVars, Verdict,
     AfterVerdict, AfterUnavailable
<1>7. ASSUME NEW t \in Tasks, TakeMutex(t) PROVE GrantedByLogin'
  BY <1>7, TasksAssumption DEF TypeOK, TakeMutex, Goto, storeVars, lockVars, serverVars
<1>8. ASSUME NEW t \in Tasks, TakeLock(t) PROVE GrantedByLogin'
  BY <1>8, TasksAssumption DEF TypeOK, TakeLock, Goto, storeVars, lockVars, serverVars, AfterLock
<1>9. ASSUME NEW t \in Tasks, Reread(t) PROVE GrantedByLogin'
  BY <1>9, TasksAssumption DEF TypeOK, Reread, Goto, storeVars, lockVars, serverVars, Verdict,
     AfterVerdict, AfterUnavailable, Release
<1>10. ASSUME NEW t \in Tasks, Fetch(t) PROVE GrantedByLogin'
  BY <1>10, TasksAssumption DEF TypeOK, Fetch, Goto, storeVars, lockVars, serverVars, Mint,
     Minted, Release
<1>11. ASSUME NEW t \in Tasks, Credentials(t) PROVE GrantedByLogin'
  BY <1>11, TasksAssumption DEF TypeOK, Credentials, Goto, storeVars, lockVars, serverVars
<1>12. ASSUME NEW t \in Tasks, CcFetch(t) PROVE GrantedByLogin'
  BY <1>12, TasksAssumption DEF TypeOK, CcFetch, Goto, storeVars, lockVars, serverVars, Mint,
     Minted, Release
<1>13. ASSUME NEW t \in Tasks, Grant(t) PROVE GrantedByLogin'
  BY <1>13, TasksAssumption DEF TypeOK, Grant, Goto, storeVars, lockVars, serverVars, Mint, Minted
<1>14. ASSUME NEW t \in Tasks, Store(t) PROVE GrantedByLogin'
  BY <1>14, TasksAssumption DEF TypeOK, Store, Goto, storeVars, lockVars, serverVars,
     AfterStore, Release
<1>15. ASSUME NEW t \in Tasks, WriteFile(t) PROVE GrantedByLogin'
  BY <1>15, TasksAssumption DEF TypeOK, WriteFile, Goto, storeVars, lockVars, serverVars,
     AfterStore, Release
<1>16. ASSUME NEW t \in Tasks, DeleteEntry(t) PROVE GrantedByLogin'
  BY <1>16, TasksAssumption DEF TypeOK, DeleteEntry, Goto, storeVars, lockVars, serverVars,
     AfterDelete, Release
<1>17. ASSUME NEW t \in Tasks, DeleteFile(t) PROVE GrantedByLogin'
  BY <1>17, TasksAssumption DEF TypeOK, DeleteFile, Goto, storeVars, lockVars, serverVars,
     AfterDelete, Release
<1>18. ASSUME NEW t \in Tasks, UpdateConfig(t) PROVE GrantedByLogin'
  BY <1>18, TasksAssumption DEF TypeOK, UpdateConfig, Goto, storeVars, lockVars, serverVars
<1>19. ASSUME NEW t \in Tasks, StoreSecret(t) PROVE GrantedByLogin'
  BY <1>19, TasksAssumption DEF TypeOK, StoreSecret, Goto, storeVars, lockVars, serverVars
<1>20. ASSUME NEW t \in Tasks, Crash(t) PROVE GrantedByLogin'
  BY <1>20, TasksAssumption DEF TypeOK, Crash, Goto, storeVars, lockVars, serverVars, Release,
     Ended
<1>21. CASE Expire \/ KeychainChanges \/ Revoke \/ UNCHANGED vars
  BY <1>21 DEF Expire, KeychainChanges, Revoke, vars, storeVars, serverVars, callerVars
<1> HIDE DEF Inv, GrantedByLogin
<1>22. QED
  BY <1>1, <1>2, <1>3, <1>4, <1>5, <1>6, <1>7, <1>8, <1>9, <1>10, <1>11, <1>12, <1>13, <1>14,
     <1>15, <1>16, <1>17, <1>18, <1>19, <1>20, <1>21
    DEF Next, TaskStep, Start, RefreshStep, GrantStep, WriteStep

\* So does every behaviour.
LEMMA SpecGrantedByLogin == Spec => []GrantedByLogin
<1>1. Inv /\ GrantedByLogin /\ [Next]_vars => GrantedByLogin' BY NextGrantedByLogin
<1> QED BY SpecInv, InitNoneLeft, <1>1, PTL DEF Spec

\* Who is logged out after a step other than the deletion itself was so before
\* it, and the step was not a login's.
LEMMA StillLoggedOut ==
    ASSUME Inv, NEW t \in Tasks, NEW l \in Labels \ {"start"}, Goto(t, l), LoggedOut',
           t \in Logouts /\ l \in {"config", "done"} => pc[t] = "config"
    PROVE  LoggedOut /\ t \notin Logins
<1>1. pc' = [pc EXCEPT ![t] = l] /\ pc \in [Tasks -> Labels] BY DEF Goto, Inv, TypeOK, Labels
<1>2. Logins \subseteq Tasks /\ Logouts \subseteq Tasks BY DEF Tasks
<1>3. t \notin Logins BY <1>1 DEF LoggedOut
<1>4. \A u \in Logins : pc[u] = "start" BY <1>1, <1>2, <1>3 DEF LoggedOut
<1>5. PICK o \in Logouts : pc'[o] \in {"config", "done"} BY DEF LoggedOut
<1>6. pc[o] \in {"config", "done"} BY <1>1, <1>2, <1>5
<1> QED BY <1>3, <1>4, <1>6 DEF LoggedOut

\* Every step after a logout leaves no authorization-code token behind.
LEMMA NextNoneLeft ==
    ASSUME "outage" \notin Faults, "disk" \notin Faults,
           EntryDeleted, ClientKept, GrantedByLogin, Inv, NoneLeft, [Next]_vars
    PROVE  NoneLeft'
<1> USE TokenFacts, StoredTyped DEF Inv, NoneLeft, EntryDeleted, ClientKept, GrantedByLogin
<1>1. ASSUME NEW t \in Tasks, ResolveStart(t) PROVE NoneLeft'
  <2> SUFFICES ASSUME LoggedOut' PROVE NothingLeft' OBVIOUS
  <2>1. PICK l \in Labels \ {"start"} :
           Goto(t, l) /\ (t \in Logouts /\ l \in {"config", "done"} => pc[t] = "config")
    BY <1>1, TasksAssumption DEF ResolveStart, Labels
  <2>2. LoggedOut /\ NothingLeft /\ t \notin Logins BY <2>1, StillLoggedOut
  <2> QED
    BY <1>1, <2>2 DEF NothingLeft, TypeOK, ResolveStart, Goto, storeVars, lockVars, serverVars
<1>2. ASSUME NEW t \in Tasks, RefreshStart(t) PROVE NoneLeft'
  <2> SUFFICES ASSUME LoggedOut' PROVE NothingLeft' OBVIOUS
  <2>1. PICK l \in Labels \ {"start"} :
           Goto(t, l) /\ (t \in Logouts /\ l \in {"config", "done"} => pc[t] = "config")
    BY <1>2, TasksAssumption DEF RefreshStart, Labels
  <2>2. LoggedOut /\ NothingLeft /\ t \notin Logins BY <2>1, StillLoggedOut
  <2> QED
    BY <1>2, <2>2 DEF NothingLeft, TypeOK, RefreshStart, Goto, storeVars, lockVars, serverVars
<1>3. ASSUME NEW t \in Tasks, ForceStart(t) PROVE NoneLeft'
  <2> SUFFICES ASSUME LoggedOut' PROVE NothingLeft' OBVIOUS
  <2>1. PICK l \in Labels \ {"start"} :
           Goto(t, l) /\ (t \in Logouts /\ l \in {"config", "done"} => pc[t] = "config")
    BY <1>3, TasksAssumption DEF ForceStart, Labels
  <2>2. LoggedOut /\ NothingLeft /\ t \notin Logins BY <2>1, StillLoggedOut
  <2> QED
    BY <1>3, <2>2 DEF NothingLeft, TypeOK, ForceStart, Goto, storeVars, lockVars, serverVars
<1>4. ASSUME NEW t \in Tasks, LoginStart(t) PROVE NoneLeft'
  <2> SUFFICES ASSUME LoggedOut' PROVE NothingLeft' OBVIOUS
  <2>1. PICK l \in Labels \ {"start"} :
           Goto(t, l) /\ (t \in Logouts /\ l \in {"config", "done"} => pc[t] = "config")
    BY <1>4, TasksAssumption DEF LoginStart, Labels, LoginClient
  <2>2. LoggedOut /\ NothingLeft /\ t \notin Logins BY <2>1, StillLoggedOut
  <2> QED
    BY <1>4, <2>2 DEF NothingLeft, TypeOK, LoginStart, Goto, storeVars, lockVars, serverVars,
       LoginClient
<1>5. ASSUME NEW t \in Tasks, LogoutStart(t) PROVE NoneLeft'
  <2> SUFFICES ASSUME LoggedOut' PROVE NothingLeft' OBVIOUS
  <2>1. PICK l \in Labels \ {"start"} :
           Goto(t, l) /\ (t \in Logouts /\ l \in {"config", "done"} => pc[t] = "config")
    BY <1>5, TasksAssumption DEF LogoutStart, Labels
  <2>2. LoggedOut /\ NothingLeft /\ t \notin Logins BY <2>1, StillLoggedOut
  <2> QED
    BY <1>5, <2>2 DEF NothingLeft, TypeOK, LogoutStart, Goto, storeVars, lockVars, serverVars
<1>6. ASSUME NEW t \in Tasks, Read(t) PROVE NoneLeft'
  <2> SUFFICES ASSUME LoggedOut' PROVE NothingLeft' OBVIOUS
  <2>1. PICK l \in Labels \ {"start"} :
           Goto(t, l) /\ (t \in Logouts /\ l \in {"config", "done"} => pc[t] = "config")
    BY <1>6, TasksAssumption DEF Read, Labels, Verdict, AfterVerdict, AfterUnavailable
  <2>2. LoggedOut /\ NothingLeft /\ t \notin Logins BY <2>1, StillLoggedOut
  <2> QED
    BY <1>6, <2>2 DEF NothingLeft, TypeOK, Read, Goto, storeVars, lockVars, serverVars,
       Verdict, AfterVerdict, AfterUnavailable
<1>7. ASSUME NEW t \in Tasks, TakeMutex(t) PROVE NoneLeft'
  <2> SUFFICES ASSUME LoggedOut' PROVE NothingLeft' OBVIOUS
  <2>1. PICK l \in Labels \ {"start"} :
           Goto(t, l) /\ (t \in Logouts /\ l \in {"config", "done"} => pc[t] = "config")
    BY <1>7, TasksAssumption DEF TakeMutex, Labels
  <2>2. LoggedOut /\ NothingLeft /\ t \notin Logins BY <2>1, StillLoggedOut
  <2> QED
    BY <1>7, <2>2 DEF NothingLeft, TypeOK, TakeMutex, Goto, storeVars, lockVars, serverVars
<1>8. ASSUME NEW t \in Tasks, TakeLock(t) PROVE NoneLeft'
  <2> SUFFICES ASSUME LoggedOut' PROVE NothingLeft' OBVIOUS
  <2>1. PICK l \in Labels \ {"start"} :
           Goto(t, l) /\ (t \in Logouts /\ l \in {"config", "done"} => pc[t] = "config")
    BY <1>8, TasksAssumption DEF TakeLock, Labels, AfterLock
  <2>2. LoggedOut /\ NothingLeft /\ t \notin Logins BY <2>1, StillLoggedOut
  <2> QED
    BY <1>8, <2>2, OnlyRewriter DEF NothingLeft, TypeOK, TakeLock, Goto, storeVars, lockVars,
       serverVars, Stored, NoToken, Critical, AfterLock
<1>9. ASSUME NEW t \in Tasks, Reread(t) PROVE NoneLeft'
  <2> SUFFICES ASSUME LoggedOut' PROVE NothingLeft' OBVIOUS
  <2>1. PICK l \in Labels \ {"start"} :
           Goto(t, l) /\ (t \in Logouts /\ l \in {"config", "done"} => pc[t] = "config")
    BY <1>9, TasksAssumption DEF Reread, Labels, Verdict, AfterVerdict, AfterUnavailable, Release
  <2>2. LoggedOut /\ NothingLeft /\ t \notin Logins BY <2>1, StillLoggedOut
  <2> QED
    BY <1>9, <2>2, OnlyRewriter DEF NothingLeft, TypeOK, Reread, Goto, storeVars, lockVars,
       serverVars, Stored, NoToken, Critical, Verdict, AfterVerdict, AfterUnavailable, Release
<1>10. ASSUME NEW t \in Tasks, Fetch(t) PROVE NoneLeft'
  <2> SUFFICES ASSUME LoggedOut' PROVE NothingLeft' OBVIOUS
  <2>1. PICK l \in Labels \ {"start"} :
           Goto(t, l) /\ (t \in Logouts /\ l \in {"config", "done"} => pc[t] = "config")
    BY <1>10, TasksAssumption DEF Fetch, Labels, Mint, Minted, Release
  <2>2. LoggedOut /\ NothingLeft /\ t \notin Logins BY <2>1, StillLoggedOut
  <2> QED
    BY <1>10, <2>2, OnlyRewriter DEF NothingLeft, TypeOK, Fetch, Goto, storeVars, lockVars,
       serverVars, Stored, NoToken, Critical, Mint, Minted, Release
<1>11. ASSUME NEW t \in Tasks, Credentials(t) PROVE NoneLeft'
  <2> SUFFICES ASSUME LoggedOut' PROVE NothingLeft' OBVIOUS
  <2>1. PICK l \in Labels \ {"start"} :
           Goto(t, l) /\ (t \in Logouts /\ l \in {"config", "done"} => pc[t] = "config")
    BY <1>11, TasksAssumption DEF Credentials, Labels
  <2>2. LoggedOut /\ NothingLeft /\ t \notin Logins BY <2>1, StillLoggedOut
  <2> QED
    BY <1>11, <2>2 DEF NothingLeft, TypeOK, Credentials, Goto, storeVars, lockVars, serverVars
<1>12. ASSUME NEW t \in Tasks, CcFetch(t) PROVE NoneLeft'
  <2> SUFFICES ASSUME LoggedOut' PROVE NothingLeft' OBVIOUS
  <2>1. PICK l \in Labels \ {"start"} :
           Goto(t, l) /\ (t \in Logouts /\ l \in {"config", "done"} => pc[t] = "config")
    BY <1>12, TasksAssumption DEF CcFetch, Labels, Mint, Minted, Release
  <2>2. LoggedOut /\ NothingLeft /\ t \notin Logins BY <2>1, StillLoggedOut
  <2> QED
    BY <1>12, <2>2, OnlyRewriter DEF NothingLeft, TypeOK, CcFetch, Goto, storeVars, lockVars,
       serverVars, Stored, NoToken, Critical, Mint, Minted, Release
<1>13. ASSUME NEW t \in Tasks, Grant(t) PROVE NoneLeft'
  <2> SUFFICES ASSUME LoggedOut' PROVE NothingLeft' OBVIOUS
  <2>1. PICK l \in Labels \ {"start"} :
           Goto(t, l) /\ (t \in Logouts /\ l \in {"config", "done"} => pc[t] = "config")
    BY <1>13, TasksAssumption DEF Grant, Labels, Mint, Minted
  <2>2. LoggedOut /\ NothingLeft /\ t \notin Logins BY <2>1, StillLoggedOut
  <2> QED
    BY <1>13, <2>2 DEF NothingLeft, TypeOK, Grant, Goto, storeVars, lockVars, serverVars, Mint,
       Minted
<1>14. ASSUME NEW t \in Tasks, Store(t) PROVE NoneLeft'
  <2> SUFFICES ASSUME LoggedOut' PROVE NothingLeft' OBVIOUS
  <2>1. PICK l \in Labels \ {"start"} :
           Goto(t, l) /\ (t \in Logouts /\ l \in {"config", "done"} => pc[t] = "config")
    BY <1>14, TasksAssumption DEF Store, Labels, AfterStore, Release
  <2>2. LoggedOut /\ NothingLeft /\ t \notin Logins BY <2>1, StillLoggedOut
  <2> QED
    BY <1>14, <2>2, OnlyRewriter DEF NothingLeft, TypeOK, Store, Goto, storeVars, lockVars,
       serverVars, Stored, NoToken, Critical, AfterStore, Release
<1>15. ASSUME NEW t \in Tasks, WriteFile(t) PROVE NoneLeft'
  <2> SUFFICES ASSUME LoggedOut' PROVE NothingLeft' OBVIOUS
  <2>1. PICK l \in Labels \ {"start"} :
           Goto(t, l) /\ (t \in Logouts /\ l \in {"config", "done"} => pc[t] = "config")
    BY <1>15, TasksAssumption DEF WriteFile, Labels, AfterStore, Release
  <2>2. LoggedOut /\ NothingLeft /\ t \notin Logins BY <2>1, StillLoggedOut
  <2> QED
    BY <1>15, <2>2, OnlyRewriter DEF NothingLeft, TypeOK, WriteFile, Goto, storeVars, lockVars,
       serverVars, Stored, NoToken, Critical, AfterStore, Release
<1>16. ASSUME NEW t \in Tasks, DeleteEntry(t) PROVE NoneLeft'
  <2> SUFFICES ASSUME LoggedOut' PROVE NothingLeft' OBVIOUS
  <2>1. PICK l \in Labels \ {"start"} :
           Goto(t, l) /\ (t \in Logouts /\ l \in {"config", "done"} => pc[t] = "config")
    BY <1>16, TasksAssumption DEF DeleteEntry, Labels, AfterDelete, Release
  <2>2. LoggedOut /\ NothingLeft /\ t \notin Logins BY <2>1, StillLoggedOut
  <2> QED
    BY <1>16, <2>2, OnlyRewriter DEF NothingLeft, TypeOK, DeleteEntry, Goto, storeVars,
       lockVars, serverVars, Stored, NoToken, Critical, AfterDelete, Release
<1>17. ASSUME NEW t \in Tasks, DeleteFile(t) PROVE NoneLeft'
  <2>1. /\ pc[t] = "delfile" /\ file' = NoToken /\ pc' = [pc EXCEPT ![t] = AfterDelete(t)]
        /\ UNCHANGED <<kc, kcState, tok>>
    BY <1>17 DEF DeleteFile, Goto
  <2>2. \A u \in Tasks : pc'[u] \notin {"fetch", "store", "write"}
    BY <2>1, OnlyRewriter DEF TypeOK, Critical, AfterDelete
  <2>3. kcState = "up" => kc = NoToken BY <2>1 DEF Rewriting
  <2> QED BY <2>1, <2>2, <2>3 DEF NoToken, NothingLeft
<1>18. ASSUME NEW t \in Tasks, UpdateConfig(t) PROVE NoneLeft'
  <2> SUFFICES ASSUME LoggedOut' PROVE NothingLeft' OBVIOUS
  <2>1. PICK l \in Labels \ {"start"} :
           Goto(t, l) /\ (t \in Logouts /\ l \in {"config", "done"} => pc[t] = "config")
    BY <1>18, TasksAssumption DEF UpdateConfig, Labels
  <2>2. LoggedOut /\ NothingLeft /\ t \notin Logins BY <2>1, StillLoggedOut
  <2> QED
    BY <1>18, <2>2 DEF NothingLeft, TypeOK, UpdateConfig, Goto, storeVars, lockVars, serverVars
<1>19. ASSUME NEW t \in Tasks, StoreSecret(t) PROVE NoneLeft'
  <2> SUFFICES ASSUME LoggedOut' PROVE NothingLeft' OBVIOUS
  <2>1. PICK l \in Labels \ {"start"} :
           Goto(t, l) /\ (t \in Logouts /\ l \in {"config", "done"} => pc[t] = "config")
    BY <1>19, TasksAssumption DEF StoreSecret, Labels
  <2>2. LoggedOut /\ NothingLeft /\ t \notin Logins BY <2>1, StillLoggedOut
  <2> QED
    BY <1>19, <2>2 DEF NothingLeft, TypeOK, StoreSecret, Goto, storeVars, lockVars, serverVars
<1>20. ASSUME NEW t \in Tasks, Crash(t) PROVE NoneLeft'
  <2> SUFFICES ASSUME LoggedOut' PROVE NothingLeft' OBVIOUS
  <2>1. PICK l \in Labels \ {"start"} :
           Goto(t, l) /\ (t \in Logouts /\ l \in {"config", "done"} => pc[t] = "config")
    BY <1>20, TasksAssumption DEF Crash, Labels, Release, Ended
  <2>2. LoggedOut /\ NothingLeft /\ t \notin Logins BY <2>1, StillLoggedOut
  <2> QED
    BY <1>20, <2>2 DEF NothingLeft, TypeOK, Crash, Goto, storeVars, lockVars, serverVars,
       Release, Ended
<1>21. CASE Expire \/ KeychainChanges \/ Revoke \/ UNCHANGED vars
  BY <1>21 DEF Expire, KeychainChanges, Revoke, vars, storeVars, serverVars, callerVars,
    LoggedOut, NothingLeft
<1> HIDE DEF Inv, NoneLeft, EntryDeleted, ClientKept, GrantedByLogin
<1>22. QED
  BY <1>1, <1>2, <1>3, <1>4, <1>5, <1>6, <1>7, <1>8, <1>9, <1>10, <1>11, <1>12, <1>13, <1>14,
     <1>15, <1>16, <1>17, <1>18, <1>19, <1>20, <1>21
    DEF Next, TaskStep, Start, RefreshStep, GrantStep, WriteStep

\* While the keychain works or is absent all along and files can be written
\* and removed, a logout that has come back is final: the resolvers and forced
\* refreshes that were under way find no session under the lock, whoever is
\* killed meanwhile, and only a login stores an authorization-code token again.
THEOREM LogoutIsFinal ==
    ASSUME "outage" \notin Faults, "disk" \notin Faults
    PROVE  Spec => []LogoutSticks
<1>1. Inv /\ EntryDeleted /\ ClientKept /\ GrantedByLogin /\ NoneLeft /\ [Next]_vars => NoneLeft'
  BY NextNoneLeft
<1>2. NoneLeft /\ EntryDeleted => LogoutSticks
  BY DEF NoneLeft, NothingLeft, LoggedOut, EntryDeleted, LogoutSticks, Stored, NoToken
<1> QED BY SpecInv, SpecEntryDeleted, SpecClientKept, SpecGrantedByLogin, InitNoneLeft,
           <1>1, <1>2, PTL DEF Spec

============================================================================

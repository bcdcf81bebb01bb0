---------------------------- MODULE SigningKeys ----------------------------
(***************************************************************************)
(* Who a request comes from.  A bearer token is verified with the keys the *)
(* issuer publishes, of which the server keeps a copy: the copy serves for *)
(* a while, and is fetched again when it is old or lacks the key that a    *)
(* token names.  The fetch is done under the lock of the copy, so that     *)
(* every other request waits for it.  The issuer meanwhile publishes new   *)
(* keys and retires old ones.                                              *)
(*                                                                         *)
(* Time is counted in ticks.  A key stands for its id, and a token for its *)
(* key's id and the key that signed it, if the signature is good and so    *)
(* are the claims.  The groups a user has are elsewhere.                   *)
(***************************************************************************)
EXTENDS Naturals

CONSTANTS
    Requests,
    Keys,
    NoId,           \* the key id of a token that names no key
    Stranger,       \* the signer of a token that the issuer did not sign, or would not now
    Tokens,         \* the tokens that requests carry
    NoToken,        \* the request has no authorization header
    TTL,            \* how long the copy serves
    Timeout,        \* how long a fetch may take
    DevFallback,    \* whether a request without credentials is the developer's
    Never,
    NoOne, NoAnswer,
    MaxNow          \* bound: the clock stops there

ASSUME KeysAssumption ==
    /\ TTL \in Nat \ {0} /\ Timeout \in Nat /\ MaxNow \in Nat
    /\ DevFallback \in BOOLEAN
    /\ NoId \notin Keys /\ Stranger \notin Keys
    /\ Never \notin Nat
    /\ NoOne \notin Requests
    /\ \A ks \in SUBSET Keys : ks # NoAnswer
    /\ Tokens \subseteq [kid : Keys \cup {NoId}, signer : Keys \cup {Stranger}]
    /\ NoToken \notin Tokens

VARIABLES
    now,
    published,      \* the keys of the issuer
    retiredAt,      \* when the issuer gave a key up, if it did
    provider,       \* whether the server found its issuer when it started
    keys,           \* the server's copy
    fetchedAt,      \* when the copy came
    lock,           \* the request that fetches
    pc,             \* where a request is, or how it was answered
    token,
    forced,         \* the copy did not do: the request wants a new one
    started,        \* when its fetch began
    answer          \* the keys the issuer answered it with, once it has

vars == <<now, published, retiredAt, provider, keys, fetchedAt, lock, pc, token, forced,
          started, answer>>
issuerVars == <<published, retiredAt>>
copyVars == <<keys, fetchedAt>>
callVars == <<token, forced, started, answer>>

Answers == {"user", "unauthorized", "error"}
Steps == {"read", "wait", "fetch"}

Retired(k) == retiredAt[k] # Never

\* The issuer's configuration is there, or cannot be read.
discoverOIDCJWKSURL == {"oidc", "error"}

-----------------------------------------------------------------------------

Init ==
    /\ now = 0
    /\ published \in (SUBSET Keys) \ {{}}
    /\ retiredAt = [k \in Keys |-> Never]
    /\ provider \in discoverOIDCJWKSURL
    /\ keys = {}
    /\ fetchedAt = 0
    /\ lock = NoOne
    /\ pc = [r \in Requests |-> "unauthorized"]
    /\ token = [r \in Requests |-> NoToken]
    /\ forced = [r \in Requests |-> FALSE]
    /\ started = [r \in Requests |-> 0]
    /\ answer = [r \in Requests |-> NoAnswer]

\* The issuer begins to sign with a new key, and gives one up for good.
Publish(k) ==
    /\ k \notin published /\ ~Retired(k)
    /\ published' = published \cup {k}
    /\ UNCHANGED <<now, retiredAt, provider, copyVars, lock, pc, callVars>>

Retire(k) ==
    /\ k \in published
    /\ published' = published \ {k}
    /\ retiredAt' = [retiredAt EXCEPT ![k] = now]
    /\ UNCHANGED <<now, provider, copyVars, lock, pc, callVars>>

\* The client of the issuer gives a fetch up when its time is over.
Tick ==
    /\ now < MaxNow
    /\ \A r \in Requests : pc[r] = "fetch" => now < started[r] + Timeout
    /\ now' = now + 1
    /\ UNCHANGED <<issuerVars, provider, copyVars, lock, pc, callVars>>

\* The preflight has found the issuer, or the process does not start.  The server then
\* looks for it once more, and if that fails it runs and refuses everyone.
NewUserProvider ==
    /\ provider' \in discoverOIDCJWKSURL
    /\ keys' = {} /\ fetchedAt' = 0
    /\ lock' = NoOne
    /\ pc' = [r \in Requests |-> IF pc[r] \in Steps THEN "error" ELSE pc[r]]
    /\ token' = [r \in Requests |-> NoToken]
    /\ forced' = [r \in Requests |-> FALSE]
    /\ started' = [r \in Requests |-> 0]
    /\ answer' = [r \in Requests |-> NoAnswer]
    /\ UNCHANGED <<now, issuerVars>>

-----------------------------------------------------------------------------

\* A request is over.
Answer(r, a) ==
    /\ pc' = [pc EXCEPT ![r] = a]
    /\ token' = [token EXCEPT ![r] = NoToken]
    /\ forced' = [forced EXCEPT ![r] = FALSE]

\* The issuer signs with the keys that it publishes, and has signed with those it did.
Presentable(t) == t.signer \in Keys => t.signer \in published \/ Retired(t.signer)

\* A request without a token is the developer's, if that is allowed and it does not say
\* who it is from.
DevFallbackUser(r) ==
    \/ Answer(r, "unauthorized")
    \/ DevFallback /\ Answer(r, "user")

\* A token that can be read names a key, or none.
parseJWT(r) ==
    \/ Answer(r, "unauthorized")
    \/ /\ \E t \in Tokens : Presentable(t) /\ token' = [token EXCEPT ![r] = t]
       /\ pc' = [pc EXCEPT ![r] = "read"]
       /\ UNCHANGED forced

\* A request with a token goes on to the keys.
CurrentUser(r) ==
    /\ pc[r] \in Answers
    /\ \/ /\ provider = "error"
          /\ Answer(r, "error")
       \/ /\ provider = "oidc"
          /\ DevFallbackUser(r) \/ parseJWT(r)
    /\ UNCHANGED <<now, issuerVars, provider, copyVars, lock, started, answer>>

\* The key a token is verified with: the one it names, or else the only one.
pickJWK(ks, kid) == {k \in ks : k = kid \/ (kid = NoId /\ ks = {k})}

verifyJWTSignature(r, k) == token[r].signer = k

verifyToken(r, k) == IF verifyJWTSignature(r, k) THEN "user" ELSE "unauthorized"

\* Mutant: the copy that lacks the key is not fetched again.
PickOnce(r, ks) ==
    IF pickJWK(ks, token[r].kid) # {}
    THEN \E k \in pickJWK(ks, token[r].kid) : Answer(r, verifyToken(r, k))
    ELSE Answer(r, "error")

\* The request has a copy, old or new.  If the key is not there, the copy is fetched,
\* once.
PublicKey(r, ks) ==
    \/ \E k \in pickJWK(ks, token[r].kid) : Answer(r, verifyToken(r, k))
    \/ /\ pickJWK(ks, token[r].kid) = {}
       /\ IF forced[r]
          THEN Answer(r, "error")
          ELSE /\ pc' = [pc EXCEPT ![r] = "wait"]
               /\ forced' = [forced EXCEPT ![r] = TRUE]
               /\ UNCHANGED token

Fresh == keys # {} /\ now < fetchedAt + TTL

\* The copy is read under the lock, which several readers share.
ReadCopy(r) ==
    /\ pc[r] = "read"
    /\ lock = NoOne
    /\ IF Fresh
       THEN PublicKey(r, keys)
       ELSE pc' = [pc EXCEPT ![r] = "wait"] /\ UNCHANGED <<token, forced>>
    /\ UNCHANGED <<now, issuerVars, provider, copyVars, lock, started, answer>>

\* Another request may have fetched the copy while this one waited for the lock: that
\* will do, unless the request has already found that the copy lacks its key.
keysForVerification(r) ==
    /\ pc[r] = "wait"
    /\ lock = NoOne
    /\ \/ /\ ~forced[r] /\ Fresh
          /\ PublicKey(r, keys)
          /\ UNCHANGED <<lock, started, answer>>
       \/ /\ forced[r] \/ ~Fresh
          /\ lock' = r
          /\ pc' = [pc EXCEPT ![r] = "fetch"]
          /\ started' = [started EXCEPT ![r] = now]
          /\ UNCHANGED <<token, forced, answer>>
    /\ UNCHANGED <<now, issuerVars, provider, copyVars>>

\* The issuer answers with the keys it has, and the answer is under way for a while.
IssuerAnswers(r) ==
    /\ pc[r] = "fetch"
    /\ answer[r] = NoAnswer
    /\ answer' = [answer EXCEPT ![r] = published]
    /\ UNCHANGED <<now, issuerVars, provider, copyVars, lock, pc, token, forced, started>>

\* The answer has keys that the server can use: they become the copy.
InstallKeys(r) ==
    /\ pc[r] = "fetch"
    /\ answer[r] \notin {NoAnswer, {}}
    /\ keys' = answer[r]
    /\ fetchedAt' = now
    /\ lock' = NoOne
    /\ PublicKey(r, answer[r])
    /\ answer' = [answer EXCEPT ![r] = NoAnswer]
    /\ started' = [started EXCEPT ![r] = 0]
    /\ UNCHANGED <<now, issuerVars, provider>>

\* Mutant: the lock is not released when the fetch fails.
FailLocked(r) ==
    /\ pc[r] = "fetch"
    /\ Answer(r, "error")
    /\ answer' = [answer EXCEPT ![r] = NoAnswer]
    /\ UNCHANGED <<now, issuerVars, provider, copyVars, lock, started>>

\* Mutant: when the fetch fails, the copy serves for another while.
KeepServing(r) ==
    /\ pc[r] = "fetch"
    /\ fetchedAt' = now
    /\ lock' = NoOne
    /\ Answer(r, "error")
    /\ answer' = [answer EXCEPT ![r] = NoAnswer]
    /\ UNCHANGED <<now, issuerVars, provider, keys, started>>

\* No answer, a bad one, or one without a key that the server can use: the copy and its
\* age stay, and an old copy does not serve.
FetchFails(r) ==
    /\ pc[r] = "fetch"
    /\ lock' = NoOne
    /\ Answer(r, "error")
    /\ answer' = [answer EXCEPT ![r] = NoAnswer]
    /\ started' = [started EXCEPT ![r] = 0]
    /\ UNCHANGED <<now, issuerVars, provider, copyVars>>

fetchKeys(r) == IssuerAnswers(r) \/ InstallKeys(r) \/ FetchFails(r)

Next ==
    \/ \E k \in Keys : Publish(k) \/ Retire(k)
    \/ Tick
    \/ NewUserProvider
    \/ \E r \in Requests :
          CurrentUser(r) \/ ReadCopy(r) \/ keysForVerification(r) \/ fetchKeys(r)

Spec == Init /\ [][Next]_vars

\* A read-write mutex lets everyone in at last, and the client ends every fetch.
FairSpec ==
    /\ Spec
    /\ \A r \in Requests : SF_vars(ReadCopy(r) \/ keysForVerification(r))
    /\ WF_vars(\E r \in Requests : InstallKeys(r) \/ FetchFails(r))

-----------------------------------------------------------------------------

\* The variables keep their types, and the lock is held by the one request that fetches.
TypeOK ==
    /\ now \in Nat
    /\ published \in SUBSET Keys
    /\ retiredAt \in [Keys -> Nat \cup {Never}]
    /\ provider \in {"oidc", "error"}
    /\ keys \in SUBSET Keys
    /\ fetchedAt \in Nat
    /\ lock \in Requests \cup {NoOne}
    /\ pc \in [Requests -> Answers \cup Steps]
    /\ token \in [Requests -> Tokens \cup {NoToken}]
    /\ forced \in [Requests -> BOOLEAN]
    /\ started \in [Requests -> Nat]
    /\ answer \in [Requests -> {NoAnswer} \cup SUBSET Keys]
    /\ \A r \in Requests : pc[r] = "fetch" <=> lock = r
    /\ \A r \in Requests : pc[r] \in Steps => token[r] \in Tokens

Answered(r, a) == pc[r] \in Steps /\ pc'[r] = a

\* A token that only a retired key vouches for is accepted for a bounded time: the copy
\* serves for TTL, and may have been under way for Timeout before that, however many
\* fetches fail meanwhile and however the requests that share the copy interleave.
RetiredKeysLapse ==
    [][\A r \in Requests : Answered(r, "user") =>
          LET k == token[r].signer IN
          /\ k \in Keys
          /\ Retired(k) => now < retiredAt[k] + Timeout + TTL]_vars

\* A valid token that names its key is accepted, even if the issuer published the key
\* just before and other requests hold an older copy, unless its own fetch fails or the
\* server starts again.
NewKeysAreAccepted ==
    [][\A r \in Requests :
          /\ pc[r] \in Steps /\ pc'[r] \in Answers
          /\ token[r].kid = token[r].signer /\ token[r].signer \in published
          => pc'[r] = "user" \/ FetchFails(r) \/ NewUserProvider]_vars

\* Every request is answered, although a fetch holds everyone up and any number of
\* requests may each want one of their own.
EveryRequestIsAnswered == \A r \in Requests : pc[r] \in Steps ~> pc[r] \in Answers

=============================================================================

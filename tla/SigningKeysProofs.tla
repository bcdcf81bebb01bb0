-------------------------- MODULE SigningKeysProofs --------------------------
(* Proofs about SigningKeys, for every value of its constants. *)
EXTENDS SigningKeys, TLAPS

\* What a copy of the keys does to the request that looks at it, and to it alone.
LEMMA PublicKeyEffect ==
    ASSUME TypeOK, NEW r \in Requests, pc[r] \in Steps, NEW ks \in SUBSET Keys,
           PublicKey(r, ks)
    PROVE  /\ pc' = [pc EXCEPT ![r] = pc'[r]] /\ pc'[r] \in Answers \cup {"wait"}
           /\ token' = [token EXCEPT ![r] = token'[r]] /\ token'[r] \in {token[r], NoToken}
           /\ pc'[r] = "wait" => token'[r] = token[r]
           /\ forced' = [forced EXCEPT ![r] = forced'[r]] /\ forced'[r] \in BOOLEAN
           /\ pc'[r] # "wait" => ~forced'[r]
           /\ pc'[r] = "user" => token[r].signer \in ks
           /\ pc'[r] \in Answers /\ token[r].kid = token[r].signer /\ token[r].signer \in Keys =>
                 \/ token[r].signer \in ks /\ pc'[r] = "user"
                 \/ token[r].signer \notin ks /\ forced[r]
<1>1. CASE \E k \in pickJWK(ks, token[r].kid) : Answer(r, verifyToken(r, k))
  <2>1. PICK k \in pickJWK(ks, token[r].kid) : Answer(r, verifyToken(r, k))
    BY <1>1
  <2>2. k \in ks /\ (k = token[r].kid \/ token[r].kid = NoId)
    BY <2>1 DEF pickJWK
  <2>3. /\ pc' = [pc EXCEPT ![r] = verifyToken(r, k)]
        /\ token' = [token EXCEPT ![r] = NoToken]
        /\ forced' = [forced EXCEPT ![r] = FALSE]
    BY <2>1 DEF Answer
  <2>4. verifyToken(r, k) \in {"user", "unauthorized"}
    BY DEF verifyToken, verifyJWTSignature
  <2>5. /\ pc'[r] = verifyToken(r, k) /\ token'[r] = NoToken /\ forced'[r] = FALSE
        /\ pc' = [pc EXCEPT ![r] = pc'[r]] /\ token' = [token EXCEPT ![r] = token'[r]]
        /\ forced' = [forced EXCEPT ![r] = forced'[r]]
    BY <2>3 DEF TypeOK
  <2>6. pc'[r] = "user" => token[r].signer \in ks
    BY <2>2, <2>5 DEF verifyToken, verifyJWTSignature
  <2>7. token[r].kid = token[r].signer /\ token[r].signer \in Keys =>
           token[r].signer \in ks /\ pc'[r] = "user"
    BY <2>2, <2>5, KeysAssumption DEF verifyToken, verifyJWTSignature
  <2> QED
    BY <2>4, <2>5, <2>6, <2>7 DEF Answers
<1>2. CASE pickJWK(ks, token[r].kid) = {} /\ forced[r] /\ Answer(r, "error")
  <2>1. /\ pc'[r] = "error" /\ token'[r] = NoToken /\ forced'[r] = FALSE
        /\ pc' = [pc EXCEPT ![r] = pc'[r]] /\ token' = [token EXCEPT ![r] = token'[r]]
        /\ forced' = [forced EXCEPT ![r] = forced'[r]]
    BY <1>2 DEF Answer, TypeOK
  <2>2. token[r].kid \notin ks
    BY <1>2 DEF pickJWK
  <2> QED
    BY <1>2, <2>1, <2>2 DEF Answers
<1>3. CASE /\ ~forced[r]
           /\ pc' = [pc EXCEPT ![r] = "wait"]
           /\ forced' = [forced EXCEPT ![r] = TRUE]
           /\ UNCHANGED token
  <2>1. /\ pc'[r] = "wait" /\ token'[r] = token[r] /\ forced'[r] = TRUE
        /\ pc' = [pc EXCEPT ![r] = pc'[r]] /\ token' = [token EXCEPT ![r] = token'[r]]
        /\ forced' = [forced EXCEPT ![r] = forced'[r]]
    BY <1>3 DEF TypeOK
  <2> QED
    BY <2>1 DEF Answers
<1> QED
  BY <1>1, <1>2, <1>3 DEF PublicKey

-----------------------------------------------------------------------------

\* The request that fetches ends with an answer, or goes back to wait for another fetch.
LEMMA EndTyped ==
    ASSUME TypeOK, NEW r \in Requests, pc[r] = "fetch", lock' = NoOne,
           pc' = [pc EXCEPT ![r] = pc'[r]], pc'[r] \in Answers \cup {"wait"},
           token' = [token EXCEPT ![r] = token'[r]], token'[r] \in {token[r], NoToken},
           pc'[r] = "wait" => token'[r] = token[r],
           forced' = [forced EXCEPT ![r] = forced'[r]], forced'[r] \in BOOLEAN,
           started' = [started EXCEPT ![r] = 0], answer' = [answer EXCEPT ![r] = NoAnswer],
           keys' \in SUBSET Keys, fetchedAt' \in Nat,
           UNCHANGED <<now, issuerVars, provider>>
    PROVE  TypeOK'
<1>1. pc' \in [Requests -> Answers \cup Steps]
  BY DEF TypeOK, Steps
<1>2. token' \in [Requests -> Tokens \cup {NoToken}]
  BY DEF TypeOK
<1>3. forced' \in [Requests -> BOOLEAN] /\ started' \in [Requests -> Nat]
  BY DEF TypeOK
<1>4. answer' \in [Requests -> {NoAnswer} \cup SUBSET Keys]
  BY DEF TypeOK
<1>5. ASSUME NEW q \in Requests
      PROVE  pc'[q] = "fetch" <=> lock' = q
  BY <1>1, KeysAssumption DEF TypeOK, Answers
<1>6. ASSUME NEW q \in Requests, pc'[q] \in Steps
      PROVE  token'[q] \in Tokens
  <2>1. CASE q = r
    BY <1>6, <2>1 DEF TypeOK, Steps, Answers
  <2>2. CASE q # r
    BY <1>6, <2>2 DEF TypeOK
  <2> QED
    BY <2>1, <2>2
<1> QED
  BY <1>1, <1>2, <1>3, <1>4, <1>5, <1>6 DEF TypeOK, issuerVars

\* A request that takes no part in a fetch moves on, and the lock is free.
LEMMA MoveTyped ==
    ASSUME TypeOK, NEW r \in Requests, pc[r] # "fetch", UNCHANGED lock,
           pc' = [pc EXCEPT ![r] = pc'[r]], pc'[r] \in Answers \cup {"read", "wait"},
           token' = [token EXCEPT ![r] = token'[r]], token'[r] \in Tokens \cup {NoToken},
           pc'[r] \in Steps => token'[r] \in Tokens,
           forced' = [forced EXCEPT ![r] = forced'[r]], forced'[r] \in BOOLEAN,
           UNCHANGED <<now, issuerVars, provider, copyVars, started, answer>>
    PROVE  TypeOK'
<1>1. pc' \in [Requests -> Answers \cup Steps]
  BY DEF TypeOK, Steps
<1>2. token' \in [Requests -> Tokens \cup {NoToken}]
  BY DEF TypeOK
<1>3. forced' \in [Requests -> BOOLEAN]
  BY DEF TypeOK
<1>4. ASSUME NEW q \in Requests
      PROVE  pc'[q] = "fetch" <=> lock' = q
  BY <1>1 DEF TypeOK, Answers
<1>5. ASSUME NEW q \in Requests, pc'[q] \in Steps
      PROVE  token'[q] \in Tokens
  BY <1>5 DEF TypeOK
<1> QED
  BY <1>1, <1>2, <1>3, <1>4, <1>5 DEF TypeOK, issuerVars, copyVars

\* Every step keeps the types.
LEMMA TypeStep ==
    ASSUME TypeOK, [Next]_vars
    PROVE  TypeOK'
<1> USE KeysAssumption
<1>1. ASSUME NEW k \in Keys, Publish(k) \/ Retire(k)
      PROVE  TypeOK'
  BY <1>1 DEF Publish, Retire, TypeOK, copyVars, callVars
<1>2. CASE Tick
  BY <1>2 DEF Tick, TypeOK, issuerVars, copyVars, callVars
<1>3. CASE NewUserProvider
  <2>1. pc' \in [Requests -> Answers]
    BY <1>3 DEF NewUserProvider, discoverOIDCJWKSURL, TypeOK, Answers
  <2>2. \A r \in Requests : pc'[r] \notin Steps
    BY <2>1 DEF Answers, Steps
  <2> QED
    BY <1>3, <2>1, <2>2 DEF NewUserProvider, discoverOIDCJWKSURL, TypeOK, issuerVars, Steps
<1>4. ASSUME NEW r \in Requests, CurrentUser(r)
      PROVE  TypeOK'
  <2>1. pc[r] # "fetch" /\ UNCHANGED lock
    BY <1>4 DEF CurrentUser, DevFallbackUser, parseJWT, Answers
  <2>2. UNCHANGED <<now, issuerVars, provider, copyVars, started, answer>>
    BY <1>4 DEF CurrentUser, DevFallbackUser, parseJWT
  <2>3. CASE \E a \in Answers : Answer(r, a)
    <3>1. /\ pc' = [pc EXCEPT ![r] = pc'[r]] /\ pc'[r] \in Answers
          /\ token' = [token EXCEPT ![r] = token'[r]] /\ token'[r] = NoToken
          /\ forced' = [forced EXCEPT ![r] = forced'[r]] /\ forced'[r] = FALSE
      BY <2>3 DEF Answer, TypeOK
    <3> QED
      BY <2>1, <2>2, <3>1, MoveTyped DEF Answers, Steps
  <2>4. CASE /\ \E t \in Tokens : token' = [token EXCEPT ![r] = t]
             /\ pc' = [pc EXCEPT ![r] = "read"]
             /\ UNCHANGED forced
    <3>1. /\ pc' = [pc EXCEPT ![r] = pc'[r]] /\ pc'[r] = "read"
          /\ token' = [token EXCEPT ![r] = token'[r]] /\ token'[r] \in Tokens
          /\ forced' = [forced EXCEPT ![r] = forced'[r]] /\ forced'[r] \in BOOLEAN
      BY <2>4 DEF TypeOK
    <3> QED
      BY <2>1, <2>2, <3>1, MoveTyped
  <2> QED
    BY <1>4, <2>3, <2>4 DEF CurrentUser, DevFallbackUser, parseJWT, Answers
<1>5. ASSUME NEW r \in Requests, ReadCopy(r)
      PROVE  TypeOK'
  <2>1. /\ pc[r] = "read" /\ pc[r] \in Steps /\ token[r] \in Tokens
        /\ UNCHANGED <<now, issuerVars, provider, copyVars, lock, started, answer>>
    BY <1>5 DEF ReadCopy, TypeOK, Steps
  <2>2. CASE PublicKey(r, keys)
    BY <2>1, <2>2, PublicKeyEffect, MoveTyped DEF TypeOK, Steps, Answers
  <2>3. CASE pc' = [pc EXCEPT ![r] = "wait"] /\ UNCHANGED <<token, forced>>
    <3>1. /\ pc' = [pc EXCEPT ![r] = pc'[r]] /\ pc'[r] = "wait"
          /\ token' = [token EXCEPT ![r] = token'[r]] /\ token'[r] \in Tokens
          /\ forced' = [forced EXCEPT ![r] = forced'[r]] /\ forced'[r] \in BOOLEAN
      BY <2>1, <2>3 DEF TypeOK
    <3> QED
      BY <2>1, <3>1, MoveTyped
  <2> QED
    BY <1>5, <2>2, <2>3 DEF ReadCopy
<1>6. ASSUME NEW r \in Requests, keysForVerification(r)
      PROVE  TypeOK'
  <2>1. /\ pc[r] = "wait" /\ pc[r] \in Steps /\ token[r] \in Tokens /\ lock = NoOne
        /\ UNCHANGED <<now, issuerVars, provider, copyVars>>
    BY <1>6 DEF keysForVerification, TypeOK, Steps
  <2>2. CASE PublicKey(r, keys) /\ UNCHANGED <<lock, started, answer>>
    BY <2>1, <2>2, PublicKeyEffect, MoveTyped DEF TypeOK, Steps, Answers
  <2>3. CASE /\ lock' = r
             /\ pc' = [pc EXCEPT ![r] = "fetch"]
             /\ started' = [started EXCEPT ![r] = now]
             /\ UNCHANGED <<token, forced, answer>>
    <3>1. \A q \in Requests : pc[q] # "fetch"
      BY <2>1 DEF TypeOK
    <3>2. pc' \in [Requests -> Answers \cup Steps] /\ started' \in [Requests -> Nat]
      BY <2>3 DEF TypeOK, Steps
    <3>3. \A q \in Requests : pc'[q] = "fetch" <=> lock' = q
      BY <2>3, <3>1 DEF TypeOK
    <3>4. \A q \in Requests : pc'[q] \in Steps => token'[q] \in Tokens
      BY <2>1, <2>3 DEF TypeOK
    <3> QED
      BY <2>1, <2>3, <3>2, <3>3, <3>4 DEF TypeOK, issuerVars, copyVars
  <2> QED
    BY <1>6, <2>2, <2>3 DEF keysForVerification
<1>7. ASSUME NEW r \in Requests, IssuerAnswers(r)
      PROVE  TypeOK'
  BY <1>7 DEF IssuerAnswers, TypeOK, issuerVars, copyVars
<1>8. ASSUME NEW r \in Requests, InstallKeys(r)
      PROVE  TypeOK'
  <2>1. /\ pc[r] = "fetch" /\ pc[r] \in Steps /\ answer[r] \in SUBSET Keys
        /\ keys' = answer[r] /\ fetchedAt' = now /\ lock' = NoOne
        /\ answer' = [answer EXCEPT ![r] = NoAnswer]
        /\ started' = [started EXCEPT ![r] = 0]
        /\ UNCHANGED <<now, issuerVars, provider>>
        /\ PublicKey(r, answer[r])
    BY <1>8 DEF InstallKeys, TypeOK, Steps
  <2>2. keys' \in SUBSET Keys /\ fetchedAt' \in Nat
    BY <2>1 DEF TypeOK
  <2> QED
    BY <2>1, <2>2, PublicKeyEffect, EndTyped
<1>9. ASSUME NEW r \in Requests, FetchFails(r)
      PROVE  TypeOK'
  <2>1. /\ pc' = [pc EXCEPT ![r] = pc'[r]] /\ pc'[r] = "error"
        /\ token' = [token EXCEPT ![r] = token'[r]] /\ token'[r] = NoToken
        /\ forced' = [forced EXCEPT ![r] = forced'[r]] /\ forced'[r] = FALSE
    BY <1>9 DEF FetchFails, Answer, TypeOK
  <2>2. /\ keys' \in SUBSET Keys /\ fetchedAt' \in Nat
    BY <1>9 DEF FetchFails, copyVars, TypeOK
  <2> QED
    BY <1>9, <2>1, <2>2, EndTyped DEF FetchFails, Answers
<1>10. CASE UNCHANGED vars
  BY <1>10 DEF vars, TypeOK
<1> QED
  BY <1>1, <1>2, <1>3, <1>4, <1>5, <1>6, <1>7, <1>8, <1>9, <1>10 DEF Next, fetchKeys

\* The variables keep their types, and the lock of the copy is held by the one request
\* that fetches (keysForVerification).
THEOREM TypeCorrect == Spec => []TypeOK
<1>1. Init => TypeOK
  BY KeysAssumption DEF Init, discoverOIDCJWKSURL, TypeOK, Answers, Steps
<1>2. TypeOK /\ [Next]_vars => TypeOK'
  BY TypeStep
<1> QED
  BY <1>1, <1>2, PTL DEF Spec

-----------------------------------------------------------------------------

\* A key is retired for good, and no earlier than now.
IssuerInv == \A k \in Keys : Retired(k) => k \notin published /\ retiredAt[k] <= now

\* The keys of the copy were the issuer's when it came, or Timeout before that at most.
CopyInv ==
    /\ fetchedAt <= now
    /\ \A k \in keys : k \notin published => Retired(k) /\ fetchedAt <= retiredAt[k] + Timeout

\* A fetch takes no longer than Timeout; its answer has keys that were the issuer's when
\* it began or later, and among them the one the request wants, if that still is.
FetchInv ==
    \A r \in Requests : pc[r] = "fetch" =>
        /\ started[r] <= now /\ now <= started[r] + Timeout
        /\ answer[r] # NoAnswer =>
              /\ \A k \in answer[r] :
                    k \notin published => Retired(k) /\ started[r] <= retiredAt[k]
              /\ token[r].signer \in published => token[r].signer \in answer[r]

\* A request outside a fetch has no answer.  The issuer has published the key that it
\* signed a token with, and only a request that waits or fetches wants a new copy.
CallInv ==
    \A r \in Requests :
        /\ pc[r] # "fetch" => answer[r] = NoAnswer
        /\ pc[r] \in Steps => Presentable(token[r])
        /\ pc[r] \notin {"wait", "fetch"} => ~forced[r]

KeysInv == IssuerInv /\ CopyInv /\ FetchInv /\ CallInv

\* The issuer's new key is no key that a token was signed with before.
LEMMA PublishStep ==
    ASSUME TypeOK, KeysInv, NEW k \in Keys, Publish(k)
    PROVE  KeysInv'
<1>1. /\ k \notin published /\ ~Retired(k) /\ published' = published \cup {k}
      /\ UNCHANGED <<now, retiredAt, keys, fetchedAt, pc, token, forced, started, answer>>
      /\ \A j : Retired(j)' <=> Retired(j)
  BY DEF Publish, copyVars, callVars, Retired
<1>2. IssuerInv' /\ CopyInv'
  BY <1>1 DEF KeysInv, IssuerInv, CopyInv, TypeOK
<1>3. \A r \in Requests : pc[r] \in Steps => token[r].signer # k
  BY <1>1 DEF KeysInv, CallInv, Presentable
<1>4. FetchInv'
  BY <1>1, <1>3 DEF KeysInv, FetchInv, Steps
<1>5. CallInv'
  BY <1>1 DEF KeysInv, CallInv, Presentable
<1> QED
  BY <1>2, <1>4, <1>5 DEF KeysInv

\* A key that is retired now was in the copy no longer than until now.
LEMMA RetireStep ==
    ASSUME TypeOK, KeysInv, NEW k \in Keys, Retire(k)
    PROVE  KeysInv'
<1> USE KeysAssumption
<1>1. /\ k \in published /\ published' = published \ {k}
      /\ retiredAt' = [retiredAt EXCEPT ![k] = now]
      /\ UNCHANGED <<now, keys, fetchedAt, pc, token, forced, started, answer>>
  BY DEF Retire, copyVars, callVars
<1>2. /\ Retired(k)' /\ retiredAt'[k] = now
      /\ \A j \in Keys \ {k} : retiredAt'[j] = retiredAt[j] /\ (Retired(j)' <=> Retired(j))
  BY <1>1 DEF TypeOK, Retired
<1>3. IssuerInv'
  BY <1>1, <1>2 DEF KeysInv, IssuerInv, TypeOK
<1>4. ASSUME NEW j \in keys, j \notin published'
      PROVE  Retired(j)' /\ fetchedAt <= retiredAt'[j] + Timeout
  <2>1. CASE j = k
    BY <1>2, <2>1 DEF KeysInv, CopyInv, TypeOK
  <2>2. CASE j # k
    <3>1. j \in Keys /\ j \notin published
      BY <1>1, <1>4, <2>2 DEF TypeOK
    <3> QED
      BY <1>2, <2>2, <3>1 DEF KeysInv, CopyInv
  <2> QED
    BY <2>1, <2>2
<1>5. CopyInv'
  BY <1>1, <1>4 DEF KeysInv, CopyInv
<1>6. ASSUME NEW r \in Requests, pc[r] = "fetch", answer[r] # NoAnswer,
             NEW j \in answer[r], j \notin published'
      PROVE  Retired(j)' /\ started[r] <= retiredAt'[j]
  <2>1. CASE j = k
    BY <1>2, <1>6, <2>1 DEF KeysInv, FetchInv
  <2>2. CASE j # k
    <3>1. j \in Keys /\ j \notin published
      BY <1>1, <1>6, <2>2 DEF TypeOK
    <3> QED
      BY <1>2, <1>6, <2>2, <3>1 DEF KeysInv, FetchInv
  <2> QED
    BY <2>1, <2>2
<1>7. FetchInv'
  BY <1>1, <1>6 DEF KeysInv, FetchInv
<1>8. \A t : Presentable(t) => Presentable(t)'
  BY <1>1, <1>2 DEF Presentable
<1>9. CallInv'
  BY <1>1, <1>8 DEF KeysInv, CallInv
<1> QED
  BY <1>3, <1>5, <1>7, <1>9 DEF KeysInv

\* A request that takes no part in a fetch moves on.
LEMMA MoveStep ==
    ASSUME TypeOK, KeysInv, NEW r \in Requests, pc[r] # "fetch",
           pc' = [pc EXCEPT ![r] = pc'[r]],
           pc'[r] \in {"read", "wait"} => Presentable(token'[r]),
           pc'[r] # "wait" => ~forced'[r],
           pc'[r] # "fetch",
           token' = [token EXCEPT ![r] = token'[r]],
           forced' = [forced EXCEPT ![r] = forced'[r]],
           UNCHANGED <<now, issuerVars, copyVars, started, answer>>
    PROVE  KeysInv'
<1>1. \A q \in Requests \ {r} :
         pc'[q] = pc[q] /\ token'[q] = token[q] /\ forced'[q] = forced[q]
  BY DEF TypeOK
<1>2. \A k, t : (Retired(k)' <=> Retired(k)) /\ (Presentable(t)' <=> Presentable(t))
  BY DEF issuerVars, Retired, Presentable
<1>3. IssuerInv' /\ CopyInv'
  BY <1>2 DEF KeysInv, IssuerInv, CopyInv, issuerVars, copyVars
<1>4. FetchInv'
  BY <1>1, <1>2 DEF KeysInv, FetchInv, issuerVars
<1>5. CallInv'
  <2>1. \A q \in Requests \ {r} :
           /\ pc'[q] # "fetch" => answer'[q] = NoAnswer
           /\ pc'[q] \in Steps => Presentable(token[q])'
           /\ pc'[q] \notin {"wait", "fetch"} => ~forced'[q]
    BY <1>1, <1>2 DEF KeysInv, CallInv
  <2>2. /\ answer'[r] = NoAnswer
        /\ pc'[r] \in Steps => Presentable(token[r])'
    BY <1>2 DEF KeysInv, CallInv, Steps
  <2> QED
    BY <2>1, <2>2 DEF CallInv
<1> QED
  BY <1>3, <1>4, <1>5 DEF KeysInv

\* A fetch ends, and with it the answer that the request had.
LEMMA EndStep ==
    ASSUME TypeOK, KeysInv, NEW r \in Requests, pc[r] = "fetch",
           pc' = [pc EXCEPT ![r] = pc'[r]], pc'[r] \in Answers \cup {"wait"},
           pc'[r] = "wait" => token'[r] = token[r],
           token' = [token EXCEPT ![r] = token'[r]],
           forced' = [forced EXCEPT ![r] = forced'[r]], pc'[r] # "wait" => ~forced'[r],
           started' = [started EXCEPT ![r] = 0], answer' = [answer EXCEPT ![r] = NoAnswer],
           CopyInv', UNCHANGED <<now, issuerVars>>
    PROVE  KeysInv'
<1>1. \A q \in Requests \ {r} :
         /\ pc'[q] = pc[q] /\ token'[q] = token[q] /\ forced'[q] = forced[q]
         /\ started'[q] = started[q] /\ answer'[q] = answer[q]
  BY DEF TypeOK
<1>2. \A k, t : (Retired(k)' <=> Retired(k)) /\ (Presentable(t)' <=> Presentable(t))
  BY DEF issuerVars, Retired, Presentable
<1>3. IssuerInv'
  BY <1>2 DEF KeysInv, IssuerInv, issuerVars
<1>4. pc'[r] \notin {"read", "fetch"} /\ answer'[r] = NoAnswer
  BY DEF Answers, TypeOK
<1>5. FetchInv'
  BY <1>1, <1>2, <1>4 DEF KeysInv, FetchInv, issuerVars
<1>6. CallInv'
  <2>1. \A q \in Requests \ {r} :
           /\ pc'[q] # "fetch" => answer'[q] = NoAnswer
           /\ pc'[q] \in Steps => Presentable(token[q])'
           /\ pc'[q] \notin {"wait", "fetch"} => ~forced'[q]
    BY <1>1, <1>2 DEF KeysInv, CallInv
  <2>2. pc'[r] \in Steps => Presentable(token[r])'
    BY <1>2 DEF KeysInv, CallInv, Answers, Steps
  <2> QED
    BY <1>4, <2>1, <2>2 DEF CallInv
<1> QED
  BY <1>3, <1>5, <1>6 DEF KeysInv

\* Every step preserves the parts.
LEMMA KeysStep ==
    ASSUME TypeOK, KeysInv, [Next]_vars
    PROVE  KeysInv'
<1> USE KeysAssumption
<1>1. ASSUME NEW k \in Keys, Publish(k) \/ Retire(k)
      PROVE  KeysInv'
  BY <1>1, PublishStep, RetireStep
<1>2. CASE Tick
  <2>1. /\ now' = now + 1
        /\ \A r \in Requests : pc[r] = "fetch" => now < started[r] + Timeout
        /\ UNCHANGED <<published, retiredAt, keys, fetchedAt, pc, token, forced, started, answer>>
    BY <1>2 DEF Tick, issuerVars, copyVars, callVars
  <2>2. \A k, t : (Retired(k)' <=> Retired(k)) /\ (Presentable(t)' <=> Presentable(t))
    BY <2>1 DEF Retired, Presentable
  <2>3. IssuerInv' /\ CopyInv'
    BY <2>1, <2>2 DEF KeysInv, IssuerInv, CopyInv, TypeOK, Retired
  <2>4. FetchInv'
    BY <2>1, <2>2 DEF KeysInv, FetchInv, TypeOK
  <2>5. CallInv'
    BY <2>1, <2>2 DEF KeysInv, CallInv
  <2> QED
    BY <2>3, <2>4, <2>5 DEF KeysInv
<1>3. CASE NewUserProvider
  <2>1. \A r \in Requests : pc'[r] \notin Steps /\ answer'[r] = NoAnswer /\ ~forced'[r]
    BY <1>3 DEF NewUserProvider, discoverOIDCJWKSURL, TypeOK, Answers, Steps
  <2>2. FetchInv' /\ CallInv'
    BY <2>1 DEF FetchInv, CallInv, Steps
  <2>3. IssuerInv'
    BY <1>3 DEF NewUserProvider, discoverOIDCJWKSURL, issuerVars, KeysInv, IssuerInv, Retired
  <2>4. CopyInv'
    BY <1>3 DEF NewUserProvider, discoverOIDCJWKSURL, issuerVars, CopyInv, TypeOK
  <2> QED
    BY <2>2, <2>3, <2>4 DEF KeysInv
<1>4. ASSUME NEW r \in Requests, CurrentUser(r)
      PROVE  KeysInv'
  <2>1. pc[r] # "fetch"
    BY <1>4 DEF CurrentUser, DevFallbackUser, parseJWT, Answers
  <2>2. UNCHANGED <<now, issuerVars, copyVars, started, answer>>
    BY <1>4 DEF CurrentUser, DevFallbackUser, parseJWT
  <2>3. CASE \E a \in Answers : Answer(r, a)
    <3>1. /\ pc' = [pc EXCEPT ![r] = pc'[r]] /\ pc'[r] \in Answers
          /\ token' = [token EXCEPT ![r] = token'[r]]
          /\ forced' = [forced EXCEPT ![r] = forced'[r]] /\ ~forced'[r]
      BY <2>3 DEF Answer, TypeOK
    <3> QED
      BY <2>1, <2>2, <3>1, MoveStep DEF Answers
  <2>4. CASE /\ \E t \in Tokens : Presentable(t) /\ token' = [token EXCEPT ![r] = t]
             /\ pc' = [pc EXCEPT ![r] = "read"]
             /\ UNCHANGED forced
    <3>1. /\ pc' = [pc EXCEPT ![r] = pc'[r]] /\ pc'[r] = "read"
          /\ token' = [token EXCEPT ![r] = token'[r]] /\ Presentable(token'[r])
          /\ forced' = [forced EXCEPT ![r] = forced'[r]] /\ forced'[r] = forced[r]
      BY <2>4 DEF TypeOK
    <3>2. ~forced[r]
      BY <1>4 DEF KeysInv, CallInv, CurrentUser, DevFallbackUser, parseJWT, Answers
    <3> QED
      BY <2>1, <2>2, <3>1, <3>2, MoveStep
  <2> QED
    BY <1>4, <2>3, <2>4 DEF CurrentUser, DevFallbackUser, parseJWT, Answers
<1>5. ASSUME NEW r \in Requests, ReadCopy(r)
      PROVE  KeysInv'
  <2>1. /\ pc[r] = "read" /\ pc[r] \in Steps /\ keys \in SUBSET Keys
        /\ Presentable(token[r])
        /\ UNCHANGED <<now, issuerVars, copyVars, started, answer>>
    BY <1>5 DEF ReadCopy, TypeOK, Steps, KeysInv, CallInv
  <2>2. CASE PublicKey(r, keys)
    BY <2>1, <2>2, PublicKeyEffect, MoveStep DEF Answers
  <2>3. CASE pc' = [pc EXCEPT ![r] = "wait"] /\ UNCHANGED <<token, forced>>
    <3>1. /\ pc' = [pc EXCEPT ![r] = pc'[r]] /\ pc'[r] = "wait"
          /\ token' = [token EXCEPT ![r] = token'[r]] /\ token'[r] = token[r]
          /\ forced' = [forced EXCEPT ![r] = forced'[r]]
      BY <2>1, <2>3 DEF TypeOK
    <3> QED
      BY <2>1, <3>1, MoveStep
  <2> QED
    BY <1>5, <2>2, <2>3 DEF ReadCopy
<1>6. ASSUME NEW r \in Requests, keysForVerification(r)
      PROVE  KeysInv'
  <2>1. /\ pc[r] = "wait" /\ pc[r] \in Steps /\ keys \in SUBSET Keys
        /\ Presentable(token[r]) /\ answer[r] = NoAnswer
        /\ UNCHANGED <<now, issuerVars, copyVars>>
    BY <1>6 DEF keysForVerification, TypeOK, Steps, KeysInv, CallInv
  <2>2. CASE PublicKey(r, keys) /\ UNCHANGED <<lock, started, answer>>
    BY <2>1, <2>2, PublicKeyEffect, MoveStep DEF Answers
  <2>3. CASE /\ pc' = [pc EXCEPT ![r] = "fetch"]
             /\ started' = [started EXCEPT ![r] = now]
             /\ UNCHANGED <<token, forced, answer>>
    <3>1. /\ pc'[r] = "fetch" /\ started'[r] = now /\ answer'[r] = NoAnswer
          /\ \A q \in Requests \ {r} : pc'[q] = pc[q] /\ started'[q] = started[q]
      BY <2>1, <2>3 DEF TypeOK
    <3>2. \A k, t : (Retired(k)' <=> Retired(k)) /\ (Presentable(t)' <=> Presentable(t))
      BY <2>1 DEF issuerVars, Retired, Presentable
    <3>3. IssuerInv' /\ CopyInv'
      BY <2>1, <3>2 DEF KeysInv, IssuerInv, CopyInv, issuerVars, copyVars
    <3>4. ASSUME NEW q \in Requests \ {r}, pc'[q] = "fetch"
          PROVE  /\ started'[q] <= now' /\ now' <= started'[q] + Timeout
                 /\ answer'[q] # NoAnswer =>
                       /\ \A k \in answer'[q] : k \notin published' =>
                             Retired(k)' /\ started'[q] <= retiredAt'[k]
                       /\ token'[q].signer \in published' => token'[q].signer \in answer'[q]
      BY <2>1, <2>3, <3>1, <3>2, <3>4 DEF KeysInv, FetchInv, issuerVars
    <3>5. started'[r] <= now' /\ now' <= started'[r] + Timeout
      BY <2>1, <3>1 DEF TypeOK
    <3>6. FetchInv'
      BY <3>1, <3>4, <3>5 DEF FetchInv
    <3>7. CallInv'
      BY <2>1, <2>3, <3>1, <3>2 DEF KeysInv, CallInv, Steps
    <3> QED
      BY <3>3, <3>6, <3>7 DEF KeysInv
  <2> QED
    BY <1>6, <2>2, <2>3 DEF keysForVerification
<1>7. ASSUME NEW r \in Requests, IssuerAnswers(r)
      PROVE  KeysInv'
  <2>1. /\ pc[r] = "fetch" /\ answer' = [answer EXCEPT ![r] = published]
        /\ UNCHANGED <<now, published, retiredAt, keys, fetchedAt, pc, token, forced, started>>
    BY <1>7 DEF IssuerAnswers, issuerVars, copyVars
  <2>2. \A k, t : (Retired(k)' <=> Retired(k)) /\ (Presentable(t)' <=> Presentable(t))
    BY <2>1 DEF Retired, Presentable
  <2>3. /\ answer'[r] = published
        /\ \A q \in Requests \ {r} : answer'[q] = answer[q]
    BY <2>1 DEF TypeOK
  <2>4. IssuerInv' /\ CopyInv'
    BY <2>1, <2>2 DEF KeysInv, IssuerInv, CopyInv
  <2>5. FetchInv'
    BY <2>1, <2>2, <2>3 DEF KeysInv, FetchInv
  <2>6. CallInv'
    BY <2>1, <2>2, <2>3 DEF KeysInv, CallInv
  <2> QED
    BY <2>4, <2>5, <2>6 DEF KeysInv
<1>8. ASSUME NEW r \in Requests, InstallKeys(r)
      PROVE  KeysInv'
  <2>1. /\ pc[r] = "fetch" /\ pc[r] \in Steps /\ answer[r] \in SUBSET Keys
        /\ answer[r] # NoAnswer /\ keys' = answer[r] /\ fetchedAt' = now
        /\ answer' = [answer EXCEPT ![r] = NoAnswer]
        /\ started' = [started EXCEPT ![r] = 0]
        /\ UNCHANGED <<now, issuerVars>>
        /\ PublicKey(r, answer[r])
    BY <1>8 DEF InstallKeys, TypeOK, Steps
  <2>2. ASSUME NEW k \in keys', k \notin published'
        PROVE  Retired(k)' /\ fetchedAt' <= retiredAt'[k] + Timeout
    <3>1. Retired(k) /\ started[r] <= retiredAt[k] /\ now <= started[r] + Timeout /\ k \in Keys
      BY <2>1, <2>2 DEF KeysInv, FetchInv, issuerVars
    <3>2. retiredAt[k] \in Nat /\ started[r] \in Nat /\ now \in Nat
      BY <3>1 DEF TypeOK, Retired
    <3> QED
      BY <2>1, <3>1, <3>2 DEF issuerVars, Retired
  <2>3. CopyInv'
    BY <2>1, <2>2 DEF CopyInv, TypeOK
  <2> QED
    BY <2>1, <2>3, PublicKeyEffect, EndStep
<1>9. ASSUME NEW r \in Requests, FetchFails(r)
      PROVE  KeysInv'
  <2>1. /\ pc' = [pc EXCEPT ![r] = pc'[r]] /\ pc'[r] = "error"
        /\ token' = [token EXCEPT ![r] = token'[r]]
        /\ forced' = [forced EXCEPT ![r] = forced'[r]] /\ ~forced'[r]
    BY <1>9 DEF FetchFails, Answer, TypeOK
  <2>2. CopyInv'
    BY <1>9 DEF FetchFails, issuerVars, copyVars, KeysInv, CopyInv, Retired
  <2> QED
    BY <1>9, <2>1, <2>2, EndStep DEF FetchFails, Answers
<1>10. CASE UNCHANGED vars
  <2>1. \A k, t : (Retired(k)' <=> Retired(k)) /\ (Presentable(t)' <=> Presentable(t))
    BY <1>10 DEF vars, Retired, Presentable
  <2> QED
    BY <1>10, <2>1 DEF vars, KeysInv, IssuerInv, CopyInv, FetchInv, CallInv
<1> QED
  BY <1>1, <1>2, <1>3, <1>4, <1>5, <1>6, <1>7, <1>8, <1>9, <1>10 DEF Next, fetchKeys

\* The invariant that the properties follow from.
LEMMA KeysCorrect == Spec => [](TypeOK /\ KeysInv)
<1>1. Init => TypeOK
  BY KeysAssumption DEF Init, discoverOIDCJWKSURL, TypeOK, Answers, Steps
<1>2. Init => KeysInv
  BY KeysAssumption
  DEF Init, discoverOIDCJWKSURL, KeysInv, IssuerInv, CopyInv, FetchInv, CallInv, Retired, Steps
<1>3. TypeOK /\ KeysInv /\ [Next]_vars => (TypeOK /\ KeysInv)'
  BY TypeStep, KeysStep
<1> QED
  BY <1>1, <1>2, <1>3, PTL DEF Spec

-----------------------------------------------------------------------------

\* A request on its way is answered after a look at the copy, at the keys that were
\* fetched for it, or because something failed.
LEMMA AnswerStep ==
    ASSUME TypeOK, Next, NEW r \in Requests, pc[r] \in Steps, pc'[r] \in Answers
    PROVE  \/ pc[r] \in {"read", "wait"} /\ (pc[r] = "wait" => ~forced[r])
              /\ Fresh /\ PublicKey(r, keys)
           \/ InstallKeys(r)
           \/ (FetchFails(r) \/ NewUserProvider) /\ pc'[r] = "error"
<1>1. PICK q \in Requests :
         \/ NewUserProvider
         \/ ReadCopy(q) \/ keysForVerification(q) \/ InstallKeys(q) \/ FetchFails(q)
  <2>1. pc' # pc
    BY DEF Answers, Steps
  <2>2. ~(\E k \in Keys : Publish(k) \/ Retire(k)) /\ ~Tick
    BY <2>1 DEF Publish, Retire, Tick
  <2>3. \A q \in Requests : ~IssuerAnswers(q)
    BY <2>1 DEF IssuerAnswers
  <2>4. ASSUME NEW q \in Requests, CurrentUser(q)
        PROVE  FALSE
    <3>1. q # r
      BY <2>4 DEF CurrentUser, DevFallbackUser, parseJWT, Answers, Steps
    <3>2. pc'[r] = pc[r]
      BY <2>4, <3>1 DEF CurrentUser, DevFallbackUser, parseJWT, Answer, TypeOK
    <3> QED
      BY <3>2 DEF Answers, Steps
  <2> QED
    BY <2>2, <2>3, <2>4 DEF Next, fetchKeys
<1>2. CASE NewUserProvider
  BY <1>2 DEF NewUserProvider, discoverOIDCJWKSURL, TypeOK
<1>3. CASE ReadCopy(q) \/ keysForVerification(q) \/ InstallKeys(q) \/ FetchFails(q)
  <2>1. q = r
    <3>1. ReadCopy(q) \/ keysForVerification(q) => pc[q] \in Steps /\ keys \in SUBSET Keys
      BY DEF ReadCopy, keysForVerification, Steps, TypeOK
    <3>2. InstallKeys(q) => pc[q] \in Steps /\ answer[q] \in SUBSET Keys
      BY DEF InstallKeys, Steps, TypeOK
    <3>3. pc' = [pc EXCEPT ![q] = pc'[q]]
      <4>1. CASE ReadCopy(q)
        BY <3>1, <4>1, PublicKeyEffect DEF ReadCopy, TypeOK
      <4>2. CASE keysForVerification(q)
        BY <3>1, <4>2, PublicKeyEffect DEF keysForVerification, TypeOK
      <4>3. CASE InstallKeys(q)
        BY <3>2, <4>3, PublicKeyEffect DEF InstallKeys
      <4>4. CASE FetchFails(q)
        BY <4>4 DEF FetchFails, Answer, TypeOK
      <4> QED
        BY <1>3, <4>1, <4>2, <4>3, <4>4
    <3>4. q # r => pc'[r] = pc[r]
      BY <3>3 DEF TypeOK
    <3> QED
      BY <3>4 DEF Answers, Steps
  <2>2. CASE ReadCopy(r)
    BY <2>2 DEF ReadCopy, TypeOK, Answers
  <2>3. CASE keysForVerification(r)
    BY <2>3 DEF keysForVerification, TypeOK, Answers
  <2>4. CASE FetchFails(r)
    BY <2>4 DEF FetchFails, Answer, TypeOK
  <2> QED
    BY <1>3, <2>1, <2>2, <2>3, <2>4
<1> QED
  BY <1>1, <1>2, <1>3

\* A token that only a retired key vouches for is accepted for less than TTL and
\* Timeout after the key was given up (keysForVerification, verifyToken).
THEOREM RetiredLapse == Spec => RetiredKeysLapse
<1> USE KeysAssumption
<1>1. ASSUME TypeOK, KeysInv, Next, NEW r \in Requests, Answered(r, "user")
      PROVE  LET k == token[r].signer IN
             /\ k \in Keys
             /\ Retired(k) => now < retiredAt[k] + Timeout + TTL
  <2> DEFINE k == token[r].signer
  <2>1. pc[r] \in Steps /\ pc'[r] = "user" /\ pc'[r] \in Answers
    BY <1>1 DEF Answered, Answers
  <2>2. CASE Fresh /\ PublicKey(r, keys)
    <3>1. k \in keys /\ k \in Keys
      BY <1>1, <2>1, <2>2, PublicKeyEffect DEF TypeOK
    <3>2. ASSUME Retired(k)
          PROVE  now < retiredAt[k] + Timeout + TTL
      <4>1. fetchedAt <= retiredAt[k] + Timeout /\ now < fetchedAt + TTL
        BY <1>1, <2>2, <3>1, <3>2 DEF KeysInv, IssuerInv, CopyInv, Fresh
      <4>2. retiredAt[k] \in Nat /\ fetchedAt \in Nat /\ now \in Nat
        BY <1>1, <3>1, <3>2 DEF TypeOK, Retired
      <4> QED
        BY <4>1, <4>2
    <3> QED
      BY <3>1, <3>2
  <2>3. CASE InstallKeys(r)
    <3>1. /\ pc[r] = "fetch" /\ answer[r] # NoAnswer /\ answer[r] \in SUBSET Keys
          /\ PublicKey(r, answer[r])
      BY <1>1, <2>3 DEF InstallKeys, TypeOK
    <3>2. k \in answer[r] /\ k \in Keys
      BY <1>1, <2>1, <3>1, PublicKeyEffect
    <3>3. ASSUME Retired(k)
          PROVE  now < retiredAt[k] + Timeout + TTL
      <4>1. started[r] <= retiredAt[k] /\ now <= started[r] + Timeout
        BY <1>1, <3>1, <3>2, <3>3 DEF KeysInv, IssuerInv, FetchInv
      <4>2. retiredAt[k] \in Nat /\ started[r] \in Nat /\ now \in Nat
        BY <1>1, <3>2, <3>3 DEF TypeOK, Retired
      <4> QED
        BY <4>1, <4>2
    <3> QED
      BY <3>2, <3>3
  <2> QED
    BY <1>1, <2>1, <2>2, <2>3, AnswerStep
<1>2. TypeOK /\ KeysInv /\ [Next]_vars =>
         [\A r \in Requests : Answered(r, "user") =>
             LET k == token[r].signer IN
             /\ k \in Keys
             /\ Retired(k) => now < retiredAt[k] + Timeout + TTL]_vars
  BY <1>1
<1> QED
  BY <1>2, KeysCorrect, PTL DEF Spec, RetiredKeysLapse

\* A valid token that names its key is accepted, however new the key is, unless the
\* fetch of the request fails or the server starts again (PublicKey).
THEOREM NewAccepted == Spec => NewKeysAreAccepted
<1> USE KeysAssumption
<1>1. ASSUME TypeOK, KeysInv, Next, NEW r \in Requests,
             pc[r] \in Steps, pc'[r] \in Answers,
             token[r].kid = token[r].signer, token[r].signer \in published
      PROVE  pc'[r] = "user" \/ FetchFails(r) \/ NewUserProvider
  <2>1. token[r].signer \in Keys
    BY <1>1 DEF TypeOK
  <2>2. CASE /\ pc[r] \in {"read", "wait"} /\ (pc[r] = "wait" => ~forced[r])
             /\ PublicKey(r, keys)
    <3>1. ~forced[r]
      BY <1>1, <2>2 DEF KeysInv, CallInv
    <3> QED
      BY <1>1, <2>1, <2>2, <3>1, PublicKeyEffect DEF TypeOK
  <2>3. CASE InstallKeys(r)
    <3>1. /\ pc[r] = "fetch" /\ answer[r] # NoAnswer /\ answer[r] \in SUBSET Keys
          /\ PublicKey(r, answer[r])
      BY <1>1, <2>3 DEF InstallKeys, TypeOK
    <3>2. token[r].signer \in answer[r]
      BY <1>1, <3>1 DEF KeysInv, FetchInv
    <3> QED
      BY <1>1, <2>1, <3>1, <3>2, PublicKeyEffect
  <2> QED
    BY <1>1, <2>2, <2>3, AnswerStep
<1>2. TypeOK /\ KeysInv /\ [Next]_vars =>
         [\A r \in Requests :
             /\ pc[r] \in Steps /\ pc'[r] \in Answers
             /\ token[r].kid = token[r].signer /\ token[r].signer \in published
             => pc'[r] = "user" \/ FetchFails(r) \/ NewUserProvider]_vars
  BY <1>1
<1> QED
  BY <1>2, KeysCorrect, PTL DEF Spec, NewKeysAreAccepted

=============================================================================

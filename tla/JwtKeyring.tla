----------------------------- MODULE JwtKeyring -----------------------------
(***************************************************************************)
(* Rotation of the RS256 signing keys of CSP and the copies of the key set *)
(* kept by the services that verify tokens.                                *)
(*                                                                         *)
(* Every CSP worker takes the time of its pass first, waits for the        *)
(* advisory lock, then reads and rewrites jwt_signing_keys in one          *)
(* transaction: a pass may commit with an older time than one that         *)
(* committed before it.  A signer likewise dates a token before it reads   *)
(* the active row, and a verifier installs a document that CSP produced    *)
(* some time before it arrived.  PassLag, SignLag and FetchLag bound these *)
(* three delays; the clock does not pass them.                             *)
(***************************************************************************)
EXTENDS Integers, FiniteSets

CONSTANTS
    Kids,        \* kids that may be generated; bounds the rotations
    Imported,    \* JWT_KID, the key imported from the PEM files
    Workers,     \* CSP processes that run the maintainer and the API
    Signers,     \* requests that issue a token
    Verifiers,   \* JwksClient processes
    Periods,     \* values of auth.jwt_rotation_days
    Week,        \* the longest lead of a published key
    Cache,       \* JWKS_CACHE_MAX_AGE_SECONDS
    Lives,       \* token lifetimes that the settings allow
    MaxLife,     \* upper end of auth.refresh_token_expire_days
    Refresh,     \* JWKS_REFRESH_SECONDS of the verifier
    RefetchGap,  \* JWKS_UNKNOWN_KID_REFETCH_SECONDS
    PassLag,     \* longest time from the moment of a pass to its commit
    SignLag,     \* longest time from iat to reading the active row
    FetchLag,    \* _HTTP_TIMEOUT
    Horizon,     \* bound on the clock
    MaxTokens    \* bound on the tokens issued

Lags == {PassLag, SignLag, FetchLag}

ASSUME ImportedAssumption == Imported \in Kids
ASSUME SpanAssumption ==
    /\ Cache \in Nat \ {0}
    /\ {Week, MaxLife, Refresh, RefetchGap, Horizon, MaxTokens} \subseteq Nat
    /\ Lags \subseteq Nat
ASSUME PeriodsAssumption == Periods \subseteq Nat \ {0}
ASSUME LivesAssumption == Lives \subseteq 1..MaxLife
(* A pass, and the dating of a token, take less than one cache period.     *)
ASSUME LagAssumption == PassLag <= Cache
ASSUME RefreshAssumption == Refresh <= Cache

Never == -1
States == {"unused", "next", "active", "retiring", "retired"}
Published == {"next", "active", "retiring"}

VARIABLES
    now,      \* the clock all machines share
    keys,     \* jwt_signing_keys; a kid with no row is "unused"
    killed,   \* retired_kids of the audited emergency rotations
    passes,   \* per worker: its transaction on the ring and its moment
    signing,  \* per signer: iat and lifetime of the token being built
    tokens,   \* tokens handed out
    cache,    \* per verifier: _cache with its policies, and _cached_at
    fetch,    \* per verifier: the document under way, holding _lock
    refetch   \* per verifier: _last_unknown_kid_refetch_at

ring == <<keys, killed>>
issue == <<signing, tokens>>
copies == <<cache, fetch, refetch>>
vars == <<now, keys, killed, passes, signing, tokens, cache, fetch, refetch>>

----------------------------------------------------------------------------
(* The ring.                                                               *)

InState(r, state) == {k \in Kids : r[k].state = state}

NoKey == [state |-> "unused", created |-> Never, activated |-> Never,
          retiring |-> Never, retired |-> Never]

NewKey(state, m) ==
    [state |-> state, created |-> m,
     activated |-> IF state = "active" THEN m ELSE Never,
     retiring |-> Never, retired |-> Never]

Shorter(x, y) == IF x < y THEN x ELSE y
Longer(x, y) == IF x < y THEN y ELSE x

PublishLead(period) == Longer(Shorter(period \div 2, Week), Cache)
\* Mutant: the window forgets the longest lifetime a token may have.
RetiringWindowOfCache == Cache
RetiringWindow == MaxLife + Cache

\* Mutant: another next key is created while one waits.
NextDueAgain(r, active, m, period) ==
    m - r[active].activated >= period - PublishLead(period)
NextDue(r, active, m, period) ==
    /\ InState(r, "next") = {}
    /\ m - r[active].activated >= period - PublishLead(period)

\* Mutant: a next key is promoted however recently it was published.
PromotableAtOnce(r, active, m, period) ==
    {k \in InState(r, "next") : m - r[active].activated >= period}

(* The published next keys that may replace the active one at moment m.    *)
Promotable(r, active, m, period) ==
    {k \in InState(r, "next") : /\ m - r[active].activated >= period
                                /\ m - r[k].created >= Cache}

\* Mutant: the key left behind gets no retiring_at.
PromoteUndated(r, active, m, period) ==
    LET ready == Promotable(r, active, m, period)
    IN  [k \in Kids |->
            IF k \in ready
            THEN [r[k] EXCEPT !.state = "active", !.activated = m]
            ELSE IF k = active /\ ready # {}
            THEN [r[k] EXCEPT !.state = "retiring"]
            ELSE r[k]]

Promote(r, active, m, period) ==
    LET ready == Promotable(r, active, m, period)
    IN  [k \in Kids |->
            IF k \in ready
            THEN [r[k] EXCEPT !.state = "active", !.activated = m]
            ELSE IF k = active /\ ready # {}
            THEN [r[k] EXCEPT !.state = "retiring", !.retiring = m]
            ELSE r[k]]

RetireOld(r, m) ==
    [k \in Kids |->
        IF r[k].state = "retiring" /\ m >= r[k].retiring + RetiringWindow
        THEN [r[k] EXCEPT !.state = "retired", !.retired = m]
        ELSE r[k]]

RetireAll(r, m) ==
    [k \in Kids |->
        IF r[k].state \in Published
        THEN [r[k] EXCEPT !.state = "retired", !.retired = m]
        ELSE r[k]]

----------------------------------------------------------------------------
(* What is published, and who accepts a token.                             *)

Absent == [state |-> "absent", iatNotAfter |-> Never]
NoDocument == [k \in Kids |-> Absent]

Document ==
    [k \in Kids |->
        IF keys[k].state \in Published
        THEN [state |-> keys[k].state,
              iatNotAfter |-> IF keys[k].state = "retiring"
                              THEN keys[k].retiring ELSE Never]
        ELSE Absent]

Allows(policy, token) ==
    \/ policy.state = "active"
    \/ policy.state = "retiring" /\ token.iat < policy.iatNotAfter

\* Mutant: a copy is still used when its period is just over.
ExpiredLate(v) == cache[v].doc = NoDocument \/ now - cache[v].at > Refresh
Expired(v) == cache[v].doc = NoDocument \/ now - cache[v].at >= Refresh
Knows(v, k) == cache[v].doc[k] # Absent

Living(token) == now < token.exp

(* decode_token of CSP itself, which reads the row of the kid.             *)
IssuanceAllowed(token) ==
    \/ keys[token.kid].state = "active"
    \/ /\ keys[token.kid].state = "retiring"
       /\ token.iat < keys[token.kid].retiring

----------------------------------------------------------------------------
(* CSP: the maintainer, the emergency rotation and the signers.            *)

NoPass == [kind |-> "none", moment |-> Never]
NotSigning == [iat |-> Never, life |-> 0]
NotFetching == [since |-> Never, doc |-> NoDocument]

Init ==
    /\ now = 0
    /\ keys = [k \in Kids |-> IF k = Imported THEN NewKey("active", 0) ELSE NoKey]
    /\ killed = {}
    /\ passes = [w \in Workers |-> NoPass]
    /\ signing = [s \in Signers |-> NotSigning]
    /\ tokens = {}
    /\ cache = [v \in Verifiers |-> [at |-> Never, doc |-> NoDocument]]
    /\ fetch = [v \in Verifiers |-> NotFetching]
    /\ refetch = [v \in Verifiers |-> Never]

(* advance_jwt_keyring or emergency_rotate begins: the moment is taken,    *)
(* the lock is not held yet.                                               *)
TakeMoment(w, kind) ==
    /\ passes[w] = NoPass
    /\ passes' = [passes EXCEPT ![w] = [kind |-> kind, moment |-> now]]
    /\ UNCHANGED <<now, ring, issue, copies>>

CreateNext(w) ==
    /\ passes[w].kind = "advance"
    /\ LET m == passes[w].moment
       IN  \E active \in InState(keys, "active"), period \in Periods,
              k \in InState(keys, "unused") :
               /\ NextDue(keys, active, m, period)
               /\ LET created == [keys EXCEPT ![k] = NewKey("next", m)]
                  IN  keys' = RetireOld(Promote(created, active, m, period), m)
    /\ passes' = [passes EXCEPT ![w] = NoPass]
    /\ UNCHANGED <<now, killed, issue, copies>>

Advance(w) ==
    /\ passes[w].kind = "advance"
    /\ LET m == passes[w].moment
       IN  \E active \in InState(keys, "active"), period \in Periods :
               /\ ~NextDue(keys, active, m, period)
               /\ keys' = RetireOld(Promote(keys, active, m, period), m)
    /\ passes' = [passes EXCEPT ![w] = NoPass]
    /\ UNCHANGED <<now, killed, issue, copies>>

EmergencyRotate(w) ==
    /\ passes[w].kind = "emergency"
    /\ LET m == passes[w].moment
       IN  \E k \in InState(keys, "unused") :
               keys' = [RetireAll(keys, m) EXCEPT ![k] = NewKey("active", m)]
    /\ killed' = killed \union {k \in Kids : keys[k].state \in Published}
    /\ passes' = [passes EXCEPT ![w] = NoPass]
    /\ UNCHANGED <<now, issue, copies>>

(* The transaction fails or the process dies before its commit.            *)
PassDies(w) ==
    /\ passes[w] # NoPass
    /\ passes' = [passes EXCEPT ![w] = NoPass]
    /\ UNCHANGED <<now, ring, issue, copies>>

DateToken(s, life) ==
    /\ signing[s] = NotSigning
    /\ Cardinality(tokens) < MaxTokens
    /\ signing' = [signing EXCEPT ![s] = [iat |-> now, life |-> life]]
    /\ UNCHANGED <<now, ring, passes, tokens, copies>>

SignToken(s) ==
    /\ signing[s] # NotSigning
    /\ \E active \in InState(keys, "active") :
           tokens' = tokens \union
               {[kid |-> active, iat |-> signing[s].iat,
                 exp |-> signing[s].iat + signing[s].life]}
    /\ signing' = [signing EXCEPT ![s] = NotSigning]
    /\ UNCHANGED <<now, ring, passes, copies>>

----------------------------------------------------------------------------
(* A verifier: studio's JwksClient.  _lock is held from the request to the *)
(* JWKS endpoint until its answer; the document is that of the request.    *)

StartFetch(v) ==
    /\ fetch[v] = NotFetching
    /\ fetch' = [fetch EXCEPT ![v] = [since |-> now, doc |-> Document]]

(* A request finds the copy expired.                                       *)
RefreshStale(v) ==
    /\ Expired(v)
    /\ StartFetch(v)
    /\ UNCHANGED <<now, ring, passes, issue, cache, refetch>>

(* The background loop, which refreshes whether expired or not.            *)
RefreshLoop(v) ==
    /\ StartFetch(v)
    /\ UNCHANGED <<now, ring, passes, issue, cache, refetch>>

RefetchBlocked(v) == refetch[v] # Never /\ now - refetch[v] < RefetchGap

(* A token names a kid the copy does not hold.                             *)
RefetchUnknown(v, token) ==
    /\ ~Expired(v)
    /\ ~Knows(v, token.kid)
    /\ ~RefetchBlocked(v)
    /\ StartFetch(v)
    /\ refetch' = [refetch EXCEPT ![v] = now]
    /\ UNCHANGED <<now, ring, passes, issue, cache>>

FetchLands(v) ==
    /\ fetch[v] # NotFetching
    /\ cache' = [cache EXCEPT ![v] = [at |-> now, doc |-> fetch[v].doc]]
    /\ fetch' = [fetch EXCEPT ![v] = NotFetching]
    /\ UNCHANGED <<now, ring, passes, issue, refetch>>

\* Mutant: a failed fetch keeps the old keys for another period.
FetchFailsKeepingOld(v) ==
    /\ fetch[v] # NotFetching
    /\ cache' = [cache EXCEPT ![v].at = now]
    /\ fetch' = [fetch EXCEPT ![v] = NotFetching]
    /\ UNCHANGED <<now, ring, passes, issue, refetch>>

FetchFails(v) ==
    /\ fetch[v] # NotFetching
    /\ fetch' = [fetch EXCEPT ![v] = NotFetching]
    /\ UNCHANGED <<now, ring, passes, issue, cache, refetch>>

VerifierRestarts(v) ==
    /\ cache' = [cache EXCEPT ![v] = [at |-> Never, doc |-> NoDocument]]
    /\ fetch' = [fetch EXCEPT ![v] = NotFetching]
    /\ refetch' = [refetch EXCEPT ![v] = Never]
    /\ UNCHANGED <<now, ring, passes, issue>>

----------------------------------------------------------------------------
(* Time passes only as far as the delays of what is under way allow.       *)
Tick ==
    /\ now < Horizon
    /\ \A w \in Workers : passes[w] # NoPass => now < passes[w].moment + PassLag
    /\ \A s \in Signers : signing[s] # NotSigning => now < signing[s].iat + SignLag
    /\ \A v \in Verifiers : fetch[v] # NotFetching => now < fetch[v].since + FetchLag
    /\ now' = now + 1
    /\ UNCHANGED <<ring, passes, issue, copies>>

WorkerStep(w) ==
    \/ \E kind \in {"advance", "emergency"} : TakeMoment(w, kind)
    \/ CreateNext(w)
    \/ Advance(w)
    \/ EmergencyRotate(w)
    \/ PassDies(w)

SignerStep(s) == (\E life \in Lives : DateToken(s, life)) \/ SignToken(s)

VerifierStep(v) ==
    \/ RefreshStale(v)
    \/ RefreshLoop(v)
    \/ \E token \in tokens : RefetchUnknown(v, token)
    \/ FetchLands(v)
    \/ FetchFails(v)
    \/ VerifierRestarts(v)

Next ==
    \/ Tick
    \/ \E w \in Workers : WorkerStep(w)
    \/ \E s \in Signers : SignerStep(s)
    \/ \E v \in Verifiers : VerifierStep(v)

Spec == Init /\ [][Next]_vars

----------------------------------------------------------------------------
(* Properties.                                                             *)

Time == Nat \union {Never}
KeyRecord == [state : States, created : Time, activated : Time,
              retiring : Time, retired : Time]
Policy == [state : Published \union {"absent"}, iatNotAfter : Time]
Documents == [Kids -> Policy]

(* Every variable holds values of the kind its column or field has, no     *)
(* delay has been exceeded, and a row carries the dates of its state.      *)
TypeOK ==
    /\ now \in Nat
    /\ keys \in [Kids -> KeyRecord]
    /\ killed \subseteq Kids
    /\ passes \in [Workers -> [kind : {"none", "advance", "emergency"}, moment : Time]]
    /\ signing \in [Signers -> [iat : Time, life : Nat]]
    /\ tokens \subseteq [kid : Kids, iat : Nat, exp : Nat]
    /\ cache \in [Verifiers -> [at : Time, doc : Documents]]
    /\ fetch \in [Verifiers -> [since : Time, doc : Documents]]
    /\ refetch \in [Verifiers -> Time]
    /\ \A w \in Workers : passes[w] # NoPass =>
           passes[w].moment \in Nat /\ passes[w].kind # "none"
    /\ \A s \in Signers : signing[s] # NotSigning =>
           signing[s].iat \in Nat /\ signing[s].life <= MaxLife
    /\ \A k \in Kids :
           /\ keys[k].state # "unused" => keys[k].created \in Nat
           /\ keys[k].state \in {"active", "retiring"} => keys[k].activated \in Nat
           /\ keys[k].state = "retiring" => keys[k].retiring \in Nat
           /\ keys[k].state = "retired" => keys[k].retired \in Nat

(* One key signs, at most one waits, and no key is replaced before the     *)
(* moment it began to sign, although workers commit their passes in        *)
(* another order than they took their moments (jwt_keyring.py:308-388,     *)
(* the partial unique indexes of jwt_signing_keys).                        *)
RingConsistent ==
    /\ \E k \in Kids : InState(keys, "active") = {k}
    /\ \A j, k \in InState(keys, "next") : j = k
    /\ \A k \in Kids :
           /\ keys[k].state \in {"active", "retiring"}
                  => keys[k].created <= keys[k].activated
           /\ keys[k].state = "retiring" => keys[k].activated < keys[k].retiring

(* Without an emergency rotation of its key a token is never orphaned: as  *)
(* long as it lives its key can verify, whatever lifetime was set when it  *)
(* was issued and however late a pass retires keys (retiring_window).  CSP *)
(* refuses it only if it was dated while the pass that replaced its key    *)
(* was under way (security.py:312, 266).                               *)
KeysOutliveTokens ==
    \A t \in tokens :
        Living(t) /\ t.kid \notin killed =>
            /\ keys[t.kid].state \in {"active", "retiring"}
            /\ IssuanceAllowed(t)
                 \/ t.iat \in keys[t.kid].retiring..keys[t.kid].retiring + PassLag

(* A verifier that still trusts a retired key, or still holds a signing    *)
(* key as merely announced, does so for one refresh period at most after   *)
(* CSP changed it, failed fetches and late answers included                *)
(* (jwks_client.py:318-342).                                               *)
StaleUntil(m) == m + PassLag + FetchLag + Refresh

StaleCopiesFade ==
    \A v \in Verifiers, k \in Kids :
        ~Expired(v) /\ Knows(v, k) =>
            /\ keys[k].state = "retired" => now < StaleUntil(keys[k].retired)
            /\ cache[v].doc[k].state = "next" /\ keys[k].state = "active"
                   => now < StaleUntil(keys[k].activated)

(* A key is announced before it signs: a copy that a verifier still uses,  *)
(* and that is not within the delays of its end, holds every key that came *)
(* to sign through a promotion (jwt_keyring.py:42-44, 335-337).            *)
Promoted(k) == keys[k].state = "active" /\ keys[k].created < keys[k].activated
WellFresh(v) == ~Expired(v) /\ now + PassLag + FetchLag < cache[v].at + Refresh

PromotedKeysAreKnown ==
    \A v \in Verifiers, k \in Kids :
        Promoted(k) /\ WellFresh(v) => Knows(v, k)

(* docs/CURRENT-STATUS.md:170 says that an ordinary rotation logs nobody   *)
(* out.  The code does refuse good tokens after one: a verifier whose copy *)
(* still has the new key as announced refuses what that key signed.  This  *)
(* bounds it: there is no other reason why a usable copy of a key refuses  *)
(* a living token that CSP accepts, and it lasts one refresh period after  *)
(* the promotion, and the delays, at most.                                 *)
RefusalsFade ==
    \A t \in tokens, v \in Verifiers :
        /\ Living(t) /\ IssuanceAllowed(t)
        /\ ~Expired(v) /\ Knows(v, t.kid) /\ ~Allows(cache[v].doc[t.kid], t)
        => /\ cache[v].doc[t.kid].state = "next"
           /\ now < StaleUntil(keys[t.kid].activated)

=============================================================================

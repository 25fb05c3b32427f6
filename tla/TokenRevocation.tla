--------------------------- MODULE TokenRevocation ---------------------------
(***************************************************************************)
(* Revoking the tokens of one user, and one service that must hear of it.  *)
(*                                                                         *)
(* CSP owns users.token_version.  A request that revokes reads the row,    *)
(* adds one, commits it with a token_revocations row, and then broadcasts  *)
(* the new version, best effort (services/csp/app/services/                *)
(* token_revocation.py and token_revocation_publisher.py).  Retired        *)
(* signing keys travel the same channel.  anila-studio keeps a deny list:  *)
(* it reads the committed rows over HTTP, subscribes, and refuses every    *)
(* request while it knows that it is deaf (services/anila-studio/app/      *)
(* services/revocation_cache.py; the speech gateway holds a copy).         *)
(***************************************************************************)
EXTENDS Naturals, Sequences, FiniteSets, FiniteSetsExt, SequencesExt

CONSTANTS
    Requests,       \* requests that revoke, which may overlap
    Kids,           \* signing keys an emergency rotation may retire
    MaxVersion,     \* bound on users.token_version
    MaxMail,        \* bound on the messages under way to studio
    MaxFaults       \* bound on lost publishes, cut connections, failed syncs, restarts

ASSUME RevocationAssumption ==
    /\ Requests # {} /\ MaxVersion \in Nat \ {0} /\ MaxMail \in Nat \ {0} /\ MaxFaults \in Nat

VARIABLES
    version,    \* users.token_version
    rows,       \* the versions in token_revocations
    retired,    \* the signing keys retired, killed in an emergency or aged out
    killed,     \* those killed in an emergency, which are broadcast
    minted,     \* the versions of the tokens CSP has issued
    seen,       \* the version a request read, or Idle
    outbox,     \* messages committed and not yet published
    link,       \* studio's subscription: "off", "synced", "up", or "cut" and not noticed
    mailbox,    \* messages under way to studio, in order
    reply,      \* what the last HTTP replay answered
    floor,      \* studio's deny list: the lowest version still valid
    deadKids,   \* studio's deny list of keys
    ready,
    unheard,    \* broadcasts studio missed since its last replay (history)
    refused,    \* what studio has refused so far, as one message (history)
    faults

cspVars == <<version, rows, retired, killed, minted, seen>>
studioVars == <<link, mailbox, reply, floor, deadKids, ready, refused>>
vars == <<cspVars, outbox, studioVars, unheard, faults>>

Idle == MaxVersion + 1
Message(v, ks) == [version |-> v, kids |-> ks]
Newest(vs) == IF vs = {} THEN 0 ELSE Max(vs)
Nothing == Message(0, {})

Both(m, n) == Message(Newest({m.version, n.version}), m.kids \cup n.kids)
Covers(m, n) == m.version >= n.version /\ n.kids \subseteq m.kids
DenyList == Message(floor, deadKids)
Committed == {Message(v, {}) : v \in rows} \cup {Message(0, {k}) : k \in killed}

Init ==
    /\ version = 0 /\ rows = {} /\ retired = {} /\ killed = {} /\ minted = {0}
    /\ seen = [r \in Requests |-> Idle]
    /\ outbox = {}
    /\ link = "off" /\ mailbox = <<>> /\ reply = Nothing
    /\ floor = 0 /\ deadKids = {} /\ ready = FALSE
    /\ unheard = {} /\ refused = Nothing
    /\ faults = 0

Fault == faults < MaxFaults /\ faults' = faults + 1

-----------------------------------------------------------------------------
(* CSP *)

\* Logout, password change, admin revoke, deactivation: the request loads the user.
LoadUser(r) ==
    /\ seen[r] = Idle /\ version < MaxVersion
    /\ seen' = [seen EXCEPT ![r] = version]
    /\ UNCHANGED <<version, rows, retired, killed, minted, outbox, studioVars, unheard, faults>>

\* commit_token_revocation: the version the request read, plus one, with its row.
CommitRevocation(r) ==
    /\ seen[r] # Idle
    /\ version' = seen[r] + 1
    /\ rows' = rows \cup {seen[r] + 1}
    /\ outbox' = outbox \cup {Message(seen[r] + 1, {})}
    /\ seen' = [seen EXCEPT ![r] = Idle]
    /\ UNCHANGED <<retired, killed, minted, studioVars, unheard, faults>>

\* Mutant: the new version is announced although the transaction rolled back.
RollBackAnnounced(r) ==
    /\ seen[r] # Idle
    /\ seen' = [seen EXCEPT ![r] = Idle]
    /\ outbox' = outbox \cup {Message(seen[r] + 1, {})}
    /\ UNCHANGED <<version, rows, retired, killed, minted, studioVars, unheard, faults>>

\* The request fails before its commit: an audit write or the transaction itself.
RollBack(r) ==
    /\ seen[r] # Idle
    /\ seen' = [seen EXCEPT ![r] = Idle]
    /\ UNCHANGED <<version, rows, retired, killed, minted, outbox, studioVars, unheard, faults>>

\* An emergency rotation kills a signing key and announces it.
KillKid(k) ==
    /\ k \notin retired
    /\ retired' = retired \cup {k} /\ killed' = killed \cup {k}
    /\ outbox' = outbox \cup {Message(0, {k})}
    /\ UNCHANGED <<version, rows, minted, seen, studioVars, unheard, faults>>

\* A key retires when its tokens are dead: nobody is told, but a replay names it.
AgeOutKid(k) ==
    /\ k \notin retired
    /\ retired' = retired \cup {k}
    /\ UNCHANGED <<version, rows, killed, minted, seen, outbox, studioVars, unheard, faults>>

\* create_tokens: login, refresh, or the answer to a password change.
Mint ==
    /\ version \notin minted
    /\ minted' = minted \cup {version}
    /\ UNCHANGED <<version, rows, retired, killed, seen, outbox, studioVars, unheard, faults>>

\* publish_revocation_sync: Redis forgets a message nobody is subscribed for.
Publish(m) ==
    /\ m \in outbox /\ Len(mailbox) < MaxMail
    /\ outbox' = outbox \ {m}
    /\ IF link = "up"
       THEN mailbox' = Append(mailbox, m) /\ UNCHANGED unheard
       ELSE unheard' = unheard \cup {m} /\ UNCHANGED mailbox
    /\ UNCHANGED <<cspVars, link, reply, floor, deadKids, ready, refused, faults>>

\* The publish fails, or the process dies after the commit: nobody tries again.
PublishLost(m) ==
    /\ m \in outbox /\ Fault
    /\ outbox' = outbox \ {m}
    /\ unheard' = unheard \cup {m}
    /\ UNCHANGED <<cspVars, studioVars>>

-----------------------------------------------------------------------------
(* anila-studio *)

\* Mutant: a version already known is never raised.
RememberFirst(m) == floor' = (IF floor = 0 THEN m.version ELSE floor) /\ deadKids' = deadKids \cup m.kids

\* The larger version wins.
Remember(m) == floor' = Newest({floor, m.version}) /\ deadKids' = deadKids \cup m.kids

\* Mutant: the replay answers with the version of the user instead of the rows.
ColdStartSyncOfVersion ==
    /\ link = "off"
    /\ link' = "synced" /\ unheard' = {}
    /\ reply' = Message(version, retired)
    /\ Remember(reply')
    /\ UNCHANGED <<cspVars, outbox, mailbox, ready, refused, faults>>

\* _cold_start_sync: CSP's answer, on start and on every reconnect.  Applied at once.
ColdStartSync ==
    /\ link = "off"
    /\ link' = "synced" /\ unheard' = {}
    /\ reply' = Message(Newest(rows), retired)
    /\ Remember(reply')
    /\ UNCHANGED <<cspVars, outbox, mailbox, ready, refused, faults>>

\* subscribe, then ready.
Subscribe ==
    /\ link = "synced"
    /\ link' = "up" /\ ready' = TRUE
    /\ mailbox' = <<>>
    /\ refused' = Both(refused, DenyList)
    /\ UNCHANGED <<cspVars, outbox, reply, floor, deadKids, unheard, faults>>

\* Redis or CSP fails between the replay and the subscription: start over.
ReconnectFails ==
    /\ link = "synced" /\ Fault
    /\ link' = "off"
    /\ UNCHANGED <<cspVars, outbox, mailbox, reply, floor, deadKids, ready, unheard, refused>>

\* _handle_message
HandleMessage ==
    /\ link = "up" /\ mailbox # <<>>
    /\ Remember(Head(mailbox))
    /\ mailbox' = Tail(mailbox)
    /\ refused' = Both(refused, DenyList')
    /\ UNCHANGED <<cspVars, outbox, link, reply, ready, unheard, faults>>

\* The connection breaks, with what it still carried; the subscriber notices later.
Cut ==
    /\ link = "up" /\ Fault
    /\ link' = "cut" /\ mailbox' = <<>>
    /\ UNCHANGED <<cspVars, outbox, reply, floor, deadKids, ready, unheard, refused>>

\* Mutant: the deny list still counts as ready.
NoticeCutStaysReady ==
    /\ link = "cut"
    /\ link' = "off"
    /\ UNCHANGED <<cspVars, outbox, mailbox, reply, floor, deadKids, ready, unheard, refused, faults>>
\* Mutant: the subscriber refuses requests but does not reconnect.
NoticeCutGivesUp ==
    /\ link = "cut"
    /\ ready' = FALSE
    /\ UNCHANGED <<cspVars, outbox, link, mailbox, reply, floor, deadKids, unheard, refused, faults>>

\* The subscriber loop sees the error: it refuses requests, then reconnects.
NoticeCut ==
    /\ link = "cut"
    /\ link' = "off" /\ ready' = FALSE
    /\ UNCHANGED <<cspVars, outbox, mailbox, reply, floor, deadKids, unheard, refused, faults>>

\* The service is restarted: the deny list lives in memory only.
Restart ==
    /\ Fault
    /\ link' = "off" /\ mailbox' = <<>> /\ reply' = Nothing
    /\ floor' = 0 /\ deadKids' = {} /\ ready' = FALSE
    /\ UNCHANGED <<cspVars, outbox, unheard, refused>>

-----------------------------------------------------------------------------
Revoke == \E r \in Requests : LoadUser(r) \/ CommitRevocation(r) \/ RollBack(r)
Studio == ColdStartSync \/ Subscribe \/ HandleMessage \/ NoticeCut

Next ==
    \/ Revoke \/ Mint
    \/ \E k \in Kids : KillKid(k) \/ AgeOutKid(k)
    \/ \E m \in outbox : Publish(m) \/ PublishLost(m)
    \/ Studio \/ ReconnectFails \/ Cut \/ Restart

Spec == Init /\ [][Next]_vars

\* The subscriber loop always makes its next step: it retries for ever.
FairSpec ==
    Spec /\ WF_vars(ColdStartSync) /\ WF_vars(Subscribe)
         /\ WF_vars(HandleMessage) /\ WF_vars(NoticeCut)
-----------------------------------------------------------------------------
Messages == [version : 0..MaxVersion, kids : SUBSET Kids]

TypeOK ==
    /\ version \in 0..MaxVersion /\ rows \subseteq 1..MaxVersion /\ killed \subseteq retired /\ minted \subseteq 0..MaxVersion
    /\ seen \in [Requests -> (0..MaxVersion - 1) \cup {Idle}]
    /\ outbox \subseteq Messages /\ Range(mailbox) \subseteq Messages
    /\ link \in {"off", "synced", "up", "cut"}
    /\ ready \in BOOLEAN /\ (ready <=> link \in {"up", "cut"})

\* While studio listens and its mail is read, it refuses all that was committed, but
\* for what CSP has not announced yet and the broadcasts it missed since its last replay:
\* those that got lost, and those between the replay and the subscription.  Nothing else
\* slips through, whatever was cut, restarted or reordered before (_reconnect means to
\* close every gap before it is ready; the one it leaves is named here).
Known(m) == Covers(DenyList, m) \/ m \in outbox \cup unheard

HeardIsKnown == link = "up" /\ mailbox = <<>> => \A m \in Committed : Known(m)

\* Nobody is refused for a revocation that was not committed: the broadcast follows
\* the commit, and a request that rolls back revokes nothing.
OnlyCommittedCounts == floor \in rows \cup {0} /\ deadKids \subseteq retired

\* What studio has refused once it refuses whenever it answers: neither a late event nor
\* a replay, after a restart that emptied the deny list, brings a revoked token back,
\* although the version of the user may have gone down meanwhile.
RefusedStaysRefused == ready => Covers(DenyList, refused)

\* Failures do not last: once they stop, studio listens again and has caught up with
\* everything but what was not announced or not heard.
SettlesListening == <>[](ready /\ \A m \in Committed : Known(m))

\* A revocation kills every token issued before it commits.  The endpoint's promise:
\* it "force-revokes all outstanding JWTs for one user".
RevokeKillsOutstanding ==
    [][\A r \in Requests : CommitRevocation(r) => \A tv \in minted : tv < version']_vars

=============================================================================

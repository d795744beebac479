------------------------------- MODULE Access -------------------------------
(* Who may do what: the OAuth clients, authorization codes and tokens, the    *)
(* API keys and the administrator's sessions, as rows of the database, and    *)
(* the requests that read and write them.  A handler awaits between reading a *)
(* row and writing it, and other requests run meanwhile: a request is a       *)
(* sequence of steps, each one statement or transaction of the database.      *)
(* A refusal that changes nothing is the absence of a step, or the return of  *)
(* the request to "idle".                                                     *)
EXTENDS Naturals, FiniteSets

CONSTANTS
  Clients,        \* client identifiers
  Registration,   \* client -> what it registers: public, redirects, scopes
  Redirects,      \* redirect URIs a request may name
  Challenges,     \* PKCE challenges, each with its one verifier
  Scopes,         \* the scopes there are, "activity:read" among them
  Codes,          \* authorization codes that may be issued
  Tokens,         \* token rows that may be issued
  Sessions,       \* sessions of the administrator
  Keys,           \* API keys
  Requests,       \* requests under way at one time
  None,           \* no row
  CodeTTL, AccessTTL, RefreshTTL, SessionTTL, IdleTTL,
  Earlier,        \* rows of admin_sessions an earlier process may have left
  Start, MaxTime  \* the first and the last instant of a behaviour

Read == "activity:read"

ASSUME AccessAssumption ==
  /\ Registration \in [Clients -> [public : BOOLEAN, redirects : SUBSET Redirects,
                                   scopes : SUBSET Scopes]]
  /\ Codes \subseteq Nat /\ Tokens \subseteq Nat
  /\ {CodeTTL, AccessTTL, RefreshTTL, SessionTTL, IdleTTL, Start, MaxTime} \subseteq Nat
  /\ Start <= MaxTime
  /\ Earlier \subseteq [state : {"active", "revoked"}, issued : Nat, seen : Nat]
  /\ None \notin Clients \cup Codes \cup Tokens \cup Sessions \cup Keys

VARIABLES
  now,       \* the clock
  client,    \* client -> "absent", "active" or "revoked"
  code,      \* code -> its row of oauth_authorization_codes
  token,     \* token -> its row of oauth_tokens
  key,       \* key -> "absent", "active" or "revoked": the keys made here never expire
  session,   \* session -> its row of admin_sessions
  req        \* request -> where its handler stands

vars == <<now, client, code, token, key, session, req>>

-----------------------------------------------------------------------------
(* Rows.  A row that was never inserted has no owner.                         *)

NoCode == [client |-> None, redirect |-> None, challenge |-> None, scopes |-> {},
           issued |-> 0, used |-> FALSE]
NoToken == [family |-> None, grant |-> None, client |-> None, scopes |-> {}, issued |-> 0,
            used |-> FALSE, revoked |-> FALSE]
NoSession == [state |-> "absent", issued |-> 0, seen |-> 0]

(* The rows that may be inserted next: random names, here in the order of use. *)
FreshCodes == {k \in Codes : code[k] = NoCode /\ \A m \in Codes : m < k => code[m] # NoCode}
Fresh == {t \in Tokens : token[t] = NoToken /\ \A m \in Tokens : m < t => token[m] # NoToken}

FamilyOf(f) == {t \in Tokens : token[t].family = f}

(* Mutant: Only the token in use is revoked, and the access tokens of the others live *)
(* on.                                                                        *)
RevokedHolder(f) ==
  [t \in Tokens |-> IF token[t].family = f /\ ~token[t].used
                    THEN [token[t] EXCEPT !.revoked = TRUE] ELSE token[t]]

(* UPDATE oauth_tokens SET revoked_at WHERE family_id = f AND revoked_at IS NULL *)
Revoked(f) == [t \in Tokens |-> IF token[t].family = f
                                THEN [token[t] EXCEPT !.revoked = TRUE] ELSE token[t]]

-----------------------------------------------------------------------------
(* Requests.                                                                  *)

Idle == [at |-> "idle", client |-> None, row |-> None, time |-> 0, shut |-> FALSE]
Places == {"idle", "exchanging", "consuming", "issuing", "refreshing", "rotating", "replayed",
           "ended", "revoking", "found", "keyed", "seen", "lapsed", "admin", "consenting",
           "accepted"}

At(q, place) == req[q].at = place
Becomes(q, r) == req' = [req EXCEPT ![q] = r]
Moves(q, place) == Becomes(q, [req[q] EXCEPT !.at = place])
Returns(q) == Becomes(q, Idle)
Arrives(q, place, c) == At(q, "idle") /\ Becomes(q, [req[q] EXCEPT !.at = place, !.client = c])
(* A row is read: the handler goes on with it, and with the time of the read  *)
(* where it stores one.  "shut" notes for the properties whether the          *)
(* credential was over at that time.                                          *)
Reads(q, place, row) == Becomes(q, [req[q] EXCEPT !.at = place, !.row = row, !.time = now])
Tries(q, place, row, over) ==
  Becomes(q, [req[q] EXCEPT !.at = place, !.row = row, !.shut = over])

(* A credential that is over: revoked, expired, of a revoked client, or idle. *)
TokenOver(t) ==
  \/ token[t].revoked
  \/ token[t].issued + AccessTTL <= now
  \/ token[t].client # None /\ client[token[t].client] = "revoked"
KeyOver(k) == key[k] = "revoked"
SessionIdle(s) == now - session[s].seen > IdleTTL
SessionOver(s) ==
  session[s].state = "revoked" \/ session[s].issued + SessionTTL <= now \/ SessionIdle(s)

-----------------------------------------------------------------------------
(* The client proves who it is.  A request names its client in the body or in *)
(* a Basic header, never both; a public client brings no secret, any other    *)
(* client the right one.                                                      *)
Methods == {"body", "basic", "both"}
Secrets == {"none", "right", "wrong"}

Active(c) == client[c] = "active"
Proves(c, secret) == secret = IF Registration[c].public THEN "none" ELSE "right"
Authenticates(c, method, secret) == method # "both" /\ Active(c) /\ Proves(c, secret)

(* The token and revocation endpoints start by authenticating the client.     *)
StartsAs(q, c, place) ==
  /\ \E method \in Methods, secret \in Secrets : Authenticates(c, method, secret)
  /\ Arrives(q, place, c)
  /\ UNCHANGED <<now, client, code, token, key, session>>

-----------------------------------------------------------------------------
(* The authorization code grant.                                              *)

ExchangeStarts(q, c) == StartsAs(q, c, "exchanging")

(* A code may be redeemed by the client it was issued to, with the redirect   *)
(* URI and the verifier of the consent, once, while it is young.              *)
Redeemable(k, c, redirect, challenge) ==
  /\ code[k].client = c
  /\ ~code[k].used
  /\ now < code[k].issued + CodeTTL
  /\ code[k].redirect = redirect
  /\ code[k].challenge = challenge

ExchangeFinds(q, k, redirect, challenge) ==
  /\ At(q, "exchanging")
  /\ IF Redeemable(k, req[q].client, redirect, challenge)
     THEN Reads(q, "consuming", k) ELSE Returns(q)
  /\ UNCHANGED <<now, client, code, token, key, session>>

(* Mutant: The update forgets used_at IS NULL.                                        *)
ConsumeAgain(q, k) ==
  /\ code' = [code EXCEPT ![k].used = TRUE]
  /\ Moves(q, "issuing")

(* The row is taken with used_at IS NULL: of two requests that read it, one   *)
(* changes it.                                                                *)
Consume(q, k) ==
  /\ code' = [code EXCEPT ![k].used = TRUE]
  /\ IF ~code[k].used THEN Moves(q, "issuing") ELSE Returns(q)

ExchangeConsumes(q) ==
  /\ At(q, "consuming")
  /\ Consume(q, req[q].row)
  /\ UNCHANGED <<now, client, token, key, session>>

(* "grant" names the code a family comes from; it is kept for the properties. *)
NewToken(family, grant, c, scopes, time) ==
  [family |-> family, grant |-> grant, client |-> c, scopes |-> scopes, issued |-> time,
   used |-> FALSE, revoked |-> FALSE]

(* Only now, in a statement of its own, the first token of a new family is    *)
(* inserted.  The random name of the family is the name of its first token.   *)
ExchangeIssues(q, t) ==
  /\ At(q, "issuing")
  /\ t \in Fresh
  /\ LET k == req[q].row
     IN  token' = [token EXCEPT ![t] = NewToken(t, k, req[q].client, code[k].scopes, req[q].time)]
  /\ Returns(q)
  /\ UNCHANGED <<now, client, code, key, session>>

-----------------------------------------------------------------------------
(* The refresh token grant.                                                   *)

RefreshStarts(q, c) == StartsAs(q, c, "refreshing")

(* A token of another client is no token; one that was used is a replay; one  *)
(* that was revoked or has expired is refused.                                *)
RefreshFinds(q, t) ==
  /\ At(q, "refreshing")
  /\ token[t] # NoToken
  /\ CASE token[t].client # req[q].client -> Returns(q)
       [] token[t].client = req[q].client /\ token[t].used -> Tries(q, "replayed", t, FALSE)
       [] OTHER -> IF token[t].revoked \/ token[t].issued + RefreshTTL <= now
                   THEN Returns(q) ELSE Reads(q, "rotating", t)
  /\ UNCHANGED <<now, client, code, token, key, session>>

(* Mutant: The update forgets that the row may be used by now.                        *)
RotatableAgain(t) == ~token[t].revoked

(* One transaction: the row is marked used if it is neither used nor revoked, *)
(* and its replacement joins the family.  A row that changed since it was     *)
(* read is a replay.                                                          *)
Rotatable(t) == ~token[t].used /\ ~token[t].revoked

Rotate(q, t, new) ==
  IF Rotatable(t)
  THEN /\ token' = [token EXCEPT
              ![t] = [token[t] EXCEPT !.used = TRUE],
              ![new] = NewToken(token[t].family, token[t].grant, token[t].client,
                                token[t].scopes, req[q].time)]
       /\ Returns(q)
  ELSE /\ Moves(q, "replayed")
       /\ UNCHANGED token

RefreshRotates(q, new) ==
  /\ At(q, "rotating")
  /\ new \in Fresh
  /\ Rotate(q, req[q].row, new)
  /\ UNCHANGED <<now, client, code, key, session>>

ReplayRevokes(q) ==
  /\ At(q, "replayed")
  /\ token' = Revoked(token[req[q].row].family)
  /\ Moves(q, "ended")
  /\ UNCHANGED <<now, client, code, key, session>>

-----------------------------------------------------------------------------
(* Revocation by the client, with either token of a row that is its own.      *)

RevokeStarts(q, c) == StartsAs(q, c, "revoking")

RevokeCommits(q, t) ==
  /\ At(q, "revoking")
  /\ token[t] # NoToken
  /\ token' = IF token[t].client = req[q].client THEN Revoked(token[t].family) ELSE token
  /\ Returns(q)
  /\ UNCHANGED <<now, client, code, key, session>>

-----------------------------------------------------------------------------
(* Calls of the MCP endpoint, with an access token or an API key.             *)

CallFindsToken(q, t) ==
  /\ At(q, "idle")
  /\ token[t] # NoToken
  /\ ~token[t].revoked
  /\ now < token[t].issued + AccessTTL
  /\ Tries(q, "found", t, TokenOver(t))
  /\ UNCHANGED <<now, client, code, token, key, session>>

(* Mutant: The verifier trusts the row of the token and does not read the client's.   *)
ChecksNoClient(q) ==
  /\ At(q, "found")
  /\ Moves(q, "accepted")
  /\ UNCHANGED <<now, client, code, token, key, session>>

(* The row of its client is read last.                                        *)
CallChecksClient(q) ==
  /\ At(q, "found")
  /\ LET t == req[q].row
     IN  IF Active(token[t].client) /\ Read \in token[t].scopes
         THEN Moves(q, "accepted") ELSE Returns(q)
  /\ UNCHANGED <<now, client, code, token, key, session>>

CallFindsKey(q, k) ==
  /\ At(q, "idle")
  /\ key[k] = "active"
  /\ Tries(q, "keyed", k, KeyOver(k))
  /\ UNCHANGED <<now, client, code, token, key, session>>

(* The time of last use is stored, and the call is served.                    *)
CallTouchesKey(q) ==
  /\ At(q, "keyed")
  /\ Moves(q, "accepted")
  /\ UNCHANGED <<now, client, code, token, key, session>>

-----------------------------------------------------------------------------
(* The administrator's session, which every request of a browser is tried     *)
(* against before its handler runs.                                           *)

Login(s) ==
  /\ session[s].state = "absent"
  /\ session' = [session EXCEPT ![s] = [state |-> "active", issued |-> now, seen |-> now]]
  /\ UNCHANGED <<now, client, code, token, key, req>>

VisitFinds(q, s) ==
  /\ At(q, "idle")
  /\ session[s].state = "active"
  /\ now < session[s].issued + SessionTTL
  /\ Becomes(q, [req[q] EXCEPT !.at = IF SessionIdle(s) THEN "lapsed" ELSE "seen",
                                !.row = s, !.time = now, !.shut = SessionOver(s)])
  /\ UNCHANGED <<now, client, code, token, key, session>>

(* A session that was idle for too long is revoked.                           *)
VisitRevokes(q) ==
  /\ At(q, "lapsed")
  /\ session' = [session EXCEPT ![req[q].row].state = "revoked"]
  /\ Returns(q)
  /\ UNCHANGED <<now, client, code, token, key>>

VisitTouches(q) ==
  /\ At(q, "seen")
  /\ session' = [session EXCEPT ![req[q].row].seen = req[q].time]
  /\ Becomes(q, [req[q] EXCEPT !.at = "admin", !.time = 0])
  /\ UNCHANGED <<now, client, code, token, key>>

-----------------------------------------------------------------------------
(* What the administrator may then do.                                        *)

Logout(q) ==
  /\ At(q, "admin")
  /\ session' = [session EXCEPT ![req[q].row].state = "revoked"]
  /\ Returns(q)
  /\ UNCHANGED <<now, client, code, token, key>>

AdminRegisters(q, c) ==
  /\ At(q, "admin")
  /\ client[c] = "absent"
  /\ client' = [client EXCEPT ![c] = "active"]
  /\ Returns(q)
  /\ UNCHANGED <<now, code, token, key, session>>

AdminRevokesClient(q, c) ==
  /\ At(q, "admin")
  /\ client[c] # "absent"
  /\ client' = [client EXCEPT ![c] = "revoked"]
  /\ Returns(q)
  /\ UNCHANGED <<now, code, token, key, session>>

AdminCreatesKey(q, k) ==
  /\ At(q, "admin")
  /\ key[k] = "absent"
  /\ key' = [key EXCEPT ![k] = "active"]
  /\ Returns(q)
  /\ UNCHANGED <<now, client, code, token, session>>

AdminRevokesKey(q, k) ==
  /\ At(q, "admin")
  /\ key[k] # "absent"
  /\ key' = [key EXCEPT ![k] = "revoked"]
  /\ Returns(q)
  /\ UNCHANGED <<now, client, code, token, session>>

(* The consent form is validated anew against the client's registration, and  *)
(* the client is read once more before the code is made.                      *)
ConsentValidates(q, c) ==
  /\ At(q, "admin")
  /\ Active(c)
  /\ Becomes(q, [req[q] EXCEPT !.at = "consenting", !.client = c])
  /\ UNCHANGED <<now, client, code, token, key, session>>

(* A code for what the form asked: a registered redirect URI, a challenge,    *)
(* and at least one of the registered scopes.                                 *)
ConsentIssues(q, k, redirect, challenge, scopes) ==
  /\ At(q, "consenting")
  /\ redirect \in Registration[req[q].client].redirects
  /\ scopes # {} /\ scopes \subseteq Registration[req[q].client].scopes
  /\ k \in FreshCodes
  /\ code' = [code EXCEPT ![k] = [client |-> req[q].client, redirect |-> redirect,
                                   challenge |-> challenge, scopes |-> scopes,
                                   issued |-> now, used |-> FALSE]]
  /\ Returns(q)
  /\ UNCHANGED <<now, client, token, key, session>>

-----------------------------------------------------------------------------
(* A public client registers itself, without a session.                       *)
ClientRegisters(c) ==
  /\ client[c] = "absent"
  /\ Registration[c].public
  /\ Registration[c].redirects # {} /\ Registration[c].scopes # {}
  /\ client' = [client EXCEPT ![c] = "active"]
  /\ UNCHANGED <<now, code, token, key, session, req>>

(* The answer leaves.                                                         *)
Answers(q) ==
  /\ req[q].at \in {"ended", "accepted"}
  /\ Returns(q)
  /\ UNCHANGED <<now, client, code, token, key, session>>

ClockAdvances ==
  /\ now < MaxTime
  /\ now' = now + 1
  /\ UNCHANGED <<client, code, token, key, session, req>>

(* The process ends between two steps of its requests; the rows stay.         *)
ProcessEnds ==
  /\ \E q \in Requests : ~At(q, "idle")
  /\ req' = [q \in Requests |-> Idle]
  /\ UNCHANGED <<now, client, code, token, key, session>>

Init ==
  /\ now = Start
  /\ client = [c \in Clients |-> "absent"]
  /\ code = [k \in Codes |-> NoCode]
  /\ token = [t \in Tokens |-> NoToken]
  /\ key = [k \in Keys |-> "absent"]
  /\ session \in [Sessions -> {NoSession} \cup Earlier]
  /\ req = [q \in Requests |-> Idle]

Next ==
  \/ ClockAdvances
  \/ ProcessEnds
  \/ \E c \in Clients : ClientRegisters(c)
  \/ \E s \in Sessions : Login(s)
  \/ \E q \in Requests :
       \/ \E c \in Clients : ExchangeStarts(q, c) \/ RefreshStarts(q, c) \/ RevokeStarts(q, c)
       \/ \E k \in Codes, r \in Redirects, h \in Challenges : ExchangeFinds(q, k, r, h)
       \/ ExchangeConsumes(q)
       \/ \E t \in Tokens :
            \/ ExchangeIssues(q, t)
            \/ RefreshFinds(q, t)
            \/ RefreshRotates(q, t)
            \/ RevokeCommits(q, t)
            \/ CallFindsToken(q, t)
       \/ ReplayRevokes(q)
       \/ CallChecksClient(q)
       \/ \E k \in Keys : CallFindsKey(q, k) \/ AdminCreatesKey(q, k) \/ AdminRevokesKey(q, k)
       \/ CallTouchesKey(q)
       \/ \E s \in Sessions : VisitFinds(q, s)
       \/ VisitRevokes(q)
       \/ VisitTouches(q)
       \/ Logout(q)
       \/ \E c \in Clients :
            AdminRegisters(q, c) \/ AdminRevokesClient(q, c) \/ ConsentValidates(q, c)
       \/ \E k \in Codes, r \in Redirects, h \in Challenges, S \in SUBSET Scopes :
            ConsentIssues(q, k, r, h, S)
       \/ Answers(q)

Spec == Init /\ [][Next]_vars

-----------------------------------------------------------------------------
(* Properties.                                                                *)

Rows == Codes \cup Tokens \cup Keys \cup Sessions

(* Every variable has its type, and a request that holds a row holds one of   *)
(* the kind its step works on.                                                *)
TypeOK ==
  /\ now \in 0..MaxTime
  /\ client \in [Clients -> {"absent", "active", "revoked"}]
  /\ code \in [Codes -> [client : Clients \cup {None}, redirect : Redirects \cup {None},
                         challenge : Challenges \cup {None}, scopes : SUBSET Scopes,
                         issued : Nat, used : BOOLEAN]]
  /\ token \in [Tokens -> [family : Tokens \cup {None}, grant : Codes \cup {None},
                           client : Clients \cup {None}, scopes : SUBSET Scopes,
                           issued : Nat, used : BOOLEAN, revoked : BOOLEAN]]
  /\ key \in [Keys -> {"absent", "active", "revoked"}]
  /\ session \in [Sessions -> [state : {"absent", "active", "revoked"}, issued : Nat, seen : Nat]]
  /\ req \in [Requests -> [at : Places, client : Clients \cup {None}, row : Rows \cup {None},
                           time : Nat, shut : BOOLEAN]]
  /\ \A q \in Requests :
       /\ req[q].at \in {"consuming", "issuing"} => req[q].row \in Codes
       /\ req[q].at \in {"rotating", "replayed", "ended", "found"} => req[q].row \in Tokens
       /\ req[q].at \in {"lapsed", "seen", "admin"} => req[q].row \in Sessions
       /\ req[q].at \in {"exchanging", "consuming", "issuing", "refreshing", "revoking", "consenting"}
            => req[q].client \in Clients

(* A token stands for a code that was consumed, for the client and the scopes *)
(* of the consent, and one code founds one family, however many requests      *)
(* present it at the same time.                                               *)
GrantsAreHonoured ==
  \A t \in Tokens : token[t] # NoToken =>
    /\ code[token[t].grant].used
    /\ code[token[t].grant].client = token[t].client
    /\ code[token[t].grant].scopes = token[t].scopes
    /\ \A u \in Tokens : token[u].grant = token[t].grant => token[u].family = token[t].family

(* When the answer to a replayed refresh token leaves, no token of its family *)
(* is left to use, nor is one added to it later by a request that was already *)
(* under way.                                                                 *)
ReplayEndsFamily ==
  \A q \in Requests : At(q, "ended") =>
    \A t \in FamilyOf(token[req[q].row].family) : token[t].revoked

(* A call is never served for a credential that was over when the call came:  *)
(* revoked, expired, idle, or of a client that was revoked, even if its token *)
(* was issued by a request that the revocation overtook.                      *)
OverIsOver == \A q \in Requests : At(q, "accepted") => ~req[q].shut

(* Seen from outside, a family is held by one token at a time, passes from    *)
(* one to a new one, and once it has ended it stays so.                       *)
TC == INSTANCE TicketChains WITH
  Families <- Tokens,
  Tickets <- Tokens,
  opened <- {f \in Tokens : \E t \in Tokens : token[t].family = f},
  holders <- [f \in Tokens |-> {t \in FamilyOf(f) : ~token[t].used /\ ~token[t].revoked}]

FamiliesAreChains == TC!Spec
=============================================================================

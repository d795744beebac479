---------------------------- MODULE AccessProofs ----------------------------
(* Proofs about Access, for any clients, codes, tokens and requests.          *)
EXTENDS Access, TLAPS

-----------------------------------------------------------------------------
(* The inductive invariant.                                                   *)

CodeRow == [client : Clients \cup {None}, redirect : Redirects \cup {None},
            challenge : Challenges \cup {None}, scopes : SUBSET Scopes,
            issued : Nat, used : BOOLEAN]
TokenRow == [family : Tokens \cup {None}, grant : Codes \cup {None},
             client : Clients \cup {None}, scopes : SUBSET Scopes,
             issued : Nat, used : BOOLEAN, revoked : BOOLEAN]
SessionRow == [state : {"absent", "active", "revoked"}, issued : Nat, seen : Nat]
Request == [at : Places, client : Clients \cup {None}, row : Rows \cup {None},
            time : Nat, shut : BOOLEAN]

StoreTypes ==
  /\ now \in Nat /\ now <= MaxTime
  /\ client \in [Clients -> {"absent", "active", "revoked"}]
  /\ code \in [Codes -> CodeRow]
  /\ token \in [Tokens -> TokenRow]
  /\ key \in [Keys -> {"absent", "active", "revoked"}]
  /\ session \in [Sessions -> SessionRow]

Live(t) == ~token[t].used /\ ~token[t].revoked

(* A token has an owner, a consumed code that it stands for, and the name of  *)
(* a first token; its code has no other family, and its family no other token *)
(* that may still be used.                                                    *)
TokenOK(t) ==
  LET r == token[t]
  IN  r # NoToken =>
        /\ r.family \in Tokens /\ r.grant \in Codes /\ r.client \in Clients
        /\ token[r.family].family = r.family /\ token[r.family].grant = r.grant
        /\ code[r.grant].used /\ code[r.grant].client = r.client /\ code[r.grant].scopes = r.scopes
        /\ \A u \in Tokens : token[u].grant = r.grant => token[u].family = r.family
        /\ \A u \in Tokens : token[u].family = r.family /\ Live(t) /\ Live(u) => u = t

(* A request holds a row of the kind its step works on.                       *)
PlaceOK(r) ==
  /\ r.at \in {"consuming", "issuing"} => r.row \in Codes
  /\ r.at \in {"rotating", "replayed", "ended", "found"} => r.row \in Tokens
  /\ r.at \in {"lapsed", "seen", "admin"} => r.row \in Sessions
  /\ r.at \in {"exchanging", "consuming", "issuing", "refreshing", "revoking", "consenting"}
       => r.client \in Clients

(* What a request knows of its row stays true while it waits: the code is its *)
(* client's; one that was consumed has no token yet; a family that was ended  *)
(* is revoked as a whole; and a credential that was found over is one whose   *)
(* client is revoked.                                                         *)
HoldsOK(r) ==
  /\ r.at \in {"consuming", "issuing"} => code[r.row].client = r.client
  /\ r.at = "issuing" => code[r.row].used /\ \A t \in Tokens : token[t].grant # r.row
  /\ r.at \in {"rotating", "replayed", "ended", "found"} => token[r.row] # NoToken
  /\ r.at = "ended" => \A t \in Tokens : token[t].family = token[r.row].family => token[t].revoked
  /\ r.at = "found" /\ r.shut => client[token[r.row].client] = "revoked"
  /\ r.at \in {"keyed", "accepted"} => ~r.shut

(* Of the requests that read one code, one is issuing.                        *)
OneIssuer ==
  \A q, s \in Requests :
    req[q].at = "issuing" /\ req[s].at = "issuing" /\ req[q].row = req[s].row => q = s

RequestTypes == req \in [Requests -> Request] /\ \A q \in Requests : PlaceOK(req[q])
TokensOK == \A t \in Tokens : TokenOK(t)
RequestsOK == \A q \in Requests : HoldsOK(req[q])

AccessInv == StoreTypes /\ RequestTypes /\ TokensOK /\ RequestsOK /\ OneIssuer

LEMMA TypesFollow == StoreTypes /\ RequestTypes => TypeOK
BY DEF StoreTypes, RequestTypes, TypeOK, CodeRow, TokenRow, SessionRow, Request, PlaceOK

LEMMA NoneIsNoRow == None \notin Clients /\ None \notin Codes /\ None \notin Tokens
BY AccessAssumption DEF AccessAssumption

LEMMA TimesAreNumbers ==
  CodeTTL \in Nat /\ AccessTTL \in Nat /\ RefreshTTL \in Nat /\ Start \in Nat /\ MaxTime \in Nat
    /\ Start <= MaxTime
BY AccessAssumption DEF AccessAssumption

-----------------------------------------------------------------------------
(* How a request changes.                                                     *)

(* A request with some of its fields changed.                                 *)
LEMMA ChangedAt ==
  ASSUME NEW r \in Request, NEW a
  PROVE  [r EXCEPT !.at = a] =
           [at |-> a, client |-> r.client, row |-> r.row, time |-> r.time, shut |-> r.shut]
BY DEF Request

LEMMA ChangedClient ==
  ASSUME NEW r \in Request, NEW a, NEW b
  PROVE  [r EXCEPT !.at = a, !.client = b] =
           [at |-> a, client |-> b, row |-> r.row, time |-> r.time, shut |-> r.shut]
<1> DEFINE e == [r EXCEPT !.at = a]
<1>1. e = [at |-> a, client |-> r.client, row |-> r.row, time |-> r.time, shut |-> r.shut]
  BY ChangedAt
<1>2. [r EXCEPT !.at = a, !.client = b] = [e EXCEPT !.client = b]
  OBVIOUS
<1> HIDE DEF e
<1> QED
  BY <1>1, <1>2

LEMMA ChangedTime ==
  ASSUME NEW r \in Request, NEW a, NEW b
  PROVE  [r EXCEPT !.at = a, !.time = b] =
           [at |-> a, client |-> r.client, row |-> r.row, time |-> b, shut |-> r.shut]
<1> DEFINE e == [r EXCEPT !.at = a]
<1>1. e = [at |-> a, client |-> r.client, row |-> r.row, time |-> r.time, shut |-> r.shut]
  BY ChangedAt
<1>2. [r EXCEPT !.at = a, !.time = b] = [e EXCEPT !.time = b]
  OBVIOUS
<1> HIDE DEF e
<1> QED
  BY <1>1, <1>2

LEMMA ChangedRow ==
  ASSUME NEW r \in Request, NEW a, NEW b
  PROVE  [r EXCEPT !.at = a, !.row = b] =
           [at |-> a, client |-> r.client, row |-> b, time |-> r.time, shut |-> r.shut]
<1> DEFINE e == [r EXCEPT !.at = a]
<1>1. e = [at |-> a, client |-> r.client, row |-> r.row, time |-> r.time, shut |-> r.shut]
  BY ChangedAt
<1>2. [r EXCEPT !.at = a, !.row = b] = [e EXCEPT !.row = b]
  OBVIOUS
<1> HIDE DEF e
<1> QED
  BY <1>1, <1>2

LEMMA ChangedRowTime ==
  ASSUME NEW r \in Request, NEW a, NEW b, NEW c
  PROVE  [r EXCEPT !.at = a, !.row = b, !.time = c] =
           [at |-> a, client |-> r.client, row |-> b, time |-> c, shut |-> r.shut]
<1> DEFINE e == [r EXCEPT !.at = a, !.row = b]
<1>1. e = [at |-> a, client |-> r.client, row |-> b, time |-> r.time, shut |-> r.shut]
  BY ChangedRow
<1>2. [r EXCEPT !.at = a, !.row = b, !.time = c] = [e EXCEPT !.time = c]
  OBVIOUS
<1> HIDE DEF e
<1> QED
  BY <1>1, <1>2

LEMMA ChangedRowShut ==
  ASSUME NEW r \in Request, NEW a, NEW b, NEW c
  PROVE  [r EXCEPT !.at = a, !.row = b, !.shut = c] =
           [at |-> a, client |-> r.client, row |-> b, time |-> r.time, shut |-> c]
<1> DEFINE e == [r EXCEPT !.at = a, !.row = b]
<1>1. e = [at |-> a, client |-> r.client, row |-> b, time |-> r.time, shut |-> r.shut]
  BY ChangedRow
<1>2. [r EXCEPT !.at = a, !.row = b, !.shut = c] = [e EXCEPT !.shut = c]
  OBVIOUS
<1> HIDE DEF e
<1> QED
  BY <1>1, <1>2

LEMMA IdleIsRequest == Idle \in Request /\ PlaceOK(Idle) /\ Idle.at = "idle"
BY DEF Idle, Request, Places, PlaceOK

LEMMA OneBecomes ==
  ASSUME RequestTypes, NEW q \in Requests, NEW r \in Request, PlaceOK(r), Becomes(q, r)
  PROVE  /\ RequestTypes' /\ req'[q] = r
         /\ \A s \in Requests : s # q => req'[s] = req[s]
BY DEF RequestTypes, Becomes

(* A step of one request, whose rows suit it, that leaves what the others     *)
(* hold.                                                                      *)
LEMMA OneStep ==
  ASSUME AccessInv, NEW q \in Requests, NEW r \in Request, Becomes(q, r),
         PlaceOK(r), HoldsOK(r)', StoreTypes', TokensOK',
         \A x \in Request :
           (\E s \in Requests \ {q} : x = req[s]) /\ PlaceOK(x) /\ HoldsOK(x) => HoldsOK(x)',
         r.at = "issuing" =>
           \A s \in Requests : s # q => ~(req[s].at = "issuing" /\ req[s].row = r.row)
  PROVE  AccessInv'
<1>1. RequestTypes' /\ req'[q] = r /\ \A s \in Requests : s # q => req'[s] = req[s]
  BY OneBecomes DEF AccessInv
<1>2. ASSUME NEW s \in Requests
      PROVE  HoldsOK(req[s])'
  <2>1. CASE s = q
    BY <1>1, <2>1 DEF HoldsOK
  <2>2. CASE s # q
    <3>1. req[s] \in Request /\ PlaceOK(req[s]) /\ HoldsOK(req[s]) /\ req'[s] = req[s]
      BY <1>1, <2>2 DEF AccessInv, RequestTypes, RequestsOK
    <3>2. ASSUME NEW x, x = req[s], req'[s] = x, HoldsOK(x)'
          PROVE  HoldsOK(req[s])'
      BY <3>2 DEF HoldsOK
    <3>3. ASSUME NEW x, x = req[s]
          PROVE  HoldsOK(x)'
      BY <2>2, <3>1, <3>3
    <3> QED
      BY <3>1, <3>2, <3>3
  <2> QED
    BY <2>1, <2>2
<1>3. OneIssuer'
  BY <1>1 DEF AccessInv, OneIssuer
<1> QED
  BY <1>1, <1>2, <1>3 DEF AccessInv, RequestsOK

LEMMA HoldsUnchanged ==
  ASSUME UNCHANGED <<client, code, token>>
  PROVE  /\ \A x \in Request : HoldsOK(x) => HoldsOK(x)'
         /\ TokensOK => TokensOK'
BY DEF HoldsOK, TokensOK, TokenOK, Live

(* A step of one request that reads.                                          *)
LEMMA OneReads ==
  ASSUME AccessInv, NEW q \in Requests, NEW r \in Request, Becomes(q, r),
         PlaceOK(r), HoldsOK(r), r.at # "issuing", StoreTypes', UNCHANGED <<client, code, token>>
  PROVE  AccessInv'
BY HoldsUnchanged, OneStep DEF AccessInv

-----------------------------------------------------------------------------
(* How the codes and the tokens change.                                       *)

LEMMA NoRows ==
  /\ NoCode \in CodeRow /\ NoCode.client = None /\ NoCode.used = FALSE
  /\ NoToken \in TokenRow /\ NoToken.family = None /\ NoToken.grant = None
  /\ NoToken.client = None /\ NoToken.used = FALSE /\ NoToken.revoked = FALSE
BY DEF NoCode, NoToken, CodeRow, TokenRow

LEMMA MarkedCode ==
  ASSUME NEW r \in CodeRow, NEW u, u = [r EXCEPT !.used = TRUE]
  PROVE  u \in CodeRow /\ u.client = r.client /\ u.scopes = r.scopes /\ u.used
<1>1. ASSUME NEW b \in BOOLEAN
      PROVE  [r EXCEPT !.used = b] =
               [client |-> r.client, redirect |-> r.redirect, challenge |-> r.challenge,
                scopes |-> r.scopes, issued |-> r.issued, used |-> b]
  BY DEF CodeRow
<1>2. u = [client |-> r.client, redirect |-> r.redirect, challenge |-> r.challenge,
           scopes |-> r.scopes, issued |-> r.issued, used |-> TRUE]
  BY Zenon, <1>1
<1> QED
  BY <1>2 DEF CodeRow

LEMMA MarkedToken ==
  ASSUME NEW r \in TokenRow
  PROVE  /\ LET u == [r EXCEPT !.used = TRUE]
            IN  /\ u \in TokenRow /\ u.family = r.family /\ u.grant = r.grant /\ u.client = r.client
                /\ u.scopes = r.scopes /\ u.used /\ u.revoked = r.revoked
         /\ LET u == [r EXCEPT !.revoked = TRUE]
            IN  /\ u \in TokenRow /\ u.family = r.family /\ u.grant = r.grant /\ u.client = r.client
                /\ u.scopes = r.scopes /\ u.used = r.used /\ u.revoked
<1>1. ASSUME NEW b \in BOOLEAN
      PROVE  /\ [r EXCEPT !.used = b] =
                  [family |-> r.family, grant |-> r.grant, client |-> r.client, scopes |-> r.scopes,
                   issued |-> r.issued, used |-> b, revoked |-> r.revoked]
             /\ [r EXCEPT !.revoked = b] =
                  [family |-> r.family, grant |-> r.grant, client |-> r.client, scopes |-> r.scopes,
                   issued |-> r.issued, used |-> r.used, revoked |-> b]
  BY DEF TokenRow
<1>2. [r EXCEPT !.used = TRUE] =
        [family |-> r.family, grant |-> r.grant, client |-> r.client, scopes |-> r.scopes,
         issued |-> r.issued, used |-> TRUE, revoked |-> r.revoked]
  BY Zenon, <1>1
<1>3. [r EXCEPT !.revoked = TRUE] =
        [family |-> r.family, grant |-> r.grant, client |-> r.client, scopes |-> r.scopes,
         issued |-> r.issued, used |-> r.used, revoked |-> TRUE]
  BY Zenon, <1>1
<1> QED
  BY <1>2, <1>3 DEF TokenRow

(* The family of a token has a first token.                                   *)
LEMMA FamiliesAreNamed ==
  ASSUME StoreTypes, TokensOK, NEW t \in Tokens, token[t] # NoToken
  PROVE  /\ token[t].family \in Tokens /\ token[t].family # None
         /\ token[t].grant \in Codes /\ token[t].grant # None
         /\ token[token[t].family] # NoToken
BY NoRows, NoneIsNoRow DEF TokensOK, TokenOK

(* A code is taken.                                                           *)
LEMMA CodeIsTaken ==
  ASSUME StoreTypes, TokensOK, NEW k \in Codes, code' = [code EXCEPT ![k].used = TRUE],
         UNCHANGED <<now, client, token, key, session>>
  PROVE  /\ StoreTypes' /\ TokensOK' /\ code'[k].used /\ code'[k].client = code[k].client
         /\ \A x \in Request : PlaceOK(x) /\ HoldsOK(x) => HoldsOK(x)'
<1> DEFINE row == [code[k] EXCEPT !.used = TRUE]
<1>1. code' = [code EXCEPT ![k] = row]
  OBVIOUS
<1>2. row \in CodeRow /\ row.client = code[k].client /\ row.scopes = code[k].scopes /\ row.used
  BY MarkedCode DEF StoreTypes
<1> HIDE DEF row
<1>3. /\ code' \in [Codes -> CodeRow] /\ code'[k] = row
      /\ \A m \in Codes : m # k => code'[m] = code[m]
  BY <1>1, <1>2 DEF StoreTypes
<1>4. \A m \in Codes :
        /\ code'[m].client = code[m].client /\ code'[m].scopes = code[m].scopes
        /\ code[m].used => code'[m].used
  BY <1>2, <1>3
<1>5. TokensOK'
  BY <1>4 DEF TokensOK, TokenOK, Live
<1>6. \A x \in Request : PlaceOK(x) /\ HoldsOK(x) => HoldsOK(x)'
  BY <1>4 DEF PlaceOK, HoldsOK
<1> QED
  BY <1>2, <1>3, <1>5, <1>6 DEF StoreTypes

(* A code is made.                                                            *)
LEMMA CodeIsMade ==
  ASSUME StoreTypes, TokensOK, NEW k \in FreshCodes, NEW row \in CodeRow,
         code' = [code EXCEPT ![k] = row], UNCHANGED <<now, client, token, key, session>>
  PROVE  /\ StoreTypes' /\ TokensOK'
         /\ \A x \in Request : PlaceOK(x) /\ HoldsOK(x) => HoldsOK(x)'
<1>1. k \in Codes /\ code[k].client = None /\ ~code[k].used
  BY NoRows DEF FreshCodes
<1>2. code' \in [Codes -> CodeRow] /\ \A m \in Codes : m # k => code'[m] = code[m]
  BY <1>1 DEF StoreTypes
<1>3. TokensOK'
  BY <1>1, <1>2 DEF TokensOK, TokenOK, Live
<1>4. \A x \in Request : PlaceOK(x) /\ HoldsOK(x) => HoldsOK(x)'
  BY <1>1, <1>2, NoneIsNoRow DEF PlaceOK, HoldsOK
<1> QED
  BY <1>2, <1>3, <1>4 DEF StoreTypes

(* A client is registered or revoked.                                         *)
LEMMA ClientChanges ==
  ASSUME StoreTypes, TokensOK, NEW c \in Clients, NEW state \in {"active", "revoked"},
         client[c] = "revoked" => state = "revoked",
         client' = [client EXCEPT ![c] = state], UNCHANGED <<now, code, token, key, session>>
  PROVE  /\ StoreTypes' /\ TokensOK'
         /\ \A x \in Request : PlaceOK(x) /\ HoldsOK(x) => HoldsOK(x)'
<1>1. client' \in [Clients -> {"absent", "active", "revoked"}]
      /\ \A d \in Clients : client[d] = "revoked" => client'[d] = "revoked"
  BY DEF StoreTypes
<1>2. TokensOK'
  BY DEF TokensOK, TokenOK, Live
<1>3. \A x \in Request : PlaceOK(x) /\ HoldsOK(x) => HoldsOK(x)'
  BY <1>1 DEF PlaceOK, HoldsOK, TokensOK, TokenOK
<1> QED
  BY <1>1, <1>2, <1>3 DEF StoreTypes

(* The first token of a family is inserted.                                   *)
LEMMA FamilyBegins ==
  ASSUME StoreTypes, TokensOK, NEW t \in Fresh, NEW k \in Codes, NEW c \in Clients,
         NEW time \in Nat, code[k].used, code[k].client = c,
         \A u \in Tokens : token[u].grant # k,
         token' = [token EXCEPT ![t] = NewToken(t, k, c, code[k].scopes, time)],
         UNCHANGED <<now, client, code, key, session>>
  PROVE  /\ StoreTypes' /\ TokensOK'
         /\ \A x \in Request :
              ~(x.at = "issuing" /\ x.row = k) /\ PlaceOK(x) /\ HoldsOK(x) => HoldsOK(x)'
<1> DEFINE row == NewToken(t, k, c, code[k].scopes, time)
<1>1. t \in Tokens /\ token[t] = NoToken
  BY DEF Fresh
<1>2. code[k] \in CodeRow
  BY DEF StoreTypes
<1>3. /\ row \in TokenRow /\ row.family = t /\ row.grant = k /\ row.client = c
      /\ row.scopes = code[k].scopes /\ ~row.used /\ ~row.revoked
  BY <1>1, <1>2 DEF NewToken, TokenRow, CodeRow
<1> HIDE DEF row
<1>4. /\ token' \in [Tokens -> TokenRow] /\ token'[t] = row
      /\ \A u \in Tokens : u # t => token'[u] = token[u]
  BY <1>1, <1>3 DEF StoreTypes, row
<1>5. \A u \in Tokens : token[u].family # t
  BY <1>1, FamiliesAreNamed, NoRows, NoneIsNoRow
<1>6. TokensOK'
  <2> SUFFICES ASSUME NEW u \in Tokens, token'[u] # NoToken
               PROVE  TokenOK(u)'
    BY DEF TokensOK, TokenOK
  <2>1. CASE u = t
    BY <1>1, <1>3, <1>4, <1>5, <2>1 DEF TokenOK, Live
  <2>2. CASE u # t
    <3>1. TokenOK(u) /\ token'[u] = token[u] /\ token[u] # NoToken
      BY <1>4, <2>2 DEF TokensOK
    <3>2. token[u].family # t /\ token[u].grant # k
      BY <1>5
    <3> QED
      BY <1>1, <1>3, <1>4, <2>2, <3>1, <3>2 DEF TokenOK, Live
  <2> QED
    BY <2>1, <2>2
<1>7. ASSUME NEW x \in Request, ~(x.at = "issuing" /\ x.row = k), PlaceOK(x), HoldsOK(x)
      PROVE  HoldsOK(x)'
  <2>1. x.at \in {"rotating", "replayed", "ended", "found"} =>
          x.row \in Tokens /\ x.row # t /\ token'[x.row] = token[x.row] /\ token[x.row].family # t
    BY <1>1, <1>4, <1>5, <1>7 DEF PlaceOK, HoldsOK
  <2> QED
    BY <1>3, <1>4, <1>7, <2>1 DEF HoldsOK, PlaceOK
<1> QED
  BY <1>4, <1>6, <1>7 DEF StoreTypes

(* A token is exchanged for a new one of its family.                          *)
LEMMA FamilyTurns ==
  ASSUME StoreTypes, TokensOK, NEW t \in Tokens, token[t] # NoToken, Rotatable(t), NEW new \in Fresh,
         NEW old \in TokenRow, NEW row \in TokenRow,
         old.family = token[t].family, old.grant = token[t].grant,
         old.client = token[t].client, old.scopes = token[t].scopes, old.used,
         row.family = token[t].family, row.grant = token[t].grant,
         row.client = token[t].client, row.scopes = token[t].scopes,
         token' = [u \in Tokens |-> IF u = t THEN old ELSE IF u = new THEN row ELSE token[u]],
         UNCHANGED <<now, client, code, key, session>>
  PROVE  /\ StoreTypes' /\ TokensOK'
         /\ \A x \in Request : PlaceOK(x) /\ HoldsOK(x) => HoldsOK(x)'
<1>1. new \in Tokens /\ token[new] = NoToken /\ new # t
  BY DEF Fresh
<1>2. /\ old.family = token[t].family /\ old.grant = token[t].grant
      /\ old.client = token[t].client /\ old.scopes = token[t].scopes /\ old.used
  OBVIOUS
<1>3. /\ row.family = token[t].family /\ row.grant = token[t].grant
      /\ row.client = token[t].client /\ row.scopes = token[t].scopes
  OBVIOUS
<1>4. /\ token' \in [Tokens -> TokenRow] /\ token'[t] = old /\ token'[new] = row
      /\ \A u \in Tokens : u # t /\ u # new => token'[u] = token[u]
  BY <1>1 DEF StoreTypes
<1>5. \A u \in Tokens : u # new => /\ token'[u].family = token[u].family
                                   /\ token'[u].grant = token[u].grant
                                   /\ token'[u].client = token[u].client
                                   /\ token'[u].scopes = token[u].scopes
                                   /\ token[u].revoked => token'[u].revoked
  BY <1>2, <1>4 DEF Rotatable
<1>6. \A u \in Tokens : u # new /\ ~token'[u].used /\ ~token'[u].revoked => Live(u) /\ u # t
  BY <1>2, <1>4 DEF Live
<1>7. token[t].family # None /\ token[t].grant # None /\ token[t].family \in Tokens
      /\ token[t].family # new /\ TokenOK(t)
  BY <1>1, FamiliesAreNamed DEF TokensOK
<1>8. \A u \in Tokens : token[u] # NoToken => token'[u] # NoToken /\ u # new
  BY <1>1, <1>2, <1>4, <1>7, NoRows
<1>9. ASSUME NEW u \in Tokens, token'[u] # NoToken
      PROVE  TokenOK(u)'
  <2>1. PICK v \in Tokens :
          /\ token[v] # NoToken /\ v # new /\ TokenOK(v)
          /\ token'[u].family = token[v].family /\ token'[u].grant = token[v].grant
          /\ token'[u].client = token[v].client /\ token'[u].scopes = token[v].scopes
          /\ u = new => v = t
          /\ u # new => v = u
    <3>1. CASE u = new
      BY <1>1, <1>3, <1>4, <1>7, <3>1
    <3>2. CASE u # new
      BY <1>4, <1>5, <1>9, <3>2 DEF TokensOK
    <3> QED
      BY <3>1, <3>2
  <2>2. /\ token[v].family \in Tokens /\ token[v].family # new
        /\ token'[token[v].family].family = token[v].family
        /\ token'[token[v].family].grant = token[v].grant
    BY <1>1, <1>5, <2>1, FamiliesAreNamed DEF TokenOK
  <2>3. \A w \in Tokens : token'[w].grant = token[v].grant => token'[w].family = token[v].family
    BY <1>3, <1>4, <1>5, <2>1 DEF TokenOK
  <2>4. \A w \in Tokens :
          token'[w].family = token[v].family /\ Live(u)' /\ Live(w)' => w = u
    <3> SUFFICES ASSUME NEW w \in Tokens, token'[w].family = token[v].family,
                        ~token'[u].used, ~token'[u].revoked, ~token'[w].used, ~token'[w].revoked
                 PROVE  w = u
      BY DEF Live
    <3>1. CASE u = new
      <4>1. SUFFICES ASSUME w # new PROVE FALSE
        BY <3>1
      <4>2. Live(w) /\ w # t /\ token[w].family = token[t].family
        BY <1>5, <1>6, <2>1, <3>1, <4>1
      <4> QED
        BY <1>7, <4>2 DEF TokenOK, Live, Rotatable
    <3>2. CASE u # new
      <4>1. v = u /\ Live(u) /\ u # t /\ token[u].family = token[v].family
        BY <1>6, <2>1, <3>2
      <4>2. CASE w = new
        <5>1. token[u].family = token[t].family
          BY <1>3, <1>4, <4>1, <4>2
        <5> QED
          BY <1>7, <4>1, <5>1 DEF TokenOK, Live, Rotatable
      <4>3. CASE w # new
        <5>1. Live(w) /\ token[w].family = token[u].family
          BY <1>5, <1>6, <4>1, <4>3
        <5> QED
          BY <2>1, <4>1, <5>1 DEF TokenOK
      <4> QED
        BY <4>2, <4>3
    <3> QED
      BY <3>1, <3>2
  <2> QED
    BY <2>1, <2>2, <2>3, <2>4 DEF TokenOK, Live
<1>10. ASSUME NEW x \in Request, PlaceOK(x), HoldsOK(x)
       PROVE  HoldsOK(x)'
  <2>1. x.at = "issuing" => \A u \in Tokens : token'[u].grant # x.row
    BY <1>3, <1>4, <1>5, <1>10 DEF HoldsOK
  <2>2. x.at \in {"rotating", "replayed", "ended", "found"} =>
          /\ x.row \in Tokens /\ token'[x.row] # NoToken
          /\ token'[x.row].family = token[x.row].family
          /\ token'[x.row].client = token[x.row].client
    BY <1>5, <1>8, <1>10 DEF HoldsOK, PlaceOK
  <2>3. x.at = "ended" =>
          \A u \in Tokens : token'[u].family = token[x.row].family => token'[u].revoked
    <3> SUFFICES ASSUME x.at = "ended", NEW u \in Tokens, token'[u].family = token[x.row].family
                 PROVE  token'[u].revoked
      OBVIOUS
    <3>1. CASE u = new
      BY <1>3, <1>4, <1>10, <3>1 DEF HoldsOK, Rotatable
    <3>2. CASE u # new
      BY <1>5, <1>10, <3>2 DEF HoldsOK
    <3> QED
      BY <3>1, <3>2
  <2> QED
    BY <1>10, <2>1, <2>2, <2>3 DEF HoldsOK
<1> QED
  BY <1>4, <1>9, <1>10 DEF StoreTypes, TokensOK, TokenOK

(* A family is revoked.                                                       *)
LEMMA FamilyEnds ==
  ASSUME StoreTypes, TokensOK, NEW f \in Tokens, token' = Revoked(f),
         UNCHANGED <<now, client, code, key, session>>
  PROVE  /\ StoreTypes' /\ TokensOK'
         /\ \A u \in Tokens : /\ token'[u].family = token[u].family
                              /\ token'[u].family = f => token'[u].revoked
                              /\ token[u] # NoToken => token'[u] # NoToken
         /\ \A x \in Request : PlaceOK(x) /\ HoldsOK(x) => HoldsOK(x)'
<1>1. ASSUME NEW u \in Tokens
      PROVE  /\ token'[u] \in TokenRow
             /\ token'[u].family = token[u].family /\ token'[u].grant = token[u].grant
             /\ token'[u].client = token[u].client /\ token'[u].scopes = token[u].scopes
             /\ token'[u].used = token[u].used /\ (token[u].revoked => token'[u].revoked)
             /\ token'[u].family = f => token'[u].revoked
             /\ token[u].family # f => token'[u] = token[u]
  <2>1. token[u] \in TokenRow
    BY DEF StoreTypes
  <2>2. token'[u] = IF token[u].family = f THEN [token[u] EXCEPT !.revoked = TRUE] ELSE token[u]
    BY DEF Revoked
  <2> QED
    BY <2>1, <2>2, MarkedToken
<1>2. token' \in [Tokens -> TokenRow]
  BY <1>1 DEF Revoked
<1>3. \A u \in Tokens : token'[u] # NoToken <=> token[u] # NoToken
  BY <1>1, NoRows, NoneIsNoRow
<1>4. TokensOK'
  BY <1>1, <1>3 DEF TokensOK, TokenOK, Live
<1>5. \A x \in Request : PlaceOK(x) /\ HoldsOK(x) => HoldsOK(x)'
  BY <1>1, <1>3 DEF PlaceOK, HoldsOK
<1> QED
  BY <1>1, <1>2, <1>3, <1>4, <1>5 DEF StoreTypes

-----------------------------------------------------------------------------
(* The steps.                                                                 *)

LEMMA AccessBegins == Init => AccessInv
<1> SUFFICES ASSUME Init PROVE AccessInv
  OBVIOUS
<1>1. StoreTypes
  <2>1. session \in [Sessions -> SessionRow]
    BY AccessAssumption DEF Init, AccessAssumption, SessionRow, NoSession
  <2> QED
    BY <2>1, TimesAreNumbers, NoRows DEF Init, StoreTypes
<1>2. TokensOK
  BY DEF Init, TokensOK, TokenOK
<1>3. RequestTypes
  BY IdleIsRequest DEF Init, RequestTypes
<1>4. \A q \in Requests : req[q] = Idle
  BY DEF Init
<1>5. RequestsOK /\ OneIssuer
  BY <1>4, IdleIsRequest DEF RequestsOK, HoldsOK, OneIssuer
<1> QED
  BY <1>1, <1>2, <1>3, <1>5 DEF AccessInv

(* A request returns, whatever else its step changes, if the others still     *)
(* hold what they held.                                                       *)
LEMMA OneReturns ==
  ASSUME AccessInv, NEW q \in Requests, Returns(q), StoreTypes', TokensOK',
         \A x \in Request :
           (\E s \in Requests \ {q} : x = req[s]) /\ PlaceOK(x) /\ HoldsOK(x) => HoldsOK(x)'
  PROVE  AccessInv'
<1>1. Idle \in Request /\ PlaceOK(Idle) /\ Idle.at = "idle"
  BY IdleIsRequest
<1>2. HoldsOK(Idle)'
  BY <1>1 DEF HoldsOK
<1> QED
  BY <1>1, <1>2, OneStep DEF Returns

LEMMA StoreUnchanged ==
  ASSUME StoreTypes, UNCHANGED <<now, client, code, token, key, session>>
  PROVE  StoreTypes'
BY DEF StoreTypes

(* Nothing but a request changes.                                             *)
LEMMA OneWaits ==
  ASSUME AccessInv, NEW q \in Requests, UNCHANGED <<now, client, code, token, key, session>>,
         NEW r \in Request, Becomes(q, r), PlaceOK(r), HoldsOK(r), r.at # "issuing"
  PROVE  AccessInv'
BY StoreUnchanged, OneReads DEF AccessInv

LEMMA OneGivesUp ==
  ASSUME AccessInv, NEW q \in Requests, UNCHANGED <<now, client, code, token, key, session>>,
         Returns(q)
  PROVE  AccessInv'
<1>1. Idle \in Request /\ PlaceOK(Idle) /\ Idle.at = "idle"
  BY IdleIsRequest
<1>2. HoldsOK(Idle)
  BY <1>1 DEF HoldsOK
<1> QED
  BY <1>1, <1>2, OneWaits DEF Returns

(* The requests that start, and those whose answer leaves.                    *)
LEMMA StartKeeps ==
  ASSUME AccessInv, NEW q \in Requests, NEW c \in Clients,
         NEW place \in {"exchanging", "refreshing", "revoking"}, StartsAs(q, c, place)
  PROVE  AccessInv'
<1> DEFINE r == [at |-> place, client |-> c, row |-> req[q].row, time |-> req[q].time,
                 shut |-> req[q].shut]
<1>1. req[q] \in Request
  BY DEF AccessInv, RequestTypes
<1>2. Becomes(q, r)
  <2>1. [req[q] EXCEPT !.at = place, !.client = c] = r
    BY <1>1, ChangedClient
  <2> QED
    BY Zenon, <2>1 DEF StartsAs, Arrives
<1>3. r \in Request /\ PlaceOK(r) /\ HoldsOK(r) /\ r.at # "issuing"
  BY <1>1 DEF Request, Places, PlaceOK, HoldsOK
<1> QED
  BY <1>2, <1>3, OneWaits DEF StartsAs

LEMMA AnswerKeeps ==
  ASSUME AccessInv, NEW q \in Requests, Answers(q)
  PROVE  AccessInv'
BY OneGivesUp DEF Answers

(* What a request is after it moved, read a row or tried a credential.        *)
LEMMA MovesTo ==
  ASSUME NEW q \in Requests, req[q] \in Request, NEW place, Moves(q, place)
  PROVE  Becomes(q, [at |-> place, client |-> req[q].client, row |-> req[q].row,
                     time |-> req[q].time, shut |-> req[q].shut])
<1> DEFINE r == [at |-> place, client |-> req[q].client, row |-> req[q].row,
                 time |-> req[q].time, shut |-> req[q].shut]
<1>1. [req[q] EXCEPT !.at = place] = r
  BY ChangedAt
<1> QED
  BY Zenon, <1>1 DEF Moves

LEMMA ReadsAt ==
  ASSUME NEW q \in Requests, req[q] \in Request, NEW place, NEW row, Reads(q, place, row)
  PROVE  Becomes(q, [at |-> place, client |-> req[q].client, row |-> row,
                     time |-> now, shut |-> req[q].shut])
<1> DEFINE r == [at |-> place, client |-> req[q].client, row |-> row,
                 time |-> now, shut |-> req[q].shut]
<1>1. [req[q] EXCEPT !.at = place, !.row = row, !.time = now] = r
  BY ChangedRowTime
<1> QED
  BY Zenon, <1>1 DEF Reads

LEMMA TriesAt ==
  ASSUME NEW q \in Requests, req[q] \in Request, NEW place, NEW row, NEW over,
         Tries(q, place, row, over)
  PROVE  Becomes(q, [at |-> place, client |-> req[q].client, row |-> row,
                     time |-> req[q].time, shut |-> over])
<1> DEFINE r == [at |-> place, client |-> req[q].client, row |-> row,
                 time |-> req[q].time, shut |-> over]
<1>1. [req[q] EXCEPT !.at = place, !.row = row, !.shut = over] = r
  BY ChangedRowShut
<1> QED
  BY Zenon, <1>1 DEF Tries

(* The steps that only read.                                                  *)
LEMMA ExchangeFindsKeeps ==
  ASSUME AccessInv, NEW q \in Requests, NEW k \in Codes, NEW redirect, NEW challenge,
         ExchangeFinds(q, k, redirect, challenge)
  PROVE  AccessInv'
<1>1. CASE Redeemable(k, req[q].client, redirect, challenge)
  <2> DEFINE r == [at |-> "consuming", client |-> req[q].client, row |-> k,
                   time |-> now, shut |-> req[q].shut]
  <2>1. req[q] \in Request /\ req[q].client \in Clients /\ now \in Nat
    BY DEF AccessInv, RequestTypes, PlaceOK, ExchangeFinds, At, StoreTypes
  <2>2. Becomes(q, r)
    BY <1>1, <2>1, ReadsAt DEF ExchangeFinds
  <2>3. r \in Request /\ PlaceOK(r) /\ HoldsOK(r) /\ r.at # "issuing"
    BY <1>1, <2>1 DEF Request, Places, Rows, PlaceOK, HoldsOK, Redeemable
  <2> QED
    BY <2>2, <2>3, OneWaits DEF ExchangeFinds
<1>2. CASE ~Redeemable(k, req[q].client, redirect, challenge)
  BY <1>2, OneGivesUp DEF ExchangeFinds
<1> QED
  BY <1>1, <1>2

LEMMA RefreshFindsKeeps ==
  ASSUME AccessInv, NEW q \in Requests, NEW t \in Tokens, RefreshFinds(q, t)
  PROVE  AccessInv'
<1>1. req[q] \in Request /\ token[t] # NoToken /\ now \in Nat
      /\ UNCHANGED <<now, client, code, token, key, session>>
  BY DEF AccessInv, RequestTypes, RefreshFinds, StoreTypes
<1>2. Returns(q) \/ Tries(q, "replayed", t, FALSE) \/ Reads(q, "rotating", t)
  BY DEF RefreshFinds
<1>3. CASE Returns(q)
  BY <1>1, <1>3, OneGivesUp
<1>4. CASE Tries(q, "replayed", t, FALSE)
  <2> DEFINE r == [at |-> "replayed", client |-> req[q].client, row |-> t,
                   time |-> req[q].time, shut |-> FALSE]
  <2>1. Becomes(q, r)
    BY <1>1, <1>4, TriesAt
  <2>2. r \in Request /\ PlaceOK(r) /\ HoldsOK(r) /\ r.at # "issuing"
    BY <1>1 DEF Request, Places, Rows, PlaceOK, HoldsOK
  <2> QED
    BY <1>1, <2>1, <2>2, OneWaits
<1>5. CASE Reads(q, "rotating", t)
  <2> DEFINE r == [at |-> "rotating", client |-> req[q].client, row |-> t,
                   time |-> now, shut |-> req[q].shut]
  <2>1. Becomes(q, r)
    BY <1>1, <1>5, ReadsAt
  <2>2. r \in Request /\ PlaceOK(r) /\ HoldsOK(r) /\ r.at # "issuing"
    BY <1>1 DEF Request, Places, Rows, PlaceOK, HoldsOK
  <2> QED
    BY <1>1, <2>1, <2>2, OneWaits
<1> QED
  BY <1>2, <1>3, <1>4, <1>5

(* The call finds the token neither revoked nor expired: what may be over by  *)
(* now is its client.                                                         *)
LEMMA CallFindsTokenKeeps ==
  ASSUME AccessInv, NEW q \in Requests, NEW t \in Tokens, CallFindsToken(q, t)
  PROVE  AccessInv'
<1> DEFINE r == [at |-> "found", client |-> req[q].client, row |-> t,
                 time |-> req[q].time, shut |-> TokenOver(t)]
<1>1. req[q] \in Request /\ token[t] \in TokenRow /\ now \in Nat /\ AccessTTL \in Nat
  BY TimesAreNumbers DEF AccessInv, RequestTypes, StoreTypes
<1>2. TokenOver(t) => client[token[t].client] = "revoked"
  BY <1>1 DEF CallFindsToken, TokenOver, TokenRow
<1>3. TokenOver(t) \in BOOLEAN
  BY DEF TokenOver
<1>4. Becomes(q, r)
  BY <1>1, TriesAt DEF CallFindsToken
<1>5. r \in Request /\ PlaceOK(r) /\ HoldsOK(r) /\ r.at # "issuing"
  BY <1>1, <1>2, <1>3 DEF Request, Places, Rows, PlaceOK, HoldsOK, CallFindsToken
<1> QED
  BY <1>4, <1>5, OneWaits DEF CallFindsToken

LEMMA CallFindsKeyKeeps ==
  ASSUME AccessInv, NEW q \in Requests, NEW k \in Keys, CallFindsKey(q, k)
  PROVE  AccessInv'
<1> DEFINE r == [at |-> "keyed", client |-> req[q].client, row |-> k,
                 time |-> req[q].time, shut |-> KeyOver(k)]
<1>1. req[q] \in Request /\ ~KeyOver(k) /\ KeyOver(k) \in BOOLEAN
  BY DEF AccessInv, RequestTypes, CallFindsKey, KeyOver
<1>2. Becomes(q, r)
  BY <1>1, TriesAt DEF CallFindsKey
<1>3. r \in Request /\ PlaceOK(r) /\ HoldsOK(r) /\ r.at # "issuing"
  BY <1>1 DEF Request, Places, Rows, PlaceOK, HoldsOK
<1> QED
  BY <1>2, <1>3, OneWaits DEF CallFindsKey

(* The call is accepted, or refused.                                          *)
LEMMA AcceptKeeps ==
  ASSUME AccessInv, NEW q \in Requests, Moves(q, "accepted"), ~req[q].shut,
         UNCHANGED <<now, client, code, token, key, session>>
  PROVE  AccessInv'
<1> DEFINE r == [at |-> "accepted", client |-> req[q].client, row |-> req[q].row,
                 time |-> req[q].time, shut |-> req[q].shut]
<1>1. req[q] \in Request
  BY DEF AccessInv, RequestTypes
<1>2. Becomes(q, r)
  BY <1>1, MovesTo
<1>3. r \in Request /\ PlaceOK(r) /\ HoldsOK(r) /\ r.at # "issuing"
  BY <1>1 DEF Request, Places, PlaceOK, HoldsOK
<1> QED
  BY <1>2, <1>3, OneWaits

LEMMA CallChecksClientKeeps ==
  ASSUME AccessInv, NEW q \in Requests, CallChecksClient(q)
  PROVE  AccessInv'
<1>1. HoldsOK(req[q]) /\ req[q].at = "found"
  BY DEF AccessInv, RequestsOK, CallChecksClient, At
<1>2. CASE Active(token[req[q].row].client) /\ Read \in token[req[q].row].scopes
  <2>1. ~req[q].shut
    BY <1>1, <1>2 DEF HoldsOK, Active
  <2> QED
    BY <1>2, <2>1, AcceptKeeps DEF CallChecksClient
<1>3. CASE ~(Active(token[req[q].row].client) /\ Read \in token[req[q].row].scopes)
  BY <1>3, OneGivesUp DEF CallChecksClient
<1> QED
  BY <1>2, <1>3

LEMMA CallTouchesKeyKeeps ==
  ASSUME AccessInv, NEW q \in Requests, CallTouchesKey(q)
  PROVE  AccessInv'
<1>1. HoldsOK(req[q]) /\ req[q].at = "keyed"
  BY DEF AccessInv, RequestsOK, CallTouchesKey, At
<1> QED
  BY <1>1, AcceptKeeps DEF CallTouchesKey, HoldsOK

(* The steps on codes and tokens.                                             *)
LEMMA ExchangeConsumesKeeps ==
  ASSUME AccessInv, NEW q \in Requests, ExchangeConsumes(q)
  PROVE  AccessInv'
<1>1. PICK k : k = req[q].row
  OBVIOUS
<1>2. req[q] \in Request /\ k \in Codes /\ req[q].client \in Clients
      /\ code[k].client = req[q].client /\ req[q].at = "consuming"
  BY <1>1 DEF AccessInv, RequestTypes, RequestsOK, PlaceOK, HoldsOK, ExchangeConsumes, At
<1>3. code' = [code EXCEPT ![k].used = TRUE] /\ UNCHANGED <<now, client, token, key, session>>
  BY <1>1 DEF ExchangeConsumes, Consume
<1>4. /\ StoreTypes' /\ TokensOK' /\ code'[k].used /\ code'[k].client = code[k].client
      /\ \A x \in Request : PlaceOK(x) /\ HoldsOK(x) => HoldsOK(x)'
  BY <1>2, <1>3, CodeIsTaken DEF AccessInv
<1>5. CASE code[k].used
  BY <1>1, <1>4, <1>5, OneReturns DEF ExchangeConsumes, Consume
<1>6. CASE ~code[k].used
  <2>1. PICK r : r = [at |-> "issuing", client |-> req[q].client, row |-> k,
                      time |-> req[q].time, shut |-> req[q].shut]
    OBVIOUS
  <2>2. Becomes(q, r)
    BY <1>1, <1>2, <1>6, <2>1, MovesTo DEF ExchangeConsumes, Consume
  <2>3. /\ r \in Request /\ PlaceOK(r)
        /\ r.at = "issuing" /\ r.row = k /\ r.client = code[k].client
    BY <1>2, <2>1 DEF Request, Places, Rows, PlaceOK
  <2>4. \A t \in Tokens : token'[t].grant # k
    BY <1>2, <1>3, <1>6, NoRows, NoneIsNoRow DEF AccessInv, TokensOK, TokenOK
  <2>5. HoldsOK(r)'
    BY <1>4, <2>3, <2>4 DEF HoldsOK
  <2>6. \A s \in Requests : ~(req[s].at = "issuing" /\ req[s].row = k)
    BY <1>6 DEF AccessInv, RequestsOK, HoldsOK
  <2> QED
    BY <1>4, <2>2, <2>3, <2>5, <2>6, OneStep
<1> QED
  BY <1>5, <1>6

LEMMA ExchangeIssuesKeeps ==
  ASSUME AccessInv, NEW q \in Requests, NEW t \in Tokens, ExchangeIssues(q, t)
  PROVE  AccessInv'
<1> DEFINE k == req[q].row
<1>1. /\ req[q] \in Request /\ k \in Codes /\ req[q].client \in Clients /\ req[q].at = "issuing"
      /\ code[k].client = req[q].client /\ code[k].used /\ \A u \in Tokens : token[u].grant # k
      /\ req[q].time \in Nat
  BY DEF AccessInv, RequestTypes, RequestsOK, PlaceOK, HoldsOK, ExchangeIssues, At, Request
<1>2. /\ t \in Fresh /\ Returns(q) /\ UNCHANGED <<now, client, code, key, session>>
      /\ token' = [token EXCEPT ![t] = NewToken(t, k, req[q].client, code[k].scopes, req[q].time)]
  BY DEF ExchangeIssues
<1>3. /\ StoreTypes' /\ TokensOK'
      /\ \A x \in Request :
           ~(x.at = "issuing" /\ x.row = k) /\ PlaceOK(x) /\ HoldsOK(x) => HoldsOK(x)'
  <2> HIDE DEF k
  <2> QED
    BY <1>1, <1>2, FamilyBegins DEF AccessInv
<1>4. \A s \in Requests : s # q => ~(req[s].at = "issuing" /\ req[s].row = k)
  BY <1>1 DEF AccessInv, OneIssuer
<1>5. \A x \in Request :
        (\E s \in Requests \ {q} : x = req[s]) /\ PlaceOK(x) /\ HoldsOK(x) => HoldsOK(x)'
  <2> HIDE DEF k
  <2> QED
    BY <1>3, <1>4
<1> QED
  BY <1>2, <1>3, <1>5, OneReturns

LEMMA RefreshRotatesKeeps ==
  ASSUME AccessInv, NEW q \in Requests, NEW new \in Tokens, RefreshRotates(q, new)
  PROVE  AccessInv'
<1> DEFINE t == req[q].row
<1>1. req[q] \in Request /\ t \in Tokens /\ token[t] # NoToken /\ token[t] \in TokenRow
      /\ req[q].time \in Nat /\ req[q].at = "rotating"
  BY DEF AccessInv, RequestTypes, RequestsOK, PlaceOK, HoldsOK, RefreshRotates, At, StoreTypes, Request
<1>2. new \in Fresh /\ Rotate(q, t, new) /\ UNCHANGED <<now, client, code, key, session>>
  BY DEF RefreshRotates
<1>3. CASE Rotatable(t)
  <2> DEFINE old == [token[t] EXCEPT !.used = TRUE]
             row == NewToken(token[t].family, token[t].grant, token[t].client,
                             token[t].scopes, req[q].time)
  <2>1. Returns(q) /\ token' = [token EXCEPT ![t] = old, ![new] = row]
    BY <1>2, <1>3 DEF Rotate
  <2>2. /\ old \in TokenRow /\ old.family = token[t].family /\ old.grant = token[t].grant
        /\ old.client = token[t].client /\ old.scopes = token[t].scopes /\ old.used
    BY <1>1, MarkedToken
  <2>3. /\ row \in TokenRow /\ row.family = token[t].family /\ row.grant = token[t].grant
        /\ row.client = token[t].client /\ row.scopes = token[t].scopes
    BY <1>1 DEF NewToken, TokenRow
  <2> HIDE DEF old, row
  <2>4. new \in Tokens /\ new # t
    BY <1>1, <1>2 DEF Fresh
  <2>5. token' = [u \in Tokens |-> IF u = t THEN old ELSE IF u = new THEN row ELSE token[u]]
    <3>1. token \in [Tokens -> TokenRow]
      BY DEF AccessInv, StoreTypes
    <3> HIDE DEF t
    <3> QED
      BY <2>1, <2>4, <3>1
  <2> HIDE DEF t
  <2>6. /\ StoreTypes' /\ TokensOK'
        /\ \A x \in Request : PlaceOK(x) /\ HoldsOK(x) => HoldsOK(x)'
    BY <1>1, <1>2, <1>3, <2>2, <2>3, <2>5, FamilyTurns DEF AccessInv
  <2> QED
    BY <2>1, <2>6, OneReturns
<1>4. CASE ~Rotatable(t)
  <2> DEFINE r == [at |-> "replayed", client |-> req[q].client, row |-> t,
                   time |-> req[q].time, shut |-> req[q].shut]
  <2>1. Becomes(q, r) /\ UNCHANGED token
    BY <1>1, <1>2, <1>4, MovesTo DEF Rotate
  <2>2. r \in Request /\ PlaceOK(r) /\ HoldsOK(r) /\ r.at # "issuing"
    BY <1>1 DEF Request, Places, PlaceOK, HoldsOK
  <2> HIDE DEF r
  <2> QED
    BY <1>2, <2>1, <2>2, OneWaits
<1> QED
  BY <1>3, <1>4

LEMMA ReplayRevokesKeeps ==
  ASSUME AccessInv, NEW q \in Requests, ReplayRevokes(q)
  PROVE  AccessInv'
<1>1. PICK t, r : /\ t = req[q].row
                  /\ r = [at |-> "ended", client |-> req[q].client, row |-> t,
                          time |-> req[q].time, shut |-> req[q].shut]
  OBVIOUS
<1>2. req[q] \in Request /\ t \in Tokens /\ token[t] # NoToken /\ req[q].at = "replayed"
  BY <1>1 DEF AccessInv, RequestTypes, RequestsOK, PlaceOK, HoldsOK, ReplayRevokes, At
<1>3. token[t].family \in Tokens
  BY <1>2, FamiliesAreNamed DEF AccessInv
<1>4. /\ StoreTypes' /\ TokensOK'
      /\ \A u \in Tokens : /\ token'[u].family = token[u].family
                           /\ token'[u].family = token[t].family => token'[u].revoked
                           /\ token[u] # NoToken => token'[u] # NoToken
      /\ \A x \in Request : PlaceOK(x) /\ HoldsOK(x) => HoldsOK(x)'
  BY <1>1, <1>3, FamilyEnds DEF AccessInv, ReplayRevokes
<1>5. Becomes(q, r)
  BY <1>1, <1>2, MovesTo DEF ReplayRevokes
<1>6. r \in Request /\ PlaceOK(r) /\ r.at = "ended" /\ r.row = t
  BY <1>1, <1>2 DEF Request, Places, PlaceOK
<1>7. HoldsOK(r)'
  <2>1. /\ token'[t] # NoToken
        /\ \A u \in Tokens : token'[u].family = token'[t].family => token'[u].revoked
    BY <1>2, <1>4
  <2> QED
    BY <1>6, <2>1 DEF HoldsOK
<1> QED
  BY <1>4, <1>5, <1>6, <1>7, OneStep

LEMMA RevokeCommitsKeeps ==
  ASSUME AccessInv, NEW q \in Requests, NEW t \in Tokens, RevokeCommits(q, t)
  PROVE  AccessInv'
<1>1. Returns(q) /\ token[t] # NoToken /\ UNCHANGED <<now, client, code, key, session>>
  BY DEF RevokeCommits
<1>2. CASE token[t].client = req[q].client
  <2>1. token[t].family \in Tokens
    BY <1>1, FamiliesAreNamed DEF AccessInv
  <2>2. token' = Revoked(token[t].family)
    BY <1>2 DEF RevokeCommits
  <2> QED
    BY <1>1, <2>1, <2>2, FamilyEnds, OneReturns DEF AccessInv
<1>3. CASE token[t].client # req[q].client
  BY <1>1, <1>3, OneGivesUp DEF RevokeCommits
<1> QED
  BY <1>2, <1>3

LEMMA ConsentIssuesKeeps ==
  ASSUME AccessInv, NEW q \in Requests, NEW k \in Codes, NEW redirect \in Redirects,
         NEW challenge \in Challenges, NEW scopes \in SUBSET Scopes,
         ConsentIssues(q, k, redirect, challenge, scopes)
  PROVE  AccessInv'
<1> DEFINE row == [client |-> req[q].client, redirect |-> redirect, challenge |-> challenge,
                   scopes |-> scopes, issued |-> now, used |-> FALSE]
<1>1. req[q].client \in Clients /\ now \in Nat
  BY DEF AccessInv, StoreTypes, RequestTypes, PlaceOK, ConsentIssues, At
<1>2. row \in CodeRow
  BY <1>1 DEF CodeRow
<1>3. k \in FreshCodes /\ code' = [code EXCEPT ![k] = row] /\ Returns(q)
      /\ UNCHANGED <<now, client, token, key, session>>
  BY DEF ConsentIssues
<1> HIDE DEF row
<1> QED
  BY <1>2, <1>3, CodeIsMade, OneReturns DEF AccessInv

(* The steps on sessions, keys and clients.                                   *)
LEMMA NoOneMoves ==
  ASSUME AccessInv, UNCHANGED req, StoreTypes', TokensOK',
         \A x \in Request : PlaceOK(x) /\ HoldsOK(x) => HoldsOK(x)'
  PROVE  AccessInv'
<1>1. RequestTypes' /\ OneIssuer'
  BY DEF AccessInv, RequestTypes, OneIssuer, PlaceOK
<1>2. ASSUME NEW s \in Requests
      PROVE  HoldsOK(req[s])'
  <2>1. req[s] \in Request /\ PlaceOK(req[s]) /\ HoldsOK(req[s])
    BY DEF AccessInv, RequestTypes, RequestsOK
  <2>2. PICK x : x = req[s]
    OBVIOUS
  <2>3. HoldsOK(x)' /\ x = req'[s]
    BY <2>1, <2>2
  <2> QED
    BY <2>3 DEF HoldsOK
<1> QED
  BY <1>1, <1>2 DEF AccessInv, RequestsOK

LEMMA LoginKeeps ==
  ASSUME AccessInv, NEW s \in Sessions, Login(s)
  PROVE  AccessInv'
<1>1. [state |-> "active", issued |-> now, seen |-> now] \in SessionRow
  BY DEF AccessInv, StoreTypes, SessionRow
<1>2. StoreTypes'
  BY <1>1 DEF AccessInv, StoreTypes, Login
<1> QED
  BY <1>2, HoldsUnchanged, NoOneMoves DEF AccessInv, Login

LEMMA VisitFindsKeeps ==
  ASSUME AccessInv, NEW q \in Requests, NEW s \in Sessions, VisitFinds(q, s)
  PROVE  AccessInv'
<1> DEFINE place == IF SessionIdle(s) THEN "lapsed" ELSE "seen"
           r == [at |-> place, client |-> req[q].client, row |-> s, time |-> now,
                 shut |-> SessionOver(s)]
<1>1. req[q] \in Request /\ now \in Nat
  BY DEF AccessInv, RequestTypes, StoreTypes
<1>2. place \in {"lapsed", "seen"} /\ SessionOver(s) \in BOOLEAN
  BY DEF SessionOver
<1>3. Becomes(q, [req[q] EXCEPT !.at = place, !.row = s, !.time = now, !.shut = SessionOver(s)])
  BY DEF VisitFinds
<1> HIDE DEF place
<1>4. [req[q] EXCEPT !.at = place, !.row = s, !.time = now, !.shut = SessionOver(s)] = r
  <2> DEFINE e == [req[q] EXCEPT !.at = place, !.row = s, !.time = now]
  <2>1. e = [at |-> place, client |-> req[q].client, row |-> s, time |-> now, shut |-> req[q].shut]
    BY <1>1, ChangedRowTime
  <2>2. [req[q] EXCEPT !.at = place, !.row = s, !.time = now, !.shut = SessionOver(s)] =
          [e EXCEPT !.shut = SessionOver(s)]
    OBVIOUS
  <2> HIDE DEF e
  <2> QED
    BY <2>1, <2>2
<1>5. Becomes(q, r)
  BY Zenon, <1>3, <1>4
<1>6. r \in Request /\ PlaceOK(r) /\ HoldsOK(r) /\ r.at # "issuing"
  BY <1>1, <1>2 DEF Request, Places, Rows, PlaceOK, HoldsOK
<1> QED
  BY <1>5, <1>6, OneWaits DEF VisitFinds

(* A session row changes in one field.                                        *)
LEMMA SessionChanges ==
  ASSUME StoreTypes, UNCHANGED <<now, client, code, token, key>>, NEW s \in Sessions,
         \/ session' = [session EXCEPT ![s].state = "revoked"]
         \/ \E n \in Nat : session' = [session EXCEPT ![s].seen = n]
  PROVE  StoreTypes'
<1>1. session[s] \in SessionRow
  BY DEF StoreTypes
<1>2. [session[s] EXCEPT !.state = "revoked"] \in SessionRow
      /\ \A n \in Nat : [session[s] EXCEPT !.seen = n] \in SessionRow
  BY <1>1 DEF SessionRow
<1>3. PICK row \in SessionRow : session' = [session EXCEPT ![s] = row]
  BY <1>2
<1> QED
  BY <1>3 DEF StoreTypes

LEMMA SessionEnds ==
  ASSUME AccessInv, NEW q \in Requests, req[q].at \in {"lapsed", "admin"}, Returns(q),
         session' = [session EXCEPT ![req[q].row].state = "revoked"],
         UNCHANGED <<now, client, code, token, key>>
  PROVE  AccessInv'
<1>1. req[q].row \in Sessions
  BY DEF AccessInv, RequestTypes, PlaceOK
<1>2. StoreTypes'
  BY <1>1, SessionChanges DEF AccessInv
<1> QED
  BY <1>2, HoldsUnchanged, OneReturns DEF AccessInv

LEMMA VisitTouchesKeeps ==
  ASSUME AccessInv, NEW q \in Requests, VisitTouches(q)
  PROVE  AccessInv'
<1> DEFINE r == [at |-> "admin", client |-> req[q].client, row |-> req[q].row,
                 time |-> 0, shut |-> req[q].shut]
<1>1. req[q] \in Request /\ req[q].row \in Sessions /\ req[q].time \in Nat
  BY DEF AccessInv, RequestTypes, PlaceOK, VisitTouches, At, Request
<1>2. StoreTypes'
  BY <1>1, SessionChanges DEF AccessInv, VisitTouches
<1>3. Becomes(q, r)
  <2>1. [req[q] EXCEPT !.at = "admin", !.time = 0] = r
    BY <1>1, ChangedTime
  <2> QED
    BY Zenon, <2>1 DEF VisitTouches
<1>4. r \in Request /\ PlaceOK(r) /\ HoldsOK(r) /\ r.at # "issuing"
  BY <1>1 DEF Request, Places, PlaceOK, HoldsOK
<1> QED
  BY <1>2, <1>3, <1>4, OneReads DEF VisitTouches

LEMMA ClientsKeep ==
  ASSUME AccessInv, NEW q \in Requests, NEW c \in Clients,
         AdminRegisters(q, c) \/ AdminRevokesClient(q, c)
  PROVE  AccessInv'
<1>1. PICK state \in {"active", "revoked"} :
        /\ client[c] = "revoked" => state = "revoked"
        /\ client' = [client EXCEPT ![c] = state]
  BY DEF AdminRegisters, AdminRevokesClient
<1>2. Returns(q) /\ UNCHANGED <<now, code, token, key, session>>
  BY DEF AdminRegisters, AdminRevokesClient
<1> QED
  BY <1>1, <1>2, ClientChanges, OneReturns DEF AccessInv

LEMMA ClientRegistersKeeps ==
  ASSUME AccessInv, NEW c \in Clients, ClientRegisters(c)
  PROVE  AccessInv'
<1>1. client' = [client EXCEPT ![c] = "active"] /\ client[c] # "revoked"
      /\ UNCHANGED <<now, code, token, key, session>>
  BY DEF ClientRegisters
<1> QED
  BY <1>1, ClientChanges, NoOneMoves DEF AccessInv, ClientRegisters

LEMMA KeysKeep ==
  ASSUME AccessInv, NEW q \in Requests, NEW k \in Keys,
         AdminCreatesKey(q, k) \/ AdminRevokesKey(q, k)
  PROVE  AccessInv'
<1>1. StoreTypes'
  BY DEF AccessInv, StoreTypes, AdminCreatesKey, AdminRevokesKey
<1> QED
  BY <1>1, HoldsUnchanged, OneReturns DEF AccessInv, AdminCreatesKey, AdminRevokesKey

LEMMA ConsentValidatesKeeps ==
  ASSUME AccessInv, NEW q \in Requests, NEW c \in Clients, ConsentValidates(q, c)
  PROVE  AccessInv'
<1> DEFINE r == [at |-> "consenting", client |-> c, row |-> req[q].row, time |-> req[q].time,
                 shut |-> req[q].shut]
<1>1. req[q] \in Request
  BY DEF AccessInv, RequestTypes
<1>2. Becomes(q, r)
  <2>1. [req[q] EXCEPT !.at = "consenting", !.client = c] = r
    BY <1>1, ChangedClient
  <2> QED
    BY Zenon, <2>1 DEF ConsentValidates
<1>3. r \in Request /\ PlaceOK(r) /\ HoldsOK(r) /\ r.at # "issuing"
  BY <1>1 DEF Request, Places, PlaceOK, HoldsOK
<1> QED
  BY <1>2, <1>3, OneWaits DEF ConsentValidates

(* The clock and the process.                                                 *)
LEMMA ClockKeeps ==
  ASSUME AccessInv, ClockAdvances
  PROVE  AccessInv'
<1>1. StoreTypes'
  <2>1. now + 1 \in Nat /\ now + 1 <= MaxTime
    BY TimesAreNumbers DEF AccessInv, StoreTypes, ClockAdvances
  <2> QED
    BY <2>1 DEF AccessInv, StoreTypes, ClockAdvances
<1> QED
  BY <1>1, HoldsUnchanged, NoOneMoves DEF AccessInv, ClockAdvances

LEMMA EndKeeps ==
  ASSUME AccessInv, ProcessEnds
  PROVE  AccessInv'
<1>1. StoreTypes' /\ TokensOK'
  BY StoreUnchanged, HoldsUnchanged DEF AccessInv, ProcessEnds
<1>2. req' = [q \in Requests |-> Idle]
  BY DEF ProcessEnds
<1>3. RequestTypes' /\ OneIssuer'
  BY <1>2, IdleIsRequest DEF RequestTypes, OneIssuer
<1>4. RequestsOK'
  BY <1>2, IdleIsRequest DEF RequestsOK, HoldsOK
<1> QED
  BY <1>1, <1>3, <1>4 DEF AccessInv

LEMMA StutterKeeps ==
  ASSUME AccessInv, UNCHANGED vars
  PROVE  AccessInv'
BY StoreUnchanged, HoldsUnchanged, NoOneMoves DEF AccessInv, vars

(* Every step preserves the invariant.                                        *)
LEMMA AccessSteps ==
  ASSUME AccessInv, [Next]_vars
  PROVE  AccessInv'
<1>1. CASE UNCHANGED vars
  BY <1>1, StutterKeeps
<1>2. CASE ClockAdvances
  BY <1>2, ClockKeeps
<1>3. CASE ProcessEnds
  BY <1>3, EndKeeps
<1>4. ASSUME NEW c \in Clients, ClientRegisters(c) PROVE AccessInv'
  BY <1>4, ClientRegistersKeeps
<1>5. ASSUME NEW s \in Sessions, Login(s) PROVE AccessInv'
  BY <1>5, LoginKeeps
<1>6. ASSUME NEW q \in Requests, NEW c \in Clients,
             \/ ExchangeStarts(q, c) \/ RefreshStarts(q, c) \/ RevokeStarts(q, c)
             \/ AdminRegisters(q, c) \/ AdminRevokesClient(q, c) \/ ConsentValidates(q, c)
      PROVE  AccessInv'
  BY <1>6, StartKeeps, ClientsKeep, ConsentValidatesKeeps DEF ExchangeStarts, RefreshStarts, RevokeStarts
<1>7. ASSUME NEW q \in Requests, NEW k \in Codes, NEW r \in Redirects, NEW h \in Challenges,
             NEW S \in SUBSET Scopes, ExchangeFinds(q, k, r, h) \/ ConsentIssues(q, k, r, h, S)
      PROVE  AccessInv'
  BY <1>7, ExchangeFindsKeeps, ConsentIssuesKeeps
<1>8. ASSUME NEW q \in Requests, NEW t \in Tokens,
             \/ ExchangeIssues(q, t) \/ RefreshFinds(q, t) \/ RefreshRotates(q, t)
             \/ RevokeCommits(q, t) \/ CallFindsToken(q, t)
      PROVE  AccessInv'
  BY <1>8, ExchangeIssuesKeeps, RefreshFindsKeeps, RefreshRotatesKeeps, RevokeCommitsKeeps,
     CallFindsTokenKeeps
<1>9. ASSUME NEW q \in Requests, NEW k \in Keys,
             CallFindsKey(q, k) \/ AdminCreatesKey(q, k) \/ AdminRevokesKey(q, k)
      PROVE  AccessInv'
  BY <1>9, CallFindsKeyKeeps, KeysKeep
<1>10. ASSUME NEW q \in Requests, NEW s \in Sessions, VisitFinds(q, s) PROVE AccessInv'
  BY <1>10, VisitFindsKeeps
<1>11. ASSUME NEW q \in Requests,
              \/ ExchangeConsumes(q) \/ ReplayRevokes(q) \/ CallChecksClient(q)
              \/ CallTouchesKey(q) \/ VisitTouches(q) \/ Answers(q)
       PROVE  AccessInv'
  BY <1>11, ExchangeConsumesKeeps, ReplayRevokesKeeps, CallChecksClientKeeps,
     CallTouchesKeyKeeps, VisitTouchesKeeps, AnswerKeeps
<1>12. ASSUME NEW q \in Requests, VisitRevokes(q) \/ Logout(q) PROVE AccessInv'
  <2>1. req[q].at \in {"lapsed", "admin"} /\ Returns(q)
        /\ session' = [session EXCEPT ![req[q].row].state = "revoked"]
        /\ UNCHANGED <<now, client, code, token, key>>
    BY <1>12 DEF VisitRevokes, Logout, At
  <2> QED
    BY <2>1, SessionEnds
<1> QED
  BY <1>1, <1>2, <1>3, <1>4, <1>5, <1>6, <1>7, <1>8, <1>9, <1>10, <1>11, <1>12 DEF Next

LEMMA AccessAlways == Spec => []AccessInv
<1>1. Init => AccessInv
  BY AccessBegins
<1>2. AccessInv /\ [Next]_vars => AccessInv'
  BY AccessSteps
<1> QED
  BY <1>1, <1>2, PTL DEF Spec

-----------------------------------------------------------------------------
(* The theorems.                                                              *)

(* Every variable has its type, and a request that holds a row holds one of   *)
(* the kind its step works on, at any time.                                   *)
THEOREM AccessTypes == Spec => []TypeOK
<1>1. AccessInv => TypeOK
  BY TypesFollow DEF AccessInv
<1> QED
  BY <1>1, AccessAlways, PTL

(* However many requests present a code at the same time, one redeems it, and *)
(* its tokens are of one family and carry what was consented to: consumeCode  *)
(* takes the row with used_at IS NULL and the tokens are inserted only after. *)
THEOREM GrantsStayHonoured == Spec => []GrantsAreHonoured
<1>1. AccessInv => GrantsAreHonoured
  BY DEF AccessInv, TokensOK, TokenOK, GrantsAreHonoured
<1> QED
  BY <1>1, AccessAlways, PTL

(* A refresh token that is presented twice ends its family for good: no       *)
(* rotation that was already under way adds a token the revocation missed.    *)
THEOREM ReplaysEndFamilies == Spec => []ReplayEndsFamily
<1>1. AccessInv => ReplayEndsFamily
  BY DEF AccessInv, RequestsOK, HoldsOK, ReplayEndsFamily, FamilyOf, At
<1> QED
  BY <1>1, AccessAlways, PTL

(* No call is served for a token, a key or a session that was over when the   *)
(* call read it, the client of the token included, which is read last.        *)
THEOREM OverStaysOver == Spec => []OverIsOver
<1>1. AccessInv => OverIsOver
  BY DEF AccessInv, RequestsOK, HoldsOK, OverIsOver, At
<1> QED
  BY <1>1, AccessAlways, PTL

-----------------------------------------------------------------------------
(* The tokens implement TicketChains.                                         *)

Opened == {f \in Tokens : \E t \in Tokens : token[t].family = f}
HoldersOf(f) == {t \in Tokens : token[t].family = f /\ Live(t)}
Holders == [f \in Tokens |-> HoldersOf(f)]

Begun(t, row) ==
  /\ row \in TokenRow /\ row.family = t /\ ~row.used /\ ~row.revoked
  /\ token' = [token EXCEPT ![t] = row]
Turned(t, new, old, row) ==
  /\ old.family = token[t].family /\ row.family = token[t].family
  /\ old.used /\ ~row.used /\ ~row.revoked
  /\ token' = [u \in Tokens |-> IF u = t THEN old ELSE IF u = new THEN row ELSE token[u]]

(* What a step may do to the tokens.                                          *)
LEMMA TokenSteps ==
  ASSUME AccessInv, [Next]_vars
  PROVE  \/ UNCHANGED token
         \/ \E t \in Fresh, row \in TokenRow : Begun(t, row)
         \/ \E t \in Tokens, new \in Fresh, old, row \in TokenRow :
              token[t] # NoToken /\ Rotatable(t) /\ Turned(t, new, old, row)
         \/ \E f \in Tokens : token' = Revoked(f)
<1>1. CASE \E q \in Requests, t \in Tokens : ExchangeIssues(q, t)
  <2>1. PICK q \in Requests, t \in Tokens : ExchangeIssues(q, t)
    BY <1>1
  <2> DEFINE row == NewToken(t, req[q].row, req[q].client, code[req[q].row].scopes, req[q].time)
  <2>2. req[q] \in Request /\ req[q].row \in Codes /\ req[q].client \in Clients
        /\ code[req[q].row] \in CodeRow /\ req[q].time \in Nat
    BY <2>1 DEF AccessInv, StoreTypes, RequestTypes, PlaceOK, ExchangeIssues, At, Request
  <2>3. row \in TokenRow /\ row.family = t /\ ~row.used /\ ~row.revoked
    BY <2>2 DEF NewToken, TokenRow, CodeRow
  <2>4. t \in Fresh /\ token' = [token EXCEPT ![t] = row]
    BY <2>1 DEF ExchangeIssues
  <2> HIDE DEF row
  <2> QED
    BY <2>3, <2>4 DEF Begun
<1>2. CASE \E q \in Requests, new \in Tokens : RefreshRotates(q, new)
  <2>1. PICK q \in Requests, new \in Tokens : RefreshRotates(q, new)
    BY <1>2
  <2>2. PICK t : t = req[q].row
    OBVIOUS
  <2>3. t \in Tokens /\ token[t] # NoToken /\ token[t] \in TokenRow /\ req[q].time \in Nat
        /\ new \in Fresh /\ new # t
    BY <2>1, <2>2
       DEF AccessInv, RequestTypes, RequestsOK, PlaceOK, HoldsOK, RefreshRotates, At, StoreTypes,
           Request, Fresh
  <2>4. CASE ~Rotatable(t)
    BY <2>1, <2>2, <2>4 DEF RefreshRotates, Rotate
  <2>5. CASE Rotatable(t)
    <3> DEFINE old == [token[t] EXCEPT !.used = TRUE]
               row == NewToken(token[t].family, token[t].grant, token[t].client,
                               token[t].scopes, req[q].time)
    <3>1. token' = [token EXCEPT ![t] = old, ![new] = row]
      BY <2>1, <2>2, <2>5 DEF RefreshRotates, Rotate
    <3>2. old \in TokenRow /\ old.family = token[t].family /\ old.used
      BY <2>3, MarkedToken
    <3>3. row \in TokenRow /\ row.family = token[t].family /\ ~row.used /\ ~row.revoked
      BY <2>3 DEF NewToken, TokenRow
    <3> HIDE DEF old, row
    <3>4. token' = [u \in Tokens |-> IF u = t THEN old ELSE IF u = new THEN row ELSE token[u]]
      BY <2>3, <3>1 DEF AccessInv, StoreTypes
    <3>5. Turned(t, new, old, row)
      BY <3>2, <3>3, <3>4 DEF Turned
    <3> QED
      BY <2>3, <2>5, <3>2, <3>3, <3>5
  <2> QED
    BY <2>4, <2>5
<1>3. CASE \E q \in Requests : ReplayRevokes(q)
  <2>1. PICK q \in Requests : ReplayRevokes(q)
    BY <1>3
  <2>2. req[q].row \in Tokens /\ token[req[q].row] # NoToken
    BY <2>1 DEF AccessInv, RequestTypes, RequestsOK, PlaceOK, HoldsOK, ReplayRevokes, At
  <2> QED
    BY <2>1, <2>2, FamiliesAreNamed DEF AccessInv, ReplayRevokes
<1>4. CASE \E q \in Requests, t \in Tokens : RevokeCommits(q, t)
  BY <1>4, FamiliesAreNamed DEF AccessInv, RevokeCommits
<1>5. CASE UNCHANGED token
  BY <1>5
<1>6. ASSUME NEW q \in Requests, NEW c \in Clients,
             \/ ExchangeStarts(q, c) \/ RefreshStarts(q, c) \/ RevokeStarts(q, c)
             \/ AdminRegisters(q, c) \/ AdminRevokesClient(q, c) \/ ConsentValidates(q, c)
      PROVE  UNCHANGED token
  BY <1>6 DEF ExchangeStarts, RefreshStarts, RevokeStarts, StartsAs, AdminRegisters,
              AdminRevokesClient, ConsentValidates
<1>7. ASSUME NEW q \in Requests, NEW k, NEW r, NEW h, NEW S,
             ExchangeFinds(q, k, r, h) \/ ConsentIssues(q, k, r, h, S)
      PROVE  UNCHANGED token
  BY <1>7 DEF ExchangeFinds, ConsentIssues
<1>8. ASSUME NEW q \in Requests, NEW x,
             \/ RefreshFinds(q, x) \/ CallFindsToken(q, x) \/ CallFindsKey(q, x)
             \/ AdminCreatesKey(q, x) \/ AdminRevokesKey(q, x) \/ VisitFinds(q, x)
      PROVE  UNCHANGED token
  BY <1>8 DEF RefreshFinds, CallFindsToken, CallFindsKey, AdminCreatesKey, AdminRevokesKey, VisitFinds
<1>9. ASSUME NEW q \in Requests,
             \/ ExchangeConsumes(q) \/ CallChecksClient(q) \/ CallTouchesKey(q) \/ VisitRevokes(q)
             \/ VisitTouches(q) \/ Logout(q) \/ Answers(q)
      PROVE  UNCHANGED token
  BY <1>9 DEF ExchangeConsumes, CallChecksClient, CallTouchesKey, VisitRevokes, VisitTouches,
              Logout, Answers
<1>10. ASSUME \/ ClockAdvances \/ ProcessEnds \/ UNCHANGED vars
              \/ \E c \in Clients : ClientRegisters(c)
              \/ \E s \in Sessions : Login(s)
       PROVE  UNCHANGED token
  BY <1>10 DEF ClockAdvances, ProcessEnds, ClientRegisters, Login, vars
<1> QED
  BY <1>1, <1>2, <1>3, <1>4, <1>5, <1>6, <1>7, <1>8, <1>9, <1>10 DEF Next

(* The functions of families to holders differ where their values do.         *)
LEMMA HoldersTurnTo ==
  ASSUME NEW f \in Tokens, NEW S, HoldersOf(f)' = S,
         \A g \in Tokens : g # f => HoldersOf(g)' = HoldersOf(g)
  PROVE  Holders' = [Holders EXCEPT ![f] = S]
BY DEF Holders

LEMMA OpensFamily ==
  ASSUME AccessInv, NEW t \in Fresh, NEW row \in TokenRow, Begun(t, row)
  PROVE  /\ t \in Tokens /\ t \notin Opened /\ Opened' = Opened \cup {t}
         /\ Holders' = [Holders EXCEPT ![t] = {t}]
<1>1. t \in Tokens /\ token[t] = NoToken
  BY DEF Fresh
<1>2. \A u \in Tokens : token[u].family # t
  BY <1>1, FamiliesAreNamed, NoRows, NoneIsNoRow DEF AccessInv
<1>3. token'[t] = row /\ \A u \in Tokens : u # t => token'[u] = token[u]
  BY <1>1 DEF AccessInv, StoreTypes, Begun
<1>4. token[t].family = None
  BY <1>1, NoRows
<1>5. t \notin Opened /\ Opened' = Opened \cup {t}
  BY <1>1, <1>2, <1>3, <1>4, NoneIsNoRow DEF Opened, Begun
<1>6. HoldersOf(t)' = {t}
  BY <1>1, <1>2, <1>3 DEF HoldersOf, Begun, Live
<1>7. ASSUME NEW g \in Tokens, g # t
      PROVE  HoldersOf(g)' = HoldersOf(g)
  BY <1>1, <1>3, <1>4, <1>7, NoneIsNoRow DEF HoldersOf, Begun, Live
<1> QED
  BY <1>1, <1>5, <1>6, <1>7, HoldersTurnTo

LEMMA TurnsFamily ==
  ASSUME AccessInv, NEW t \in Tokens, NEW new \in Fresh, NEW old \in TokenRow, NEW row \in TokenRow,
         token[t] # NoToken, Rotatable(t), Turned(t, new, old, row)
  PROVE  /\ new \in Tokens /\ new # t /\ token[t].family \in Tokens /\ Opened' = Opened
         /\ HoldersOf(token[t].family) = {t}
         /\ Holders' = [Holders EXCEPT ![token[t].family] = {new}]
<1>1. PICK f : f = token[t].family
  OBVIOUS
<1>2. new \in Tokens /\ token[new] = NoToken /\ new # t /\ f \in Tokens /\ TokenOK(t)
      /\ token[new].family = None
  BY <1>1, FamiliesAreNamed, NoRows DEF Fresh, AccessInv, TokensOK
<1>3. token'[t] = old /\ token'[new] = row
      /\ \A u \in Tokens : u # t /\ u # new => token'[u] = token[u]
  BY <1>2 DEF Turned
<1>4. old.family = f /\ row.family = f /\ old.used /\ ~row.used /\ ~row.revoked
  BY <1>1 DEF Turned
<1>5. HoldersOf(f) = {t}
  BY <1>1, <1>2 DEF HoldersOf, TokenOK, Live, Rotatable
<1>6. Opened' = Opened
  <2>1. ASSUME NEW g \in Tokens
        PROVE  (\E u \in Tokens : token'[u].family = g) <=> (\E u \in Tokens : token[u].family = g)
    BY <1>1, <1>2, <1>3, <1>4, NoneIsNoRow
  <2> QED
    BY <2>1 DEF Opened
<1>7. HoldersOf(f)' = {new}
  <2>1. ASSUME NEW u \in Tokens
        PROVE  token'[u].family = f /\ ~token'[u].used /\ ~token'[u].revoked <=> u = new
    <3>1. CASE u = new \/ u = t
      BY <1>2, <1>3, <1>4, <3>1
    <3>2. CASE u # new /\ u # t
      <4>1. token'[u] = token[u] /\ u \notin HoldersOf(f)
        BY <1>3, <1>5, <3>2
      <4> QED
        BY <3>2, <4>1 DEF HoldersOf, Live
    <3> QED
      BY <3>1, <3>2
  <2> QED
    BY <1>2, <2>1 DEF HoldersOf, Live
<1>8. ASSUME NEW g \in Tokens, g # f
      PROVE  HoldersOf(g)' = HoldersOf(g)
  BY <1>1, <1>2, <1>3, <1>4, <1>8, NoneIsNoRow DEF HoldersOf, Live
<1>9. Holders' = [Holders EXCEPT ![f] = {new}]
  BY <1>2, <1>7, <1>8, HoldersTurnTo
<1> QED
  BY <1>1, <1>2, <1>5, <1>6, <1>9

LEMMA EndsFamily ==
  ASSUME AccessInv, NEW f \in Tokens, token' = Revoked(f)
  PROVE  Opened' = Opened /\ Holders' = [Holders EXCEPT ![f] = {}]
<1>1. ASSUME NEW u \in Tokens
      PROVE  /\ token'[u].family = token[u].family
             /\ token[u].family = f => token'[u].revoked
             /\ token[u].family # f => token'[u] = token[u]
  <2>1. token[u] \in TokenRow
    BY DEF AccessInv, StoreTypes
  <2>2. token'[u] = IF token[u].family = f THEN [token[u] EXCEPT !.revoked = TRUE] ELSE token[u]
    BY DEF Revoked
  <2> QED
    BY <2>1, <2>2, MarkedToken
<1>2. Opened' = Opened
  BY <1>1 DEF Opened
<1>3. HoldersOf(f)' = {}
  BY <1>1 DEF HoldersOf, Live
<1>4. ASSUME NEW g \in Tokens, g # f
      PROVE  HoldersOf(g)' = HoldersOf(g)
  BY <1>1, <1>4 DEF HoldersOf, Live
<1> QED
  BY <1>2, <1>3, <1>4, HoldersTurnTo

(* Seen from outside, a family of refresh tokens is opened once, has one      *)
(* holder at a time and ends for good: each step of the server is one of      *)
(* TicketChains, or changes nothing that shows there.                         *)
THEOREM FamiliesStayChains == Spec => FamiliesAreChains
<1>1. Init => TC!Init
  <2> SUFFICES ASSUME Init PROVE TC!Init
    OBVIOUS
  <2>1. \A t \in Tokens : token[t].family = None
    BY NoRows DEF Init
  <2> QED
    BY <2>1, NoneIsNoRow DEF TC!Init, FamilyOf
<1>2. AccessInv /\ [Next]_vars => [TC!Next]_(TC!chains)
  <2> DEFINE Shown == [f \in Tokens |-> {t \in FamilyOf(f) : ~token[t].used /\ ~token[t].revoked}]
             Begins == {f \in Tokens : \E t \in Tokens : token[t].family = f}
  <2>1. Shown = Holders /\ Shown' = Holders' /\ Begins = Opened /\ Begins' = Opened'
    BY DEF Holders, HoldersOf, Live, FamilyOf, Opened
  <2>2. /\ TC!chains = <<Begins, Shown>>
        /\ \A f : TC!Open(f) <=> /\ f \notin Begins /\ Begins' = Begins \cup {f}
                               /\ \E t \in Tokens : Shown' = [Shown EXCEPT ![f] = {t}]
        /\ \A f : TC!Turn(f) <=> /\ \E old, new \in Tokens : /\ Shown[f] = {old} /\ new # old
                                                          /\ Shown' = [Shown EXCEPT ![f] = {new}]
                               /\ Begins' = Begins
        /\ \A f : TC!End(f) <=> Shown' = [Shown EXCEPT ![f] = {}] /\ Begins' = Begins
    BY Zenon DEF TC!chains, TC!Open, TC!Turn, TC!End
  <2>3. ([TC!Next]_(TC!chains)) <=>
          \/ Begins' = Begins /\ Shown' = Shown
          \/ \E f \in Tokens : TC!Open(f) \/ TC!Turn(f) \/ TC!End(f)
    BY Zenon DEF TC!chains, TC!Next
  <2> HIDE DEF Shown, Begins
  <2> SUFFICES ASSUME AccessInv, [Next]_vars
               PROVE  [TC!Next]_(TC!chains)
    OBVIOUS
  <2>4. CASE UNCHANGED token
    <3>1. Opened' = Opened /\ Holders' = Holders
      BY <2>4 DEF Opened, Holders, HoldersOf, Live
    <3> QED
      BY Zenon, <2>1, <2>3, <3>1
  <2>5. CASE \E t \in Fresh, row \in TokenRow : Begun(t, row)
    <3>1. PICK t \in Tokens : t \notin Opened /\ Opened' = Opened \cup {t}
                              /\ Holders' = [Holders EXCEPT ![t] = {t}]
      BY <2>5, OpensFamily
    <3>2. TC!Open(t)
      BY Zenon, <2>1, <2>2, <3>1
    <3> QED
      BY Zenon, <2>3, <3>2
  <2>6. CASE \E t \in Tokens, new \in Fresh, old, row \in TokenRow :
               token[t] # NoToken /\ Rotatable(t) /\ Turned(t, new, old, row)
    <3>1. PICK t \in Tokens, new \in Fresh, old \in TokenRow, row \in TokenRow :
            token[t] # NoToken /\ Rotatable(t) /\ Turned(t, new, old, row)
      BY <2>6
    <3>2. PICK f \in Tokens :
            /\ new \in Tokens /\ new # t /\ Opened' = Opened
            /\ HoldersOf(f) = {t} /\ Holders' = [Holders EXCEPT ![f] = {new}]
      BY <3>1, TurnsFamily
    <3>3. Holders[f] = {t}
      BY <3>2 DEF Holders
    <3>4. TC!Turn(f)
      BY Zenon, <2>1, <2>2, <3>2, <3>3
    <3> QED
      BY Zenon, <2>3, <3>2, <3>4
  <2>7. CASE \E f \in Tokens : token' = Revoked(f)
    <3>1. PICK f \in Tokens : Opened' = Opened /\ Holders' = [Holders EXCEPT ![f] = {}]
      BY <2>7, EndsFamily
    <3>2. TC!End(f)
      BY Zenon, <2>1, <2>2, <3>1
    <3> QED
      BY Zenon, <2>3, <3>2
  <2> QED
    BY <2>4, <2>5, <2>6, <2>7, TokenSteps
<1> QED
  BY <1>1, <1>2, AccessAlways, PTL DEF Spec, FamiliesAreChains, TC!Spec

=============================================================================

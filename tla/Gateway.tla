------------------------------- MODULE Gateway -------------------------------
(***************************************************************************)
(* The request path from a client to a media: the auth service's HTTP     *)
(* handlers (register, login, validate, src/unnamed/part_005) over         *)
(* AuthService (auth_service.go, ValidateToken in src/unnamed/part_002)    *)
(* and the SQLite user repository (src/unnamed/part_009); the image       *)
(* service's AuthorizingMiddleware, which asks the auth service through    *)
(* authclient.HTTPClient (src/unnamed/part_004); and the image handlers    *)
(* for upload, download and delete (http_transport.go), which normalise    *)
(* the media id of the path and map service errors to status codes.       *)
(*                                                                         *)
(* Tokens are records: the user, the expiry second, and whether the RSA   *)
(* signature verifies (genuine).  Passwords stand for their SHA-256       *)
(* hashes.  A media id is the Crockford encoding of IdBytes[m]; clients    *)
(* type it in any of its transcriptions.  Each handler's shared-state     *)
(* access is one step: the user table is written under the repository's    *)
(* write lock, and the media service's own interleavings are the subject  *)
(* of MediaService.  What may interleave is a token's validation and the   *)
(* handler it admits, the clock, and other clients' requests.             *)
(***************************************************************************)
EXTENDS Naturals, Sequences, FiniteSets, Crockford

CONSTANTS
    Clients,        \* concurrent HTTP clients
    Users,          \* usernames
    Passwords,      \* passwords
    NoName,         \* an empty form value
    Media,          \* media
    OwnerOf,        \* [Media -> Users]
    IdBytes,        \* [Media -> Seq(0..255)]: the hash the media id encodes
    TokenDuration,  \* AuthConfig.TokenDuration, in seconds
    MaxTime,        \* last second of the clock
    MaxOps,         \* requests, over all clients
    MaxFaults       \* failed backend calls

\* The media ids, and the ways clients type them in request paths.
IdOf == [m \in Media |-> EncodeCrockfordB32LC(IdBytes[m])]
Id(m) == IdOf[m]
TypedAs == [m \in Media |-> Transcriptions(IdOf[m])]

Token == [user : Users, exp : 0..MaxTime + TokenDuration, genuine : BOOLEAN]

\* A token the auth service never signed, for each user.
Forged == {[user |-> u, exp |-> MaxTime, genuine |-> FALSE] : u \in Users}

NoPassword == NoName

VARIABLES
    now,       \* time.Now().Unix()
    users,     \* [Users -> Passwords \cup {NoPassword}]: the users table
    minted,    \* tokens Login has returned
    present,   \* media stored
    faults,
    pc,        \* [Clients -> "idle" | "register" | "login" | "authorize" | "handle"]
    rq,        \* [Clients -> the request in flight, or NoRequest]
    who,       \* [Clients -> username the middleware put in the context]
    vat,       \* [Clients -> second the token was validated at]
    status,    \* [Clients -> status of the last reply, 0 before any]
    granted,   \* history: [tok, m, at] of every download or delete answered 200
    ops

vars == <<now, users, minted, present, faults, pc, rq, who, vat, status, granted, ops>>

AuthOps  == {"register", "login"}
MediaOps == {"upload", "download", "delete"}

NoRequest == [op |-> "none", u |-> NoName, pw |-> NoName, form |-> TRUE, hdr |-> FALSE,
              tok |-> CHOOSE t \in Forged : TRUE, m |-> CHOOSE m \in Media : TRUE,
              typed |-> <<>>, width |-> TRUE]

Init ==
    /\ now = 0
    /\ users = [u \in Users |-> NoPassword]
    /\ minted = {} /\ present = {} /\ faults = 0
    /\ pc = [c \in Clients |-> "idle"]
    /\ rq = [c \in Clients |-> NoRequest]
    /\ who = [c \in Clients |-> NoName]
    /\ vat = [c \in Clients |-> 0]
    /\ status = [c \in Clients |-> 0]
    /\ granted = {}
    /\ ops = 0

\* The handler returns: the reply is written and the request is gone.
Reply(c, code) ==
    /\ pc' = [pc EXCEPT ![c] = "idle"]
    /\ status' = [status EXCEPT ![c] = code]
    /\ rq' = [rq EXCEPT ![c] = NoRequest]
    /\ who' = [who EXCEPT ![c] = NoName]
    /\ vat' = [vat EXCEPT ![c] = 0]

Fault == faults < MaxFaults /\ faults' = faults + 1

\* time.Now() advances.
Tick ==
    /\ now < MaxTime /\ now' = now + 1
    /\ UNCHANGED <<users, minted, present, faults, pc, rq, who, vat, status, granted, ops>>

\* A client sends a request: a register or login form (which may fail to
\* parse, or leave the password empty), or a media request without an
\* Authorization header, or with a token it was given or a forged one,
\* the media id as typed (or empty) and, for a download, a width that
\* parses or not.
Begin(c) ==
    /\ pc[c] = "idle" /\ ops < MaxOps
    /\ \/ \E op \in AuthOps :
            /\ pc' = [pc EXCEPT ![c] = op]
            /\ \/ rq' = [rq EXCEPT ![c] = [NoRequest EXCEPT !.op = op, !.form = FALSE]]
               \/ \E u \in Users, pw \in Passwords \cup {NoName} :
                    rq' = [rq EXCEPT ![c] = [NoRequest EXCEPT !.op = op, !.u = u, !.pw = pw]]
       \/ \E op \in MediaOps :
            /\ pc' = [pc EXCEPT ![c] = "authorize"]
            /\ \/ rq' = [rq EXCEPT ![c] = [NoRequest EXCEPT !.op = op]]
               \/ \E tok \in minted \cup Forged :
                    rq' = [rq EXCEPT ![c] = [NoRequest EXCEPT !.op = op, !.hdr = TRUE, !.tok = tok]]
               \/ \E tok \in minted \cup Forged, m \in Media :
                  \E typed \in IF op = "upload" THEN {<<>>} ELSE TypedAs[m],
                    width \in IF op = "download" THEN BOOLEAN ELSE {TRUE} :
                    rq' = [rq EXCEPT ![c] = [NoRequest EXCEPT !.op = op, !.hdr = TRUE, !.tok = tok,
                                                 !.m = m, !.typed = typed, !.width = width]]
    /\ ops' = ops + 1
    /\ UNCHANGED <<now, users, minted, present, faults, who, vat, status, granted>>

-----------------------------------------------------------------------------
(* Auth service *)

\* SQLiteUserRepository.CreateUser, under its write lock: the INSERT hits
\* the UNIQUE constraint (ErrUserAlreadyExists, 409), fails otherwise
\* (500), or adds the user.  RegisterUser only hashes the password first.
CreateUser(c, u, pw) ==
    \/ users[u] # NoPassword /\ Reply(c, 409) /\ UNCHANGED <<users, faults>>
    \/ Fault /\ Reply(c, 500) /\ UNCHANGED users
    \/ users[u] = NoPassword /\ users' = [users EXCEPT ![u] = pw] /\ Reply(c, 200) /\ UNCHANGED faults

\* handleRegister: a form that does not parse returns before any status is
\* written, so net/http answers 200; an empty username or password is 400.
Register(c) ==
    /\ pc[c] = "register"
    /\ \/ ~rq[c].form /\ Reply(c, 200) /\ UNCHANGED <<users, faults>>
       \/ rq[c].form /\ NoName \in {rq[c].u, rq[c].pw} /\ Reply(c, 400) /\ UNCHANGED <<users, faults>>
       \/ rq[c].form /\ NoName \notin {rq[c].u, rq[c].pw} /\ CreateUser(c, rq[c].u, rq[c].pw)
    /\ UNCHANGED <<now, minted, present, granted, ops>>

\* The token Login signs: the user, expiring TokenDuration seconds from now.
IssueToken(u) == [user |-> u, exp |-> now + TokenDuration, genuine |-> TRUE]

\* SQLiteUserRepository.GetUserByUsername: the password hash of the row of
\* u, or NoPassword when the query finds no row (ErrUserNotFound).
GetUserByUsername(u) == users[u]

\* AuthService.Login: GetUserByUsername finds no row (invalid credentials,
\* 401) or fails (500); hmac.Equal of the password hashes fails (401); the
\* token is marshalled and signed (a signing error is 500) and returned.
LoginUser(c, u, pw) ==
    \/ GetUserByUsername(u) = NoPassword /\ Reply(c, 401) /\ UNCHANGED <<minted, faults>>
    \/ Fault /\ Reply(c, 500) /\ UNCHANGED minted
    \/ GetUserByUsername(u) \notin {NoPassword, pw} /\ Reply(c, 401) /\ UNCHANGED <<minted, faults>>
    \/ GetUserByUsername(u) = pw /\ minted' = minted \cup {IssueToken(u)} /\ Reply(c, 200) /\ UNCHANGED faults

\* handleLogin: the same form checks as handleRegister, then Login.
Login(c) ==
    /\ pc[c] = "login"
    /\ \/ ~rq[c].form /\ Reply(c, 200) /\ UNCHANGED <<minted, faults>>
       \/ rq[c].form /\ NoName \in {rq[c].u, rq[c].pw} /\ Reply(c, 400) /\ UNCHANGED <<minted, faults>>
       \/ rq[c].form /\ NoName \notin {rq[c].u, rq[c].pw} /\ LoginUser(c, rq[c].u, rq[c].pw)
    /\ UNCHANGED <<now, users, present, granted, ops>>

\* Mutant of TokenValid: the expiry is not checked.
TokenValidNoExpiry(t) == t.genuine

\* ValidateToken: the signature must verify, and the token is refused once
\* ExpiresAt < now, so it is still accepted during its expiry second.
TokenValid(t) == t.genuine /\ ~(t.exp < now)

\* handleValidate's status for a token: 401 when ValidateToken fails, else
\* 200 with the username as body.
HandleValidate(t) == IF TokenValid(t) THEN 200 ELSE 401

-----------------------------------------------------------------------------
(* Image service *)

\* HTTPClient.Validate as the middleware uses it: a transport error, or an
\* answer other than 200 (not ok), is 401; a 200 puts the username of the
\* body in the request context and the handler runs.
ValidateCall(c) ==
    \/ Fault /\ Reply(c, 401)
    \/ HandleValidate(rq[c].tok) # 200 /\ Reply(c, 401) /\ UNCHANGED faults
    \/ /\ HandleValidate(rq[c].tok) = 200
       /\ who' = [who EXCEPT ![c] = rq[c].tok.user]
       /\ vat' = [vat EXCEPT ![c] = now]
       /\ pc' = [pc EXCEPT ![c] = "handle"]
       /\ UNCHANGED <<faults, rq, status>>

\* AuthorizingMiddleware: no Authorization header is 400; otherwise the
\* header is posted to the auth service.
Authorize(c) ==
    /\ pc[c] = "authorize"
    /\ \/ ~rq[c].hdr /\ Reply(c, 400) /\ UNCHANGED faults
       \/ rq[c].hdr /\ ValidateCall(c)
    /\ UNCHANGED <<now, users, minted, present, granted, ops>>

\* The media a normalised path id names, if any.
Named(id) == {m \in Media : Id(m) = id}

\* The media service's owner check: the context user must be the owner
\* recorded in the media's meta blob, or the call fails with ErrUnauthorized.
IsOwner(c, m) == OwnerOf[m] = who[c]

\* handleUpload: processFile takes the owner from the context, and the
\* media id is derived from content and owner, so uploading m's content
\* stores m only for its owner (anyone else creates a media of their own,
\* outside Media).  A failed file is 400; the fan-out is the subject of
\* Upload.
HandleUpload(c) ==
    /\ pc[c] = "handle" /\ rq[c].op = "upload"
    /\ \/ Fault /\ Reply(c, 400) /\ UNCHANGED present
       \/ /\ present' = IF IsOwner(c, rq[c].m) THEN present \cup {rq[c].m} ELSE present
          /\ Reply(c, 200) /\ UNCHANGED faults
    /\ UNCHANGED <<now, users, minted, granted, ops>>

\* handleDownload / handleDelete: an empty path id is 400; the id is
\* normalised; a width that does not parse is 400 (download only); then
\* imageSvc.Fetch / Delete, where the media service answers not-exist for
\* an unknown id and ErrUnauthorized when the context user is not the
\* owner, both 404; any other error 500.
HandleMedia(c) ==
    /\ pc[c] = "handle" /\ rq[c].op \in {"download", "delete"}
    /\ LET named == Named(NormalizeCrockfordB32LC(rq[c].typed)) IN
       \/ rq[c].typed = <<>> /\ Reply(c, 400) /\ UNCHANGED <<present, faults, granted>>
       \/ /\ rq[c].typed # <<>> /\ rq[c].op = "download" /\ ~rq[c].width
          /\ Reply(c, 400) /\ UNCHANGED <<present, faults, granted>>
       \/ /\ rq[c].typed # <<>> /\ (rq[c].op = "delete" \/ rq[c].width)
          /\ \/ Fault /\ Reply(c, 500) /\ UNCHANGED <<present, granted>>
             \/ /\ ~\E m \in named \cap present : IsOwner(c, m)
                /\ Reply(c, 404) /\ UNCHANGED <<present, faults, granted>>
             \/ \E m \in named \cap present :
                  /\ IsOwner(c, m)
                  /\ present' = IF rq[c].op = "delete" THEN present \ {m} ELSE present
                  /\ granted' = granted \cup {[tok |-> rq[c].tok, m |-> m, at |-> vat[c]]}
                  /\ Reply(c, 200) /\ UNCHANGED faults
    /\ UNCHANGED <<now, users, minted, ops>>

Terminated ==
    /\ ops = MaxOps /\ \A c \in Clients : pc[c] = "idle"
    /\ UNCHANGED vars

Next ==
    \/ Tick
    \/ \E c \in Clients : Begin(c) \/ Register(c) \/ Login(c) \/ Authorize(c)
                          \/ HandleUpload(c) \/ HandleMedia(c)
    \/ Terminated

Spec == Init /\ [][Next]_vars

-----------------------------------------------------------------------------
(* Properties *)

(* Only the owner, with a token the auth service issued and that had not  *)
(* expired when the middleware validated it, downloads or deletes a       *)
(* media: a 200 of handleDownload or handleDelete rests on the whole      *)
(* chain of middleware, auth client, ValidateToken, Login and the media    *)
(* service's owner check, whatever other clients do in between.           *)
OnlyOwnerReachesMedia ==
    \A g \in granted :
        g.tok \in minted /\ g.tok.user = OwnerOf[g.m] /\ g.at <= g.tok.exp

(* The id of every stored media is the Crockford base32 encoding of its  *)
(* hash bytes (MediaMeta.update), also past eight bytes, where the         *)
(* encoder's 64-bit accumulator has overflowed, and in the last partial    *)
(* group.                                                                  *)
EncodeMatchesReference ==
    \A m \in present : Id(m) = ReferenceEncoding(IdBytes[m])

(* A download or delete whose path holds a hand-copied id (capitals, O    *)
(* for 0, I or L for 1, spaces) reaches, after the handler's              *)
(* NormalizeCrockfordB32LC, the media the client meant.                   *)
NormalizeRecoversId ==
    \A c \in Clients :
        pc[c] = "handle" /\ rq[c].op \in {"download", "delete"} /\ rq[c].typed # <<>> =>
            rq[c].m \in Named(NormalizeCrockfordB32LC(rq[c].typed))
=============================================================================

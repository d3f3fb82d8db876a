------------------------------ MODULE JWTSession ------------------------------
(***************************************************************************)
(* middleware/jwt, with the signing of auth/jwt: the session is a token in *)
(* a cookie, the server keeps nothing.  One browser has several requests   *)
(* under way; each answers with the cookie its own handler left behind,    *)
(* and the browser keeps whichever answer it sees last.                    *)
(***************************************************************************)
EXTENDS Integers, Sequences, FiniteSets

CONSTANTS Fetches,     \* requests of the browser that may be under way together
          Expiry,      \* seconds a signed token is valid
          MaxLifetime, \* seconds after which a session is no longer refreshed
          Refresh,     \* sliding expiration
          MaxSessions, \* bound: sessions established
          MaxNow       \* bound: seconds

ASSUME SessionAssumption == /\ Expiry \in Nat \ {0} /\ MaxLifetime \in Nat \ {0}
                            /\ Refresh \in BOOLEAN

VARIABLES now,     \* time in seconds
          jar,     \* the session cookie of the browser
          fetch,   \* per request: where it is, the cookie it carries, its ctxData, its Set-Cookie
          born,    \* history: when each session was established
          over,    \* history: sessions whose sign-out the browser was told of
          overlap  \* history: those of them a request still carried at that moment

sessionVars == <<now, jar, fetch, born, over, overlap>>

NoCookie == [kind |-> "none"]
Deletion == [kind |-> "deletion"]
Token(id, iat0, exp) == [kind |-> "token", id |-> id, iat0 |-> iat0, exp |-> exp]

Idle == [at |-> "idle", cookie |-> NoCookie, claims |-> NoCookie, set |-> FALSE, clear |-> FALSE,
         reply |-> NoCookie, said |-> "nothing"]

SessionInit == /\ now = 0 /\ jar = NoCookie /\ born = <<>> /\ over = {} /\ overlap = {}
               /\ fetch = [r \in Fetches |-> Idle]

TimePasses == /\ now < MaxNow
              /\ now' = now + 1
              /\ UNCHANGED <<jar, fetch, born, over, overlap>>

Send(r) == /\ fetch[r].at = "idle"
           /\ fetch' = [fetch EXCEPT ![r].at = "sent", ![r].cookie = jar]
           /\ UNCHANGED <<now, jar, born, over, overlap>>

-----------------------------------------------------------------------------
(* The server                                                               *)

Verify(cookie) == IF cookie.kind = "token" /\ now < cookie.exp THEN cookie ELSE NoCookie

Wrap(r) == /\ fetch[r].at = "sent"
           /\ fetch' = [fetch EXCEPT ![r].at = "handling", ![r].claims = Verify(fetch[r].cookie)]
           /\ UNCHANGED <<now, jar, born, over, overlap>>

\* The handler establishes a session.
Set(r) == /\ fetch[r].at = "handling"
          /\ Len(born) + Cardinality({q \in Fetches : fetch[q].set}) < MaxSessions
          /\ fetch' = [fetch EXCEPT ![r].set = TRUE, ![r].clear = FALSE, ![r].said = "set"]
          /\ UNCHANGED <<now, jar, born, over, overlap>>

\* Mutant of Clear: the session is forgotten, the cookie is not.
ClearClaims(r) == /\ fetch[r].at = "handling"
                  /\ fetch' = [fetch EXCEPT ![r].set = FALSE, ![r].claims = NoCookie,
                                            ![r].said = "clear"]
                  /\ UNCHANGED <<now, jar, born, over, overlap>>

\* The handler signs the session out.
Clear(r) == /\ fetch[r].at = "handling"
            /\ fetch' = [fetch EXCEPT ![r].set = FALSE, ![r].clear = TRUE,
                                      ![r].claims = NoCookie, ![r].said = "clear"]
            /\ UNCHANGED <<now, jar, born, over, overlap>>

\* Mutant of Refreshed: the sign-in moves to the time of the refresh.
Restamped(c) == Token(c.id, now, now + Expiry)

Refreshed(c) == Token(c.id, c.iat0, now + Expiry)

\* save, at the first byte or when the handler returns: what the handler calls
\* after it changes nothing that is read again.
Save(r) ==
    LET q == fetch[r]
        Answer(cookie) == fetch' = [fetch EXCEPT ![r] =
            [Idle EXCEPT !.at = "answered", !.cookie = q.cookie, !.reply = cookie, !.said = q.said]]
    IN  /\ q.at = "handling"
        /\ IF q.set
             THEN /\ born' = Append(born, now)
                  /\ Answer(Token(Len(born'), now, now + Expiry))
             ELSE /\ Answer(IF q.clear THEN Deletion
                            ELSE IF /\ Refresh /\ q.claims.kind = "token"
                                    /\ now - q.claims.iat0 <= MaxLifetime
                                 THEN Refreshed(q.claims) ELSE NoCookie)
                  /\ UNCHANGED born
        /\ UNCHANGED <<now, jar, over, overlap>>

-----------------------------------------------------------------------------
(* The answers, in any order                                                *)

SignedOut(r) == IF fetch[r].said = "clear" /\ fetch[r].cookie.kind = "token"
                  THEN {fetch[r].cookie.id} ELSE {}

Receive(r) ==
    LET reply == fetch[r].reply
        Others == {fetch[q].cookie.id : q \in {p \in Fetches \ {r} : fetch[p].cookie.kind = "token"}}
    IN  /\ fetch[r].at = "answered"
        /\ jar' = CASE reply.kind = "token" -> reply
                    [] reply.kind = "deletion" -> NoCookie
                    [] OTHER -> jar
        /\ over' = over \cup SignedOut(r)
        /\ overlap' = overlap \cup (SignedOut(r) \cap Others)
        /\ fetch' = [fetch EXCEPT ![r] = Idle]
        /\ UNCHANGED <<now, born>>

\* The connection breaks before the browser has the answer.
Lose(r) == /\ fetch[r].at = "answered"
           /\ fetch' = [fetch EXCEPT ![r] = Idle]
           /\ UNCHANGED <<now, jar, born, over, overlap>>

SessionNext == \/ TimePasses
               \/ \E r \in Fetches : Send(r) \/ Wrap(r) \/ Set(r) \/ Clear(r) \/ Save(r)
                                        \/ Receive(r) \/ Lose(r)

SessionSpec == SessionInit /\ [][SessionNext]_sessionVars

-----------------------------------------------------------------------------
(* Properties                                                               *)

Cookies == {jar} \cup {fetch[r].cookie : r \in Fetches} \cup {fetch[r].reply : r \in Fetches}

\* Sliding expiration (save) never makes a session live longer than its
\* absolute lifetime and one expiry, whatever refreshes are under way together
\* and in whatever order their cookies arrive.
LifetimeCapped == \A c \in Cookies : c.kind = "token" =>
                      c.exp <= born[c.id] + MaxLifetime + Expiry

\* A session that was signed out (Clear) is back in the browser only if another
\* request that carried it was under way when the answer arrived: its refresh
\* (save) signs the user in again.  Without one, sign-out is final.
SignedOutStaysOut == jar.kind = "token" /\ jar.id \in over => jar.id \in overlap
=============================================================================

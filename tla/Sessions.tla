------------------------------ MODULE Sessions ------------------------------
(***************************************************************************)
(* Accounts and their sessions: signup, login, rotation of the refresh     *)
(* token, logout and logout from all devices (backend/app/api/routers/     *)
(* auth.py over backend/app/services/auth_service.py), the rows of         *)
(* refresh_tokens, and the cookie jars of the devices that send these      *)
(* requests, several at a time.                                            *)
(*                                                                         *)
(* Each action is what a request does between two awaits that others can   *)
(* notice.  A transaction shows its writes at the commit (read committed), *)
(* and an UPDATE of a row that another one has written waits for it and    *)
(* then writes all the same: a flush and the commit that follows are one   *)
(* step.  A token is its row's number; its JWT has the lifetime of the row *)
(* and a minute of leeway, so the row decides.  There is no clock: whether *)
(* a token has expired by now is left open wherever the code asks.         *)
(* Passwords have been checked (LoginAdmission).                           *)
(***************************************************************************)
EXTENDS Naturals, FiniteSets

CONSTANTS
    Users, Devices,
    Requests,       \* requests that may be in flight at a time
    Registered,     \* users who have an account at the start
    None,
    TokenBound      \* bound: token pairs issued in a behaviour

ASSUME SessionAssumption ==
    /\ Registered \subseteq Users /\ TokenBound \in Nat
    /\ None \notin Users /\ None \notin Nat /\ None \notin Devices
    /\ None \notin [user : Users, revoked : BOOLEAN, session : Nat]

VARIABLES
    accounts,   \* the rows of users
    token,      \* the rows of refresh_tokens
    cookie,     \* [Devices -> the pair its two cookies hold, which come and go together]
    request,    \* [Requests -> progress of a request]
    ended,      \* history: sessions that were signed out
    forked,     \* history: sessions of which a token was being rotated twice at once
    disturbed   \* history: devices with a lost answer, overlapping requests, or a
                \* token that a sign-out of all devices took away

vars == <<accounts, token, cookie, request, ended, forked, disturbed>>

Ids   == 1 .. TokenBound
\* "session" is history: the number of the login the token descends from.
Token == [user : Users, revoked : BOOLEAN, session : Ids]
Kinds == {"signup", "login", "refresh", "logout", "logout_all"}

\* "targets" is what revoke_all has loaded; "raced" and "sessions" are history: the
\* session was signed out under a rotation; the sessions a sign-out is to end.
Idle == [pc |-> "idle", kind |-> None, device |-> None, user |-> None, id |-> None,
         targets |-> {}, raced |-> FALSE, sessions |-> {}]

Request == [pc : {"register", "issue", "lookup", "rotate", "revoke", "collect", "sweep",
                 "cookies", "clear", "error"},
            kind : Kinds, device : Devices, user : Users \cup {None},
            id : Ids \cup {None}, targets : SUBSET Ids, raced : BOOLEAN,
            sessions : SUBSET Ids]

Issued == {i \in Ids : token[i] # None}
Live   == {i \in Issued : ~token[i].revoked}
InFlight(d) == {r \in Requests : request[r].device = d}

TypeOK ==
    /\ accounts \subseteq Users
    /\ token \in [Ids -> Token \cup {None}]
    /\ \E n \in 0 .. TokenBound : Issued = 1 .. n
    /\ cookie \in [Devices -> Issued \cup {None}]
    /\ request \in [Requests -> Request \cup {Idle}]
    /\ \A r \in Requests :
          /\ request[r].id \in Issued \cup {None} /\ request[r].targets \subseteq Issued
          /\ request[r].pc \in {"lookup", "rotate", "revoke", "cookies"} =>
                request[r].id # None
          /\ request[r].pc \in {"register", "issue"} => request[r].user # None
    /\ ended \subseteq Ids /\ forked \subseteq Ids
    /\ disturbed \subseteq Devices

Init ==
    /\ accounts = Registered
    /\ token = [i \in Ids |-> None]
    /\ cookie = [d \in Devices |-> None]
    /\ request = [r \in Requests |-> Idle]
    /\ ended = {} /\ forked = {} /\ disturbed = {}

-----------------------------------------------------------------------------
(* A device sends a request with the cookies it has.                       *)

Started(kind, d, pc) == [Idle EXCEPT !.pc = pc, !.kind = kind, !.device = d]

Send(r, new) ==
    /\ request[r] = Idle
    /\ request' = [request EXCEPT ![r] = new]
    /\ disturbed' = IF InFlight(new.device) = {} THEN disturbed
                    ELSE disturbed \cup {new.device}
    /\ UNCHANGED <<accounts, token, cookie, ended, forked>>

\* register_user looks for the email: 409 if it is there.
Signup(r, d, u) ==
    Send(r, [Started("signup", d, IF u \in accounts THEN "error" ELSE "register")
             EXCEPT !.user = u])

\* authenticate_user has returned the user.
Login(r, d, u) ==
    /\ u \in accounts
    /\ Send(r, [Started("login", d, "issue") EXCEPT !.user = u])

\* Without the cookie the answer is 401 at once, and nothing happens.
Refresh(r, d) ==
    /\ cookie[d] # None
    /\ Send(r, [Started("refresh", d, "lookup") EXCEPT !.id = cookie[d]])

Logout(r, d) ==
    Send(r, [Started("logout", d, IF cookie[d] = None THEN "clear" ELSE "lookup")
             EXCEPT !.id = cookie[d]])

\* get_current_user: the access token, unless it has expired, names the user.
LogoutAll(r, d) ==
    /\ cookie[d] # None
    /\ Send(r, [Started("logout_all", d, "collect") EXCEPT !.user = token[cookie[d]].user])

-----------------------------------------------------------------------------
(* The handlers.                                                           *)

\* Request r goes from one await to the next with these fields changed.
Step(r, from, new) ==
    /\ request[r].pc = from
    /\ request' = [request EXCEPT ![r] = new]

\* The commit of register_user; the unique index refuses a second row, and that
\* error is not handled.
Register(r) ==
    LET u == request[r].user
    IN  /\ Step(r, "register", [request[r] EXCEPT
                   !.pc = IF u \in accounts THEN "error" ELSE "issue"])
        /\ accounts' = accounts \cup {u}
        /\ UNCHANGED <<token, cookie, ended, forked, disturbed>>

NextId == Cardinality(Issued) + 1

NewToken(u, session) ==
    [user |-> u, revoked |-> FALSE, session |-> session]

\* Mutant: the pair is sent without its row.
IssueWithoutRow(r) ==
    /\ NextId \in Ids
    /\ Step(r, "issue", [request[r] EXCEPT !.pc = "cookies", !.id = NextId])
    /\ UNCHANGED <<accounts, token, cookie, ended, forked, disturbed>>

\* issue_tokens after a signup or a login: a new session.
Issue(r) ==
    /\ NextId \in Ids
    /\ Step(r, "issue", [request[r] EXCEPT !.pc = "cookies", !.id = NextId])
    /\ token' = [token EXCEPT ![NextId] = NewToken(request[r].user, NextId)]
    /\ UNCHANGED <<accounts, cookie, ended, forked, disturbed>>

Rotating(i) == {r \in Requests : request[r].pc = "rotate" /\ request[r].id = i}

\* refresh_access_token reads the row.  A revoked token starts the sign-out of all
\* devices; an expired one is refused.
Lookup(r) ==
    LET i == request[r].id
    IN  /\ request[r].kind = "refresh"
        /\ \E next \in {IF token[i].revoked THEN "collect" ELSE "rotate", "error"} :
              Step(r, "lookup", [request[r] EXCEPT !.pc = next, !.user = token[i].user])
        /\ forked' = IF Rotating(i) = {} THEN forked ELSE forked \cup {token[i].session}
        /\ UNCHANGED <<accounts, token, cookie, ended, disturbed>>

\* Mutant: the old token stays valid.
RotateKeepingOld(r) ==
    LET i == request[r].id
    IN  /\ NextId \in Ids
        /\ Step(r, "rotate", [request[r] EXCEPT !.pc = "cookies", !.id = NextId])
        /\ token' = [token EXCEPT ![NextId] = NewToken(token[i].user,
                        IF request[r].raced THEN NextId ELSE token[i].session)]
        /\ UNCHANGED <<accounts, cookie, ended, forked, disturbed>>

\* stored.revoked = True and issue_tokens, in one transaction.  A rotation that the
\* session's sign-out has overtaken goes on as a session of its own.
Rotate(r) ==
    LET i == request[r].id
    IN  /\ NextId \in Ids
        /\ Step(r, "rotate", [request[r] EXCEPT !.pc = "cookies", !.id = NextId])
        /\ token' = [token EXCEPT ![i].revoked = TRUE,
                        ![NextId] = NewToken(token[i].user,
                           IF request[r].raced THEN NextId ELSE token[i].session)]
        /\ UNCHANGED <<accounts, cookie, ended, forked, disturbed>>

\* History: the rotations in flight of these sessions are overtaken by a sign-out.
Overtaken(sessions, requests) ==
    [q \in Requests |->
        IF requests[q].pc = "rotate" /\ token[requests[q].id].session \in sessions
        THEN [requests[q] EXCEPT !.raced = TRUE] ELSE requests[q]]

\* revoke_refresh_token reads the row; a revoked one it leaves as it is.
LogoutLookup(r) ==
    /\ request[r].kind = "logout"
    /\ Step(r, "lookup", [request[r] EXCEPT
               !.pc = IF token[request[r].id].revoked THEN "clear" ELSE "revoke"])
    /\ UNCHANGED <<accounts, token, cookie, ended, forked, disturbed>>

\* Its commit.  The session is over unless another token of it is alive.
Revoke(r) ==
    LET i    == request[r].id
        over == {token[i].session} \ {token[j].session : j \in Live \ {i}}
    IN  /\ request[r].pc = "revoke"
        /\ token' = [token EXCEPT ![i].revoked = TRUE]
        /\ ended' = ended \cup over
        /\ request' = Overtaken(over, [request EXCEPT ![r].pc = "clear"])
        /\ UNCHANGED <<accounts, cookie, forked, disturbed>>

\* Mutant: only the tokens of the session that asks.
ActiveOfSession(r) ==
    {i \in Live : request[r].id # None /\ token[i].session = token[request[r].id].session}

Active(r) == {i \in Live : token[i].user = request[r].user}

\* revoke_all_refresh_tokens reads the tokens of the user that are not revoked.
Collect(r) ==
    /\ Step(r, "collect", [request[r] EXCEPT !.pc = "sweep", !.targets = Active(r),
               !.sessions = {token[i].session :
                                i \in {j \in Live : token[j].user = request[r].user}}])
    /\ UNCHANGED <<accounts, token, cookie, ended, forked, disturbed>>

\* Its commit.  A token of these sessions that was committed after the SELECT
\* escapes, and is from now on a session of its own.
Sweep(r) ==
    LET me      == request[r]
        escaped == {i \in Live \ me.targets : token[i].session \in me.sessions}
        struck  == {d \in Devices : \/ cookie[d] \in me.targets
                                    \/ \E q \in InFlight(d) : request[q].id \in me.targets}
    IN  /\ me.pc = "sweep"
        /\ token' = [i \in Ids |->
              IF i \in me.targets THEN [token[i] EXCEPT !.revoked = TRUE]
              ELSE IF i \in escaped THEN [token[i] EXCEPT !.session = i] ELSE token[i]]
        /\ ended' = ended \cup me.sessions
        /\ disturbed' = disturbed \cup struck
        /\ request' = Overtaken(me.sessions,
              [request EXCEPT ![r].pc = IF me.kind = "refresh" THEN "error" ELSE "clear",
                              ![r].targets = {}, ![r].sessions = {}])
        /\ UNCHANGED <<accounts, cookie, forked>>

-----------------------------------------------------------------------------
(* The answer, and its loss.                                               *)

\* Mutant: signing out leaves the cookies in place.
CookiesKept(r) ==
    IF request[r].pc = "cookies" THEN request[r].id ELSE cookie[request[r].device]

\* _set_auth_cookies, _clear_auth_cookies; an error raised leaves the cookies alone.
Cookies(r) ==
    CASE request[r].pc = "cookies" -> request[r].id
      [] request[r].pc = "clear" -> None
      [] OTHER -> cookie[request[r].device]

Receive(r) ==
    /\ request[r].pc \in {"cookies", "clear", "error"}
    /\ cookie' = [cookie EXCEPT ![request[r].device] = Cookies(r)]
    /\ request' = [request EXCEPT ![r] = Idle]
    /\ UNCHANGED <<accounts, token, ended, forked, disturbed>>

\* The worker dies at an await, or the answer is lost after the commit.
Lose(r) ==
    /\ request[r] # Idle
    /\ request' = [request EXCEPT ![r] = Idle]
    /\ disturbed' = disturbed \cup {request[r].device}
    /\ UNCHANGED <<accounts, token, cookie, ended, forked>>

DeviceStep(r, d) ==
    \/ \E u \in Users : Signup(r, d, u) \/ Login(r, d, u)
    \/ Refresh(r, d) \/ Logout(r, d) \/ LogoutAll(r, d)

HandlerStep(r) ==
    \/ Register(r) \/ Issue(r) \/ Lookup(r) \/ Rotate(r) \/ LogoutLookup(r)
    \/ Revoke(r) \/ Collect(r) \/ Sweep(r)

Next ==
    \/ \E r \in Requests, d \in Devices : DeviceStep(r, d)
    \/ \E r \in Requests : HandlerStep(r) \/ Receive(r) \/ Lose(r)

Spec == Init /\ [][Next]_vars

-----------------------------------------------------------------------------
(* Properties.                                                             *)

\* "signing out all sessions" (auth_service.py:203), and of one: no token of a
\* session that was signed out is alive afterwards, whatever was in flight, but for
\* the tokens that a rotation already under way brings, and those are told apart.
SignOutEndsSessions == \A i \in Live : token[i].session \notin ended

\* Rotation leaves one live token to a session (auth_service.py:142), unless two
\* rotations of one token were under way together.
OneLiveTokenPerSession ==
    \A i, j \in Live : token[i].session = token[j].session => i = j \/ token[i].session \in forked

\* A device that sends one request at a time, gets every answer and was not signed
\* out from elsewhere is never taken for a replay (auth_service.py:171): the sign-out
\* of all devices by a refresh always goes back to a lost answer, an overlap or an
\* earlier sign-out.
ReuseMeansDisturbance ==
    \A r \in Requests : request[r].kind = "refresh" /\ request[r].pc \in {"collect", "sweep"}
        => request[r].device \in disturbed
=============================================================================

---------------------------- MODULE ClientSession ----------------------------
(***************************************************************************)
(* Who is signed in, as one tab shows it (frontend/lib/AuthContext.tsx,    *)
(* with the login and signup pages, the Logout of NavBar.tsx and the       *)
(* student-mode opt-in of exam-prep/page.tsx), over the cookies of the     *)
(* browser and the profile rows that update_profile (backend/app/services/ *)
(* auth_service.py) writes.  Requests overlap, their answers come in any   *)
(* order or not at all, and another device changes the same profile.       *)
(*                                                                         *)
(* The provider lives as long as the tab: /me is asked once, at the start. *)
(* The tab never refreshes its tokens, so a cookie that has run out stays  *)
(* gone until the next login.  Passwords and tokens are in LoginAdmission  *)
(* and Sessions; other tabs of the browser are not modelled.               *)
(***************************************************************************)
EXTENDS Naturals

CONSTANTS
    Users, None,
    Calls,        \* requests under way at a time, of the tab and of other devices
    Elsewhere,    \* the PATCHes of /me that other devices send
    ClickBound,   \* bound: requests sent after the first /me
    UpdateBound   \* bound: profile updates sent in a behaviour

\* "track" is whether the account has an exam track: there is one.  "version" is
\* history: the number of updates committed.
Row     == [student : BOOLEAN, track : BOOLEAN, version : 0 .. UpdateBound]
Profile == [id : Users, row : Row]
\* The fields of a PATCH; None is one that is not set.
Change  == [student : BOOLEAN \cup {None}, track : BOOLEAN \cup {None}]
Kinds   == {"me", "login", "logout", "patch"}

ASSUME ClientAssumption ==
    /\ ClickBound \in Nat /\ UpdateBound \in Nat /\ Calls # {}
    /\ None \notin Users /\ None \notin BOOLEAN /\ None \notin Kinds
    /\ None \notin Row /\ None \notin Profile
    /\ Elsewhere \subseteq Change

VARIABLES
    account,     \* [Users -> the columns is_student and exam_track of users]
    cookie,      \* the user of the access token in the browser's jar
    page,        \* AuthContext: the user shown, loading, requestIdRef
    call,        \* [Calls -> a request under way]
    clicks,      \* requests sent after the first /me
    updates,     \* profile updates among them
    doubt,       \* history: why the tab may show something else than the cookie's user
    raced        \* history: users two of whose profile updates overlapped

vars == <<account, cookie, page, call, clicks, updates, doubt, raced>>

\* "ours": the tab waits for the answer.  "as": the user of the cookie sent, or who
\* logs in.  "stamp": requestId of /me.  "base": the row update_profile has loaded.
\* "crossed" is history: the tab took another user or profile while this was under way.
Idle == [kind |-> None, pc |-> "idle", ours |-> FALSE, as |-> None, stamp |-> 0,
         change |-> [student |-> None, track |-> None], base |-> None, answer |-> None,
         crossed |-> FALSE]
Call == [kind : Kinds, pc : {"sent", "loaded", "committed", "answered", "refused"},
         ours : BOOLEAN, as : Users \cup {None}, stamp : 0 .. ClickBound + 1,
         change : Change, base : Row \cup {None}, answer : Profile \cup {None},
         crossed : BOOLEAN]

TypeOK ==
    /\ account \in [Users -> Row]
    /\ cookie \in Users \cup {None}
    /\ page \in [user : Profile \cup {None}, loading : BOOLEAN, requestId : 1 .. ClickBound + 1]
    /\ call \in [Calls -> Call \cup {Idle}]
    /\ \A c \in Calls :
          /\ call[c].pc \in {"loaded", "committed"} => call[c].base # None
          /\ call[c].pc = "answered" /\ call[c].kind # "logout" =>
                call[c].answer # None /\ call[c].answer.id = call[c].as
    /\ clicks \in 0 .. ClickBound /\ updates \in 0 .. UpdateBound
    /\ doubt \subseteq {"lapsed", "blind", "crossed"}
    /\ raced \subseteq Users

Sent(kind, as) == [Idle EXCEPT !.kind = kind, !.pc = "sent", !.ours = TRUE, !.as = as]

\* register_user gives a track to students; the tab mounts and asks for /me.
Init ==
    /\ account \in [Users -> {[student |-> s, track |-> s, version |-> 0] : s \in BOOLEAN}]
    /\ cookie \in Users \cup {None}
    /\ page = [user |-> None, loading |-> TRUE, requestId |-> 1]
    /\ \E first \in Calls :
          call = [c \in Calls |->
                     IF c = first THEN [Sent("me", cookie) EXCEPT !.stamp = 1] ELSE Idle]
    /\ clicks = 0 /\ updates = 0 /\ doubt = {} /\ raced = {}

-----------------------------------------------------------------------------
(* The user clicks.                                                        *)

Send(c, new) ==
    /\ call[c] = Idle /\ clicks < ClickBound
    /\ call' = [call EXCEPT ![c] = new]
    /\ clicks' = clicks + 1
    /\ UNCHANGED <<account, cookie, page, doubt, raced>>

\* The login and the signup form, which the tab shows whether or not /me has come
\* back; the button is disabled while one is being submitted.
Login(c, u) ==
    /\ \A d \in Calls : call[d].kind # "login"
    /\ Send(c, Sent("login", u))
    /\ UNCHANGED updates

\* NavBar shows the button to a signed-in user.
Logout(c) ==
    /\ ~page.loading /\ page.user # None
    /\ Send(c, Sent("logout", cookie))
    /\ UNCHANGED updates

\* StudentModeUpsell; leaving the page and coming back offers the button again.
Enable(c) ==
    /\ ~page.loading /\ page.user # None /\ ~page.user.row.student
    /\ updates < UpdateBound
    /\ Send(c, [Sent("patch", cookie) EXCEPT !.change = [student |-> TRUE, track |-> TRUE]])
    /\ updates' = updates + 1

\* PATCH /me from another device.
PatchElsewhere(c, u, change) ==
    /\ updates < UpdateBound
    /\ Send(c, [Sent("patch", u) EXCEPT !.ours = FALSE, !.change = change])
    /\ updates' = updates + 1

-----------------------------------------------------------------------------
(* The server.                                                             *)

Advance(c, new) ==
    /\ call' = [call EXCEPT ![c] = new]
    /\ UNCHANGED <<cookie, page, clicks, updates, doubt>>

Known(u) == [id |-> u, row |-> account[u]]

\* get_current_user: 401 without a cookie.  Login reads the user as well (a refusal is
\* a Fail), logout needs none; update_profile has its row loaded.
Serve(c) ==
    LET me == call[c]
    IN  /\ me.pc = "sent"
        /\ Advance(c,
              CASE me.kind = "logout" -> [me EXCEPT !.pc = "answered"]
                [] me.kind # "logout" /\ me.as = None -> [me EXCEPT !.pc = "refused"]
                [] me.kind \in {"me", "login"} /\ me.as # None ->
                      [me EXCEPT !.pc = "answered", !.answer = Known(me.as)]
                [] OTHER -> [me EXCEPT !.pc = "loaded", !.base = account[me.as]])
        /\ UNCHANGED <<account, raced>>

\* Mutant: the track is left to the client.
PatchedAsAsked(base, change) ==
    [base EXCEPT !.student = IF change.student = None THEN @ ELSE change.student,
                 !.track = IF change.track = None THEN @ ELSE change.track]

\* Mutant: the fields that were not set are written as well.
PatchedWithUnset(base, change) ==
    [base EXCEPT !.student = change.student, !.track = change.track]

\* The fields that were set, and a track for a student who has none.
Patched(base, change) ==
    LET student == IF change.student = None THEN base.student ELSE change.student
        track   == IF change.track = None THEN base.track ELSE change.track
    IN  [base EXCEPT !.student = student, !.track = track \/ student]

\* The UPDATE names the columns that differ from the row loaded.
CommitPatch(c) ==
    LET me  == call[c]
        new == Patched(me.base, me.change)
        row == account[me.as]
    IN  /\ me.pc = "loaded"
        /\ account' = [account EXCEPT ![me.as] =
              [student |-> IF new.student # me.base.student THEN new.student ELSE row.student,
               track |-> IF new.track # me.base.track THEN new.track ELSE row.track,
               version |-> row.version + 1]]
        /\ raced' = IF me.base = row THEN raced ELSE raced \cup {me.as}
        /\ Advance(c, [me EXCEPT !.pc = "committed"])

\* db.refresh and the answer.  Nobody looks at the answers other devices get.
AnswerPatch(c) ==
    /\ call[c].pc = "committed"
    /\ Advance(c, IF call[c].ours
                  THEN [call[c] EXCEPT !.pc = "answered", !.answer = Known(call[c].as)]
                  ELSE Idle)
    /\ UNCHANGED <<account, raced>>

-----------------------------------------------------------------------------
(* The answers, as AuthContext takes them.                                 *)

\* History: the requests of the tab under way are overtaken by what it takes now.
Overtaken(c) ==
    [d \in Calls |->
        IF d = c THEN Idle
        ELSE IF call[d].ours /\ call[d].kind \in {"login", "patch"}
             THEN [call[d] EXCEPT !.crossed = TRUE] ELSE call[d]]

\* Mutant: only a refresh counts as a request, so /me may still come.
SetUserUncounted(profile) ==
    page' = [page EXCEPT !.user = profile, !.loading = FALSE]

\* setUser: a /me under way is outdated by it.
SetUser(profile) ==
    page' = [page EXCEPT !.user = profile, !.loading = FALSE, !.requestId = @ + 1]

\* Mutant: whatever comes back is shown.
RefreshUnguarded(c, user) ==
    page' = [page EXCEPT !.user = user, !.loading = FALSE]

\* The end of refresh(): the answer counts if nothing was taken since it was asked.
Refresh(c, user) ==
    page' = IF page.requestId = call[c].stamp
            THEN [page EXCEPT !.user = user, !.loading = FALSE] ELSE page

ReceiveMe(c) ==
    /\ call[c].kind = "me" /\ call[c].pc \in {"answered", "refused"}
    /\ Refresh(c, IF call[c].pc = "answered" THEN call[c].answer ELSE None)
    /\ call' = Overtaken(c)
    /\ UNCHANGED <<account, cookie, clicks, updates, doubt, raced>>

\* The cookies come with the answer.
ReceiveLogin(c) ==
    /\ call[c].kind = "login" /\ call[c].pc = "answered"
    /\ cookie' = call[c].as
    /\ SetUser(call[c].answer)
    /\ call' = Overtaken(c)
    /\ doubt' = {}
    /\ UNCHANGED <<account, clicks, updates, raced>>

ReceiveLogout(c) ==
    /\ call[c].kind = "logout" /\ call[c].pc = "answered"
    /\ cookie' = None
    /\ page' = [page EXCEPT !.user = None, !.requestId = @ + 1]
    /\ call' = Overtaken(c)
    /\ doubt' = {}
    /\ UNCHANGED <<account, clicks, updates, raced>>

\* The opt-in shows the updated profile, whoever is signed in by then.
ReceivePatch(c) ==
    /\ call[c].kind = "patch" /\ call[c].pc = "answered"
    /\ SetUser(call[c].answer)
    /\ call' = Overtaken(c)
    /\ doubt' = IF call[c].crossed THEN doubt \cup {"crossed"} ELSE doubt \ {"crossed"}
    /\ UNCHANGED <<account, cookie, clicks, updates, raced>>

\* Any other answer, or none.  /me ends the loading and shows nobody new; the others
\* show an error at most.  A PATCH the tab has given up may still be served.
Fail(c) ==
    /\ call[c].ours \/ call[c].pc = "refused"
    /\ \/ call' = [call EXCEPT ![c] = Idle]
       \/ /\ call[c].kind = "patch" /\ call[c].pc \in {"sent", "loaded", "committed"}
          /\ call' = [call EXCEPT ![c].ours = FALSE]
    /\ IF call[c].kind = "me" /\ page.requestId = call[c].stamp
       THEN page' = [page EXCEPT !.loading = FALSE] /\ doubt' = doubt \cup {"blind"}
       ELSE UNCHANGED <<page, doubt>>
    /\ UNCHANGED <<account, cookie, clicks, updates, raced>>

\* The access token reaches its max_age.
Lapse ==
    /\ cookie # None
    /\ cookie' = None
    /\ doubt' = doubt \cup {"lapsed"}
    /\ UNCHANGED <<account, page, call, clicks, updates, raced>>

Click(c) ==
    \/ \E u \in Users : Login(c, u)
    \/ Logout(c)
    \/ Enable(c)
    \/ \E u \in Users, change \in Elsewhere : PatchElsewhere(c, u, change)

Answer(c) == ReceiveMe(c) \/ ReceiveLogin(c) \/ ReceiveLogout(c) \/ ReceivePatch(c)
Settle(c) == Serve(c) \/ CommitPatch(c) \/ AnswerPatch(c) \/ Answer(c)

Next ==
    \/ \E c \in Calls : Click(c) \/ Settle(c) \/ Fail(c)
    \/ Lapse

Spec == Init /\ [][Next]_vars

-----------------------------------------------------------------------------
(* Properties.                                                             *)

\* The tab shows the user its requests are made as, and nobody when there is none,
\* in whatever order the answers came; unless the cookie ran out, the /me of the start
\* failed, or the last profile shown came from a PATCH that a login, a logout or
\* another PATCH had overtaken (exam-prep/page.tsx:125 does not look).  The pages stay
\* blank and NavBar offers nothing only as long as the /me that will end it is under
\* way: no answer outdates it without ending the loading itself.
ShownIsSignedIn ==
    IF page.loading
    THEN \E c \in Calls : call[c].kind = "me" /\ call[c].stamp = page.requestId
    ELSE doubt = {} => cookie = IF page.user = None THEN None ELSE page.user.id

\* "so it can't clobber this update with an older response" (AuthContext.tsx:45): an
\* answer never replaces the profile shown by an older one of the same user, unless
\* it is the answer to a request of the user's that another one has overtaken.
NeverOlder ==
    [][\A c \in Calls :
          /\ Answer(c) /\ ~call[c].crossed
          /\ page.user # None /\ page'.user # None /\ page.user.id = page'.user.id
          => page'.user.row.version >= page.user.row.version]_vars

\* A student has an exam track ("otherwise leave the account with no subjects to
\* query", auth_service.py:105), unless two updates of the profile overlapped.
StudentHasTrack ==
    \A u \in Users \ raced : account[u].student => account[u].track
=============================================================================

--------------------------- MODULE SubscriptionGate ---------------------------
(***************************************************************************)
(* The subscription gate of one user: _enforce_active_subscription of      *)
(* app.py lets a request in by what the signed session of the browser says *)
(* of the subscription; the requests that change a subscription reach a    *)
(* live session through two Redis sets, revoked_users and                  *)
(* subscription_recheck_users.  One of them, the admin's change of a code,  *)
(* tells neither.                                                          *)
(*                                                                         *)
(* Every response carries the session its request ended with               *)
(* (SESSION_REFRESH_EACH_REQUEST), so that the last response a browser     *)
(* gets is the session it sends next.  A subscription is the day it ends,  *)
(* trial included; "unlimited" is a day that never comes.                  *)
(***************************************************************************)
EXTENDS Naturals, FiniteSets

CONSTANTS
    Browser,        \* where the user is logged in
    Request,        \* requests of the user served at the same time
    Horizon,        \* bound on the clock
    Overlap         \* may a change begin before the last reached a session

ASSUME GateAssumption == Horizon \in Nat /\ Overlap \in BOOLEAN

VARIABLES
    end,        \* the subscription in the database
    now,
    recheck,    \* is the user in subscription_recheck_users
    revoked,    \* who put the user in revoked_users, "nobody"
    cookie,     \* Browser -> the end its session tells
    req,        \* Request -> the request of a browser being served
    change,     \* the request of the admin or of Payme being served
    coded,      \* has the user an activation of a code in its log
    unseen      \* ghost: has a code been shortened that no session has read since

vars == <<end, now, recheck, revoked, cookie, req, change, coded, unseen>>

Forever == Horizon + 1
Ends == 0..Forever
Active(e) == e > now

Idle == [kind |-> "none"]
Serving == [kind : {"page", "login", "activate"}, browser : Browser, session : Ends,
            step : {"flags", "read", "clear", "commit", "mark", "unrevoke", "respond"},
            pending : BOOLEAN, served : BOOLEAN]
Change == [kind : {"grant"}, step : {"mark", "unrevoke"}]
          \cup [kind : {"clear"}, step : {"mark", "status", "revoke", "unrevoke"}]
          \cup [kind : {"chargeback"}, step : {"mark", "revoke"}]

TypeOK ==
    /\ end \in Ends /\ now \in 0..Horizon
    /\ recheck \in BOOLEAN /\ revoked \in {"nobody", "clear", "chargeback"}
    /\ cookie \in [Browser -> Ends]
    /\ req \in [Request -> Serving \cup {Idle}]
    /\ change \in Change \cup {Idle}
    /\ coded \in BOOLEAN /\ unseen \in BOOLEAN

Init ==
    /\ end \in Ends /\ now = 0
    /\ recheck = FALSE /\ revoked = "nobody"
    /\ cookie = [b \in Browser |-> 0]
    /\ req = [r \in Request |-> Idle]
    /\ change = Idle
    /\ coded \in BOOLEAN /\ unseen = FALSE

------------------------------------------------------------------------------
(* Requests of the user.                                                   *)

At(r, kinds, step) == req[r] # Idle /\ req[r].kind \in kinds /\ req[r].step = step
Goto(r, step) == req' = [req EXCEPT ![r].step = step]

Writing == \E r \in Request : req[r] # Idle /\ req[r].kind = "activate"

Send(r, b, kind) ==
    /\ req[r] = Idle
    /\ kind = "activate" => Overlap \/ (change = Idle /\ ~recheck)
    /\ req' = [req EXCEPT ![r] =
                 [kind |-> kind, browser |-> b, session |-> cookie[b],
                  step |-> CASE kind = "page" -> "flags" [] kind = "login" -> "read"
                             [] OTHER -> "commit",
                  pending |-> FALSE, served |-> FALSE]]
    /\ UNCHANGED <<end, now, recheck, revoked, cookie, change, coded, unseen>>

\* subscription_gate_state, then the fast path over the session.
GateFlags(r) ==
    /\ At(r, {"page"}, "flags")
    /\ req' = [req EXCEPT ![r] =
         IF revoked # "nobody" THEN [@ EXCEPT !.step = "respond"]
         ELSE IF ~recheck /\ Active(@.session)
              THEN [@ EXCEPT !.step = "respond", !.served = TRUE]
              ELSE [@ EXCEPT !.step = "read", !.pending = recheck]]
    /\ UNCHANGED <<end, now, recheck, revoked, cookie, change, coded, unseen>>

\* The slow path: the session mirrors the database.  Also a login.
ReadsStatus(r) ==
    /\ At(r, {"page", "login"}, "read")
    /\ req' = [req EXCEPT ![r].session = end, ![r].served = Active(end),
                  ![r].step = IF req[r].kind = "login" THEN "unrevoke"
                              ELSE IF req[r].pending THEN "clear" ELSE "respond"]
    /\ unseen' = FALSE
    /\ UNCHANGED <<end, now, recheck, revoked, cookie, change, coded>>

\* clear_user_recheck
GateClears(r) ==
    /\ At(r, {"page"}, "clear")
    /\ recheck' = FALSE
    /\ Goto(r, "respond")
    /\ UNCHANGED <<end, now, revoked, cookie, change, coded, unseen>>

\* subscription_page: the code is activated and the session told of it.
ActivateCommits(r, e) ==
    /\ At(r, {"activate"}, "commit")
    /\ Active(e)
    /\ end' = e /\ coded' = TRUE /\ unseen' = FALSE
    /\ req' = [req EXCEPT ![r].session = e, ![r].step = "mark"]
    /\ UNCHANGED <<now, recheck, revoked, cookie, change>>

ActivateMarks(r) ==
    /\ At(r, {"activate"}, "mark")
    /\ recheck' = TRUE
    /\ Goto(r, "unrevoke")
    /\ UNCHANGED <<end, now, revoked, cookie, change, coded, unseen>>

\* unrevoke_user, the last call of an activation and of a login.
Unrevokes(r) ==
    /\ At(r, {"login", "activate"}, "unrevoke")
    /\ revoked' = "nobody"
    /\ Goto(r, "respond")
    /\ UNCHANGED <<end, now, recheck, cookie, change, coded, unseen>>

Respond(r) ==
    /\ At(r, {"page", "login", "activate"}, "respond")
    /\ cookie' = [cookie EXCEPT ![req[r].browser] = req[r].session]
    /\ req' = [req EXCEPT ![r] = Idle]
    /\ UNCHANGED <<end, now, recheck, revoked, change, coded, unseen>>

------------------------------------------------------------------------------
(* Requests that change the subscription: the admin's set and Payme's      *)
(* perform ("grant"), the admin's delete ("clear"), and Payme's cancel of  *)
(* a completed transaction ("chargeback").  The admin's set and delete      *)
(* empty the user's log of codes, Payme's requests leave it alone.         *)

Commit(kind, e) ==
    /\ change = Idle
    /\ Overlap \/ (~recheck /\ ~Writing)
    /\ kind = "grant" => Active(e)
    /\ kind # "grant" => e <= end
    /\ end' = e
    /\ coded' \in CASE kind = "grant" -> {coded, FALSE}
                     [] kind = "clear" -> {FALSE}
                     [] OTHER -> {coded}
    /\ change' = [kind |-> kind, step |-> "mark"]
    /\ UNCHANGED <<now, recheck, revoked, cookie, req, unseen>>

\* Mutant of Mark: a chargeback is served as the admin's delete is.
MarkAsDelete ==
    /\ change # Idle /\ change.step = "mark"
    /\ recheck' = TRUE
    /\ change' = [change EXCEPT !.step = IF change.kind = "grant" THEN "unrevoke"
                                         ELSE "status"]
    /\ UNCHANGED <<end, now, revoked, cookie, req, coded, unseen>>

\* Mutant of Mark: the sessions are not told.
MarkNot ==
    /\ change # Idle /\ change.step = "mark"
    /\ change' = [change EXCEPT !.step = CASE change.kind = "grant" -> "unrevoke"
                                           [] change.kind = "clear" -> "status"
                                           [] OTHER -> "revoke"]
    /\ UNCHANGED <<end, now, recheck, revoked, cookie, req, coded, unseen>>

\* _invalidate_user_ctx_cache
Mark ==
    /\ change # Idle /\ change.step = "mark"
    /\ recheck' = TRUE
    /\ change' = [change EXCEPT !.step = CASE change.kind = "grant" -> "unrevoke"
                                           [] change.kind = "clear" -> "status"
                                           [] OTHER -> "revoke"]
    /\ UNCHANGED <<end, now, revoked, cookie, req, coded, unseen>>

\* Mutant of ClearReadsStatus: a cleared user is blocked whatever is left.
ClearRevokesAlways ==
    /\ change # Idle /\ change.step = "status"
    /\ change' = [change EXCEPT !.step = "revoke"]
    /\ UNCHANGED <<end, now, recheck, revoked, cookie, req, coded, unseen>>

\* The admin's delete blocks the user only when nothing is left.
ClearReadsStatus ==
    /\ change # Idle /\ change.step = "status"
    /\ change' = [change EXCEPT !.step = IF Active(end) THEN "unrevoke" ELSE "revoke"]
    /\ UNCHANGED <<end, now, recheck, revoked, cookie, req, coded, unseen>>

\* Mutant of Unrevoke: a stale block survives the grant.
UnrevokeNot ==
    /\ change # Idle /\ change.step = "unrevoke"
    /\ change' = Idle
    /\ UNCHANGED <<end, now, recheck, revoked, cookie, req, coded, unseen>>

\* unrevoke_user; the admin's delete marks the user once more.
Unrevoke ==
    /\ change # Idle /\ change.step = "unrevoke"
    /\ revoked' = "nobody"
    /\ recheck' = (recheck \/ change.kind = "clear")
    /\ change' = Idle
    /\ UNCHANGED <<end, now, cookie, req, coded, unseen>>

Revoke ==
    /\ change # Idle /\ change.step = "revoke"
    /\ revoked' = change.kind
    /\ change' = Idle
    /\ UNCHANGED <<end, now, recheck, cookie, req, coded, unseen>>

\* update_code: who has used the code has its log replayed, to an end that may be
\* earlier or later, and no flag is set.
UpdateCode(e) ==
    /\ coded
    /\ end' = e
    /\ unseen' = (unseen \/ e < end)
    /\ UNCHANGED <<now, recheck, revoked, cookie, req, change, coded>>

DayPasses ==
    /\ now < Horizon
    /\ now' = now + 1
    /\ UNCHANGED <<end, recheck, revoked, cookie, req, change, coded, unseen>>

------------------------------------------------------------------------------

ServeStep(r) ==
    \/ GateFlags(r) \/ ReadsStatus(r) \/ GateClears(r)
    \/ \E e \in Ends : ActivateCommits(r, e)
    \/ ActivateMarks(r) \/ Unrevokes(r) \/ Respond(r)

ChangeStep == Mark \/ ClearReadsStatus \/ Unrevoke \/ Revoke

SendPage(b) == \E r \in Request : Send(r, b, "page")

Next ==
    \/ \E r \in Request, b \in Browser, kind \in {"page", "login", "activate"} : Send(r, b, kind)
    \/ \E r \in Request : ServeStep(r)
    \/ \E kind \in {"grant", "clear", "chargeback"}, e \in Ends : Commit(kind, e)
    \/ ChangeStep
    \/ \E e \in Ends : UpdateCode(e)
    \/ DayPasses

Spec == Init /\ [][Next]_vars

\* The server serves what it took; the user goes on asking for pages.
FairSpec ==
    /\ Spec
    /\ WF_vars(ChangeStep)
    /\ \A r \in Request : WF_vars(ServeStep(r))
    /\ \A b \in Browser : SF_vars(SendPage(b))

------------------------------------------------------------------------------
(* Properties                                                              *)

Quiet == change = Idle /\ \A r \in Request : req[r] = Idle

\* A change that flags the user reaches the live session: once nothing is being
\* served and the user need not be rechecked, no browser holds a session that
\* would let it in when the database says the subscription has ended.  Only a
\* code that was shortened (update_code) leaves such a session behind, until
\* one is read again from the database.
ChangeReaches ==
    Quiet /\ ~recheck /\ ~unseen => \A b \in Browser : Active(cookie[b]) => Active(end)

\* The admin's delete leaves nobody blocked who still has the trial or was
\* given a subscription since.
NotBlocked ==
    change = Idle /\ ~Writing /\ revoked = "clear" => ~Active(end)

\* A user with access who goes on asking is let in, whatever flags and sessions
\* earlier changes left behind, unless Payme took money back.
LetIn(b) == \E r \in Request : req[r] # Idle /\ req[r].browser = b /\ req[r].served
Granted == end = Forever /\ change = Idle /\ ~Writing /\ revoked # "chargeback"
ServedAgain == \A b \in Browser : Granted ~> (LetIn(b) \/ ~Granted)
==============================================================================

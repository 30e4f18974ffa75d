--------------------------- MODULE SubscriptionCodes ---------------------------
(***************************************************************************)
(* Activation codes and the admin's subscription page: the code requests   *)
(* of core/subscriptions.py, admin/routes.py and auth/routes.py.           *)
(*                                                                         *)
(* An activation reads the user and the code, and commits what it computed *)
(* from them; it locks nothing.  A request of the admin is one step.  A    *)
(* request takes no time compared to a day.                                *)
(*                                                                         *)
(* The specification is CodesSpec: SubscriptionProofs extends this module  *)
(* together with SubscriptionGate, which has a Spec of its own.            *)
(***************************************************************************)
EXTENDS SubscriptionState, FiniteSets, Sequences

CONSTANTS
    User,
    Code,           \* codes the admin may ever create (bound)
    Durations,      \* duration options: records days, unlimited
    Limits,         \* values of max_activations
    Worker,         \* requests served at the same time
    MaxLog,         \* bound on the rows of the activation log
    MaxEnd,         \* bound: the admin extends no end beyond it
    LastDay         \* bound on the clock

\* code_id NULL: a subscription the admin set.
ByAdmin == "admin"

ASSUME CodesAssumption ==
    /\ Durations \subseteq [days : Nat, unlimited : BOOLEAN]
    /\ \A d \in Durations : d.unlimited \/ d.days > 0
    /\ Limits \subseteq Nat \ {0} /\ ByAdmin \notin Code
    /\ MaxLog \in Nat /\ MaxEnd \in Nat /\ LastDay \in Nat

VARIABLES
    user,       \* User -> subscription_expires_at, subscription_is_unlimited
    code,       \* Code -> row of subscription_codes
    log,        \* User -> the rows of subscription_code_activations by activated_at, id
    today,
    call        \* Worker -> the activation it serves

codesVars == <<user, code, log, today, call>>

CodeRow == [duration : Durations, max : Limits, used : Nat]
NoCode == [used |-> -1]
LogRow == [code : Code \cup {ByAdmin}, at : Nat, granted : Subscription]
NoCall == [user |-> "nobody"]
Activation == [user : User, code : Code, seen_user : Subscription, seen_code : CodeRow]

Live(c) == code[c] # NoCode
RowsOf(u, c) == {i \in DOMAIN log[u] : log[u][i].code = c}
UsersOf(c) == {u \in User : RowsOf(u, c) # {}}
LogLength == Cardinality(UNION {{u} \X DOMAIN log[u] : u \in User})

CodesTypeOK ==
    /\ user \in [User -> Subscription]
    /\ code \in [Code -> CodeRow \cup {NoCode}]
    /\ log \in [User -> Seq(LogRow)]
    /\ \A c \in Code : UsersOf(c) # {} => Live(c)     \* the foreign key
    /\ today \in 0..LastDay
    /\ call \in [Worker -> Activation \cup {NoCall}]

CodesInit ==
    /\ user = [u \in User |-> NoSubscription]
    /\ code = [c \in Code |-> NoCode]
    /\ log = [u \in User |-> <<>>]
    /\ today = 0
    /\ call = [w \in Worker |-> NoCall]

------------------------------------------------------------------------------
(* A user activates a code.                                                *)

\* The subscription _activate_subscription_code leaves.
Activated(sub, d) ==
    IF d.unlimited THEN Unlimited
    ELSE [until |-> Extended(sub, d.days, today), unlimited |-> FALSE]

ActivationReads(w, u, c) ==
    /\ call[w] = NoCall /\ Live(c)
    /\ code[c].used < code[c].max
    /\ call' = [call EXCEPT ![w] = [user |-> u, code |-> c, seen_user |-> user[u],
                                    seen_code |-> code[c]]]
    /\ UNCHANGED <<user, code, log, today>>

\* The UPDATE of the user names the columns that differ from the row as read;
\* a code that is gone fails the whole commit.
ActivationCommits(w) ==
    LET a == call[w]
        new == Activated(a.seen_user, a.seen_code.duration)
    IN
    /\ a # NoCall
    /\ IF Live(a.code) /\ LogLength < MaxLog
       THEN /\ user' = [user EXCEPT ![a.user] =
                  [until |-> IF new.until = a.seen_user.until THEN @.until ELSE new.until,
                   unlimited |-> IF new.unlimited = a.seen_user.unlimited
                                 THEN @.unlimited ELSE new.unlimited]]
            /\ code' = [code EXCEPT ![a.code].used = a.seen_code.used + 1]
            /\ log' = [log EXCEPT ![a.user] =
                  Append(@, [code |-> a.code, at |-> today, granted |-> new])]
       ELSE UNCHANGED <<user, code, log>>
    /\ call' = [call EXCEPT ![w] = NoCall]
    /\ UNCHANGED today

------------------------------------------------------------------------------
(* The replay of the activation log.                                       *)

\* _apply_subscription_code_to_state at the time of the activation.
Applied(sub, at, d) ==
    IF d.unlimited THEN Unlimited
    ELSE [until |-> Extended(sub, d.days, at), unlimited |-> FALSE]

\* Mutant of Step: rows the admin set are passed over.
StepOfCodes(sub, row, duration) ==
    IF row.code = ByAdmin THEN sub ELSE Applied(sub, row.at, duration[row.code])

\* One row of the log, with these durations of the codes.
Step(sub, row, duration) ==
    IF row.code = ByAdmin THEN row.granted ELSE Applied(sub, row.at, duration[row.code])

\* The subscription after each of these rows of one user, and after them all.
Steps(rows, duration) ==
    LET after[i \in 0..Len(rows)] ==
            IF i = 0 THEN NoSubscription ELSE Step(after[i - 1], rows[i], duration)
    IN  after
Replayed(rows, duration) == Steps(rows, duration)[Len(rows)]

\* The rows as the replay writes them back: each with what it granted.
Regranted(rows, duration) ==
    [i \in DOMAIN rows |-> [rows[i] EXCEPT !.granted = Steps(rows, duration)[i]]]

\* _recalculate_subscription_for_user for each of the users.
Recalculated(affected, duration) ==
    /\ user' = [u \in User |-> IF u \in affected THEN Replayed(log[u], duration) ELSE user[u]]
    /\ log' = [u \in User |-> IF u \in affected THEN Regranted(log[u], duration) ELSE log[u]]

------------------------------------------------------------------------------
(* The admin's page.                                                       *)

AdminServed == \E w \in Worker : call[w] = NoCall

LiveDurations == [c \in {c \in Code : Live(c)} |-> code[c].duration]

create_code(c, d, max) ==
    /\ AdminServed /\ ~Live(c)
    /\ code' = [code EXCEPT ![c] = [duration |-> d, max |-> max, used |-> 0]]
    /\ UNCHANGED <<user, log, today, call>>

\* Mutant of update_code: the users are left as they are.
update_code_only(c, d) ==
    /\ AdminServed /\ Live(c)
    /\ code' = [code EXCEPT ![c].duration = d]
    /\ UNCHANGED <<user, log, today, call>>

update_code(c, d) ==
    /\ AdminServed /\ Live(c)
    /\ code' = [code EXCEPT ![c].duration = d]
    /\ Recalculated(UsersOf(c), [LiveDurations EXCEPT ![c] = d])
    /\ UNCHANGED <<today, call>>

\* Mutant of delete_code: the activations stay without their code.
delete_code_anyway(c) ==
    /\ AdminServed /\ Live(c)
    /\ code' = [code EXCEPT ![c] = NoCode]
    /\ UNCHANGED <<user, log, today, call>>

\* The session does not autoflush: the recalculation of an affected user reads
\* the activations that are to be deleted again and its add() takes them off the
\* list of deletions, so that the DELETE of the code breaks the foreign key and
\* nothing is committed.
delete_code(c) ==
    /\ AdminServed /\ Live(c)
    /\ code' = IF UsersOf(c) = {} THEN [code EXCEPT ![c] = NoCode] ELSE code
    /\ UNCHANGED <<user, log, today, call>>

\* _clear_user_subscription_activations: the uses go back to the codes.
cleared(u) ==
    [c \in Code |->
        IF ~Live(c) THEN NoCode
        ELSE [code[c] EXCEPT !.used = Later(0, @ - Cardinality(RowsOf(u, c)))]]

\* _admin_set_user_subscription: what was active is extended, whatever granted
\* it, and the log of the user starts again with this one row.
update_user_subscription(u, d) ==
    LET new == IF d.unlimited THEN Unlimited
               ELSE [until |-> Extended(user[u], d.days, today), unlimited |-> FALSE]
    IN
    /\ AdminServed /\ user[u].until <= MaxEnd
    /\ log[u] = <<>> => LogLength < MaxLog
    /\ user' = [user EXCEPT ![u] = new]
    /\ code' = cleared(u)
    /\ log' = [log EXCEPT ![u] = <<[code |-> ByAdmin, at |-> today, granted |-> new]>>]
    /\ UNCHANGED <<today, call>>

\* _admin_clear_user_subscription
delete_user_subscription(u) ==
    /\ AdminServed
    /\ user' = [user EXCEPT ![u] = NoSubscription]
    /\ code' = cleared(u)
    /\ log' = [log EXCEPT ![u] = <<>>]
    /\ UNCHANGED <<today, call>>

NextDay ==
    /\ today < LastDay /\ \A w \in Worker : call[w] = NoCall
    /\ today' = today + 1
    /\ UNCHANGED <<user, code, log, call>>

CodesNext ==
    \/ \E w \in Worker, u \in User, c \in Code : ActivationReads(w, u, c)
    \/ \E w \in Worker : ActivationCommits(w)
    \/ \E c \in Code, d \in Durations, max \in Limits : create_code(c, d, max)
    \/ \E c \in Code, d \in Durations : update_code(c, d)
    \/ \E c \in Code : delete_code(c)
    \/ \E u \in User, d \in Durations : update_user_subscription(u, d)
    \/ \E u \in User : delete_user_subscription(u)
    \/ NextDay

CodesSpec == CodesInit /\ [][CodesNext]_codesVars

------------------------------------------------------------------------------
(* Properties, of requests served one at a time.                           *)

\* What the requests computed step by step is what the replay of the log gives:
\* the columns of a user never depend on when a code was updated, and an update
\* of a code leaves its users as if it always had had that duration.
ReplayAgrees ==
    \A u \in User : user[u] = Replayed(log[u], LiveDurations)

\* A code that is made longer shortens nobody's subscription, whatever the user
\* activated, let run out or was given before and after it.
LongerIsNoLoss ==
    [][\A c \in Code :
          /\ Live(c) /\ code'[c] # NoCode
          /\ ~code[c].duration.unlimited /\ ~code'[c].duration.unlimited
          /\ code[c].duration.days < code'[c].duration.days
          => \A u \in User : user'[u].unlimited = user[u].unlimited
                             /\ user'[u].until >= user[u].until]_codesVars

==============================================================================

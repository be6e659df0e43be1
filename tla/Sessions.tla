------------------------------- MODULE Sessions -------------------------------
(***************************************************************************)
(* The logins of one user and the refresh tokens they lead to.             *)
(*                                                                         *)
(*   auth/routes.py   login, refresh, logout                               *)
(*   db/models.py     User, RefreshToken                                   *)
(*                                                                         *)
(* login and refresh read the clock, do one transaction under the lock of  *)
(* the row they decide on, and insert the new token in another; the reply  *)
(* may be lost.  Requests overlap, and their process may die between any   *)
(* two of these.  An access token has no state and is left out.  The row   *)
(* of a refresh token expires no later than the signed token.              *)
(***************************************************************************)
EXTENDS Integers, Sequences, FiniteSets

CONSTANTS
    Requests,            \* requests that may be under way at once
    FAILED_LOGIN_LIMIT, LOCKOUT_DURATION,
    Lifetime,            \* of a refresh token
    MaxTime, MaxTokens, MaxChecks   \* bounds: clock, tokens, passwords checked

\* What the constants have to be
SessionConstants ==
    /\ FAILED_LOGIN_LIMIT \in Nat \ {0} /\ LOCKOUT_DURATION \in Nat \ {0} /\ Lifetime \in Nat \ {0}
    /\ MaxTime \in Nat /\ MaxTokens \in Nat /\ MaxChecks \in Nat

VARIABLES
    clock,
    user,      \* the row of users
    tokens,    \* the rows of refresh_tokens, in the order of insertion
    held,      \* the tokens that have reached their client
    pc, at, of,   \* the requests: where, the time they read, the token they present
    chain,     \* history: the login a request succeeds in, or refreshes
    logins,    \* history: logins that succeeded
    checks     \* history: the passwords checked

vars == <<clock, user, tokens, held, pc, at, of, chain, logins, checks>>

\* token 0 is none: that of a login
Token == [login : Nat, after : Nat, revoked : BOOLEAN, expires_at : Nat]
Ids == DOMAIN tokens

TypeOK ==
    /\ clock \in 0..MaxTime
    /\ user \in [active : BOOLEAN, failed_login_count : Nat, locked_until : Nat]
    /\ tokens \in Seq(Token) /\ held \subseteq Ids
    /\ pc \in [Requests -> {"idle", "login", "refresh", "issue"}]
    /\ at \in [Requests -> 0..MaxTime] /\ of \in [Requests -> 0..MaxTokens]
    /\ chain \in [Requests -> 0..logins] /\ logins \in Nat /\ checks \in Seq([at : 0..MaxTime, good : BOOLEAN])

\* locked_until 0 is NULL
Init ==
    /\ clock = 0
    /\ user = [active |-> TRUE, failed_login_count |-> 0, locked_until |-> 0]
    /\ tokens = <<>> /\ held = {}
    /\ pc = [r \in Requests |-> "idle"]
    /\ at = [r \in Requests |-> 0] /\ of = [r \in Requests |-> 0]
    /\ chain = [r \in Requests |-> 0]
    /\ logins = 0 /\ checks = <<>>

\* A request begins: it reads the clock.
begin(r, op, t) ==
    /\ pc[r] = "idle"
    /\ pc' = [pc EXCEPT ![r] = op]
    /\ at' = [at EXCEPT ![r] = clock] /\ of' = [of EXCEPT ![r] = t]
    /\ chain' = [chain EXCEPT ![r] = IF t = 0 THEN 0 ELSE tokens[t].login]
    /\ UNCHANGED <<clock, user, tokens, held, logins, checks>>

\* A request ends; what it carried is forgotten.
Done(r) ==
    /\ pc' = [pc EXCEPT ![r] = "idle"]
    /\ at' = [at EXCEPT ![r] = 0] /\ of' = [of EXCEPT ![r] = 0]
    /\ chain' = [chain EXCEPT ![r] = 0]

Locked(r) == user.locked_until > at[r]

\* The transaction of login.  A good password ends any lockout.
login(r, good) ==
    /\ pc[r] = "login" /\ Len(checks) < MaxChecks
    /\ user.active /\ ~Locked(r)
    /\ checks' = Append(checks, [at |-> at[r], good |-> good])
    /\ LET failures == user.failed_login_count + 1 IN
       user' = IF good THEN [user EXCEPT !.failed_login_count = 0, !.locked_until = 0]
               ELSE [user EXCEPT !.failed_login_count = failures,
                                 !.locked_until = IF failures >= FAILED_LOGIN_LIMIT
                                                  THEN at[r] + LOCKOUT_DURATION ELSE 0]
    /\ IF good
       THEN /\ logins' = logins + 1 /\ chain' = [chain EXCEPT ![r] = logins + 1]
            /\ pc' = [pc EXCEPT ![r] = "issue"] /\ UNCHANGED <<at, of>>
       ELSE Done(r) /\ UNCHANGED logins
    /\ UNCHANGED <<clock, tokens, held>>

\* refresh that does not look whether its token was used
refresh_Again(r) ==
    /\ pc[r] = "refresh"
    /\ tokens[of[r]].expires_at > at[r] /\ user.active
    /\ tokens' = [tokens EXCEPT ![of[r]].revoked = TRUE]
    /\ pc' = [pc EXCEPT ![r] = "issue"]
    /\ UNCHANGED <<clock, user, held, at, of, chain, logins, checks>>

\* The transaction that revokes the token presented: under the lock of its row, so that
\* one of two requests finds it revoked.
refresh(r) ==
    /\ pc[r] = "refresh"
    /\ ~tokens[of[r]].revoked /\ tokens[of[r]].expires_at > at[r] /\ user.active
    /\ tokens' = [tokens EXCEPT ![of[r]].revoked = TRUE]
    /\ pc' = [pc EXCEPT ![r] = "issue"]
    /\ UNCHANGED <<clock, user, held, at, of, chain, logins, checks>>

\* 401, with nothing changed
refused(r) ==
    /\ \/ pc[r] = "login" /\ (~user.active \/ Locked(r))
       \/ pc[r] = "refresh" /\ (tokens[of[r]].revoked \/ tokens[of[r]].expires_at <= at[r] \/ ~user.active)
    /\ Done(r)
    /\ UNCHANGED <<clock, user, tokens, held, logins, checks>>

\* refresh_tokens.create, and the reply, which may be lost.
issue(r) ==
    /\ pc[r] = "issue" /\ Len(tokens) < MaxTokens
    /\ tokens' = Append(tokens, [login |-> chain[r], after |-> of[r], revoked |-> FALSE,
                                 expires_at |-> at[r] + Lifetime])
    /\ held' \in {held, held \cup {Len(tokens')}}
    /\ Done(r)
    /\ UNCHANGED <<clock, user, logins, checks>>

\* logout: one UPDATE, for a token whose signature has not expired
logout(t) ==
    /\ ~tokens[t].revoked /\ tokens[t].expires_at >= clock
    /\ tokens' = [tokens EXCEPT ![t].revoked = TRUE]
    /\ UNCHANGED <<clock, user, held, pc, at, of, chain, logins, checks>>

\* The process dies, or the database fails the statement.
die(r) == pc[r] # "idle" /\ Done(r) /\ UNCHANGED <<clock, user, tokens, held, logins, checks>>

\* An administrator disables the user.
disable ==
    /\ user.active
    /\ user' = [user EXCEPT !.active = FALSE]
    /\ UNCHANGED <<clock, tokens, held, pc, at, of, chain, logins, checks>>

Tick == clock < MaxTime /\ clock' = clock + 1 /\ UNCHANGED <<user, tokens, held, pc, at, of, chain, logins, checks>>

Next ==
    \/ \E r \in Requests :
        \/ begin(r, "login", 0) \/ \E t \in held : begin(r, "refresh", t)
        \/ \E good \in BOOLEAN : login(r, good)
        \/ refresh(r) \/ refused(r) \/ issue(r) \/ die(r)
    \/ \E t \in held : logout(t)
    \/ disable \/ Tick

Spec == Init /\ [][Next]_vars

-----------------------------------------------------------------------------
(* Properties *)

\* RefreshToken, "One-time refresh-token record": of requests that present one token at
\* once, or again, one gets a successor, and a token that has one is not valid itself.
OneTime ==
    /\ \A s, t \in Ids : tokens[s].after = tokens[t].after /\ tokens[s].after # 0 => s = t
    /\ \A t \in Ids : tokens[t].after # 0 => tokens[tokens[t].after].revoked

\* login and refresh together: whatever overlaps, dies or is not answered, a login has one
\* valid refresh token at most.
OneValid ==
    \A s, t \in Ids : tokens[s].login = tokens[t].login /\ ~tokens[s].revoked /\ ~tokens[t].revoked => s = t

\* login, the lockout: after as many wrong passwords in a row as the limit, no password is
\* looked at until the duration has passed, also by a request that read the clock before.
LockoutHolds ==
    \A i \in DOMAIN checks :
        /\ i > FAILED_LOGIN_LIMIT
        /\ \A j \in (i - FAILED_LOGIN_LIMIT)..(i - 1) : ~checks[j].good
        => checks[i].at >= checks[i - 1].at + LOCKOUT_DURATION

SessionsAreSound == OneTime /\ OneValid /\ LockoutHolds
=============================================================================

----------------------------- MODULE AdminSession -----------------------------
(***************************************************************************)
(* The login of the console (useAuth.ts, api/client.ts, LoginPage.tsx)     *)
(* against the tokens of the server (middleware/auth.ts, routes/auth.ts).  *)
(* The tabs of a browser share localStorage and keep a state each; calls   *)
(* travel, and an answer may find another login than its call had.         *)
(***************************************************************************)
EXTENDS Naturals

CONSTANTS
    Tabs,
    MaxLogins,  \* bound on the tokens issued
    MaxOpen     \* bound on the calls under way in a tab

ASSUME SessionAssumption == MaxLogins \in Nat /\ MaxOpen \in Nat

VARIABLES
    issued,   \* tokens issued so far, 1, 2, ...
    expired,  \* those the server no longer accepts
    saved,   \* auth_token in localStorage, 0 for none
    token,    \* the token in each tab's state
    loggingIn,
    open      \* calls under way: how many with each token in each tab

sessionVars == <<issued, expired, saved, token, loggingIn, open>>

Tokens == 1..MaxLogins

SessionTypeOK ==
    /\ issued \in 0..MaxLogins /\ expired \subseteq 1..issued /\ saved \in 0..issued
    /\ token \in [Tabs -> 0..issued] /\ loggingIn \in [Tabs -> BOOLEAN]
    /\ open \in [Tabs -> [Tokens -> 0..MaxOpen]]

SessionInit ==
    /\ issued = 0 /\ expired = {} /\ saved = 0
    /\ token = [t \in Tabs |-> 0] /\ loggingIn = [t \in Tabs |-> FALSE]
    /\ open = [t \in Tabs |-> [k \in Tokens |-> 0]]

\* login: one at a time in a tab.
Login(t) ==
    /\ token[t] = 0 /\ ~loggingIn[t]
    /\ loggingIn' = [loggingIn EXCEPT ![t] = TRUE]
    /\ UNCHANGED <<issued, expired, saved, token, open>>

\* POST /login: a token, or an error.
LoggedIn(t) ==
    /\ loggingIn[t]
    /\ loggingIn' = [loggingIn EXCEPT ![t] = FALSE]
    /\ \/ /\ issued < MaxLogins
          /\ issued' = issued + 1 /\ saved' = issued'
          /\ token' = [token EXCEPT ![t] = issued']
       \/ UNCHANGED <<issued, saved, token>>
    /\ UNCHANGED <<expired, open>>

\* readInitialState, when a tab is opened or reloaded: its calls are gone.
OpenTab(t) ==
    /\ token' = [token EXCEPT ![t] = saved]
    /\ loggingIn' = [loggingIn EXCEPT ![t] = FALSE]
    /\ open' = [open EXCEPT ![t] = [k \in Tokens |-> 0]]
    /\ UNCHANGED <<issued, expired, saved>>

\* loadFromStorage, on the login page: nothing stored leaves the state.
LoginPage(t) ==
    /\ token[t] = 0 /\ saved # 0
    /\ token' = [token EXCEPT ![t] = saved]
    /\ UNCHANGED <<issued, expired, saved, loggingIn, open>>

\* logout clears the storage of all the tabs and the state of this one.
Forget(t) == saved' = 0 /\ token' = [token EXCEPT ![t] = 0]
Logout(t) ==
    /\ token[t] # 0
    /\ Forget(t)
    /\ UNCHANGED <<issued, expired, loggingIn, open>>

\* A call takes the stored token, whatever the state of the tab holds; without
\* one it is refused, and the handler is not told.
CallApi(t) ==
    /\ token[t] # 0 /\ saved # 0 /\ open[t][saved] < MaxOpen
    /\ open' = [open EXCEPT ![t][saved] = @ + 1]
    /\ UNCHANGED <<issued, expired, saved, token, loggingIn>>

\* Mutant: any 401 logs the tab out.
AnyLogin(t, k) == TRUE

\* setUnauthorizedHandler: a 401 counts for the login it was sent under.
SameLogin(t, k) == token[t] = k

\* authMiddleware accepts the token or answers 401.
Answered(t, k) ==
    /\ open[t][k] > 0
    /\ open' = [open EXCEPT ![t][k] = @ - 1]
    /\ IF k \in expired /\ SameLogin(t, k) THEN Forget(t) ELSE UNCHANGED <<saved, token>>
    /\ UNCHANGED <<issued, expired, loggingIn>>

Expire(k) ==
    /\ k <= issued /\ k \notin expired
    /\ expired' = expired \cup {k}
    /\ UNCHANGED <<issued, saved, token, loggingIn, open>>

SessionNext ==
    \/ \E t \in Tabs : \/ Login(t) \/ LoggedIn(t) \/ OpenTab(t) \/ LoginPage(t) \/ Logout(t) \/ CallApi(t)
                       \/ \E k \in Tokens : Answered(t, k)
    \/ \E k \in Tokens : Expire(k)

SessionSpec == SessionInit /\ [][SessionNext]_sessionVars

-----------------------------------------------------------------------------
(* Properties.                                                             *)

\* An answer that clears the stored login ends one that the server no longer
\* accepts: a 401 that comes after the user logged in again is about the login
\* before (handleUnauthorized, setUnauthorizedHandler).
LoginKept == [][saved # 0 /\ saved' = 0 /\ open' # open =>
    \E t \in Tabs : token[t] \in expired /\ token'[t] = 0]_sessionVars
=============================================================================

------------------------------- MODULE SignIn -------------------------------
(***************************************************************************)
(* Who is signed in, as the server and as the page has it.  The page       *)
(* believes the query ['auth', 'me'] and shows the sign-in forms or the    *)
(* application by it; the forms and the log-out button write the query     *)
(* themselves or refetch it.  A fetch that fails keeps the data the query  *)
(* has.                                                                    *)
(***************************************************************************)
EXTENDS Integers, FiniteSets

CONSTANTS
  Accounts,        (* e-mail addresses                         *)
  NoAccount,
  MaxSignIns,      (* bound: submits of the forms and log-outs *)
  MaxMeFetches,    (* bound: refetches on window focus         *)
  MaxSignErrors    (* bound: requests that fail or lose their answer, sessions that expire *)

ASSUME AccountsAssumption == NoAccount \notin Accounts

VARIABLES
  accounts,     (* the users in the database                                     *)
  session,      (* the user of the browser's session, or NoAccount               *)
  me,           (* the user in the query cache, NoAccount for null and undefined *)
  meKnown,      (* the query has data: a user, or the null of a log-out          *)
  mePending,    (* isLoading: the first fetch has not ended                      *)
  meFetch,      (* the running fetch: [at, user]                                 *)
  auth,         (* the running submit, if any: [op, user, at]                    *)
  meRefused,    (* history: the last that was heard of the user is a 401         *)
  landed,       (* history: what a submit found on the screen when it was over   *)
  staleMe,      (* history: me was read before a submit changed the session and  *)
                (* answered after it, or a session expired                       *)
  answerLost,   (* history: an answer was lost                                   *)
  signIns, meFetches, signErrors

meVars   == << me, meKnown, mePending, meFetch, meRefused >>
signVars == << accounts, session, auth, landed, staleMe, answerLost, signIns, meFetches,
               signErrors, meVars >>

NoMeFetch == [at |-> "none"]

(* The routes: guests are sent to the forms and users to the application.  *)
Screen == IF mePending THEN "spinner" ELSE IF me = NoAccount THEN "guest" ELSE "app"

SignError == signErrors < MaxSignErrors /\ signErrors' = signErrors + 1

-----------------------------------------------------------------------------
(* The query. *)

RefetchOnFocus ==
  /\ meFetches < MaxMeFetches /\ meFetches' = meFetches + 1
  /\ meFetch = NoMeFetch
  /\ meFetch' = [at |-> "asked"]
  /\ UNCHANGED << accounts, session, me, meKnown, mePending, meRefused, auth, landed, staleMe,
                  answerLost, signIns, signErrors >>

(* AuthController.me, for a session or none *)
ServeMe ==
  /\ meFetch.at = "asked"
  /\ meFetch' = [at |-> "read", user |-> session]
  /\ UNCHANGED << accounts, session, me, meKnown, mePending, meRefused, auth, landed, staleMe,
                  answerLost, signIns, meFetches, signErrors >>

(* A registration waits for the refetch. *)
AwaitOver == auth' = { IF r.at = "refetching" THEN [r EXCEPT !.at = "over"] ELSE r : r \in auth }

ShowMe ==
  /\ meFetch.at = "read" /\ meFetch.user # NoAccount
  /\ me' = meFetch.user /\ meKnown' = TRUE
  /\ mePending' = FALSE /\ meFetch' = NoMeFetch /\ meRefused' = FALSE
  /\ AwaitOver
  /\ UNCHANGED << accounts, session, landed, staleMe, answerLost, signIns, meFetches,
                  signErrors >>

(* A 401: an error, which leaves the data alone. *)
RefuseMe ==
  /\ meFetch.at = "read" /\ meFetch.user = NoAccount
  /\ mePending' = FALSE /\ meFetch' = NoMeFetch /\ meRefused' = TRUE
  /\ AwaitOver
  /\ UNCHANGED << accounts, session, me, meKnown, landed, staleMe, answerLost, signIns,
                  meFetches,
                  signErrors >>

LoseMe ==
  /\ meFetch # NoMeFetch /\ SignError
  /\ mePending' = FALSE /\ meFetch' = NoMeFetch
  /\ answerLost' = TRUE
  /\ AwaitOver
  /\ UNCHANGED << accounts, session, me, meKnown, meRefused, landed, staleMe, signIns,
                  meFetches >>

-----------------------------------------------------------------------------
(* The forms and the log-out button, one submit at a time. *)

Submit(op, u) ==
  /\ auth = {} /\ signIns < MaxSignIns /\ signIns' = signIns + 1
  /\ auth' = {[op |-> op, user |-> u, at |-> "sent"]}
  /\ UNCHANGED << accounts, session, landed, staleMe, answerLost, meFetches, signErrors,
                  meVars >>

Login    == Screen = "guest" /\ \E u \in Accounts : Submit("login", u)
Register == Screen = "guest" /\ \E u \in Accounts : Submit("register", u)
Logout   == Screen = "app"   /\ Submit("logout", NoAccount)

(* AuthService: who has the session after r, or nobody else if r is refused. *)
Accepted(r) ==
  CASE r.op = "login"    -> r.user \in accounts
    [] r.op = "register" -> r.user \notin accounts
    [] r.op = "logout"   -> TRUE

AuthGoes(r, at) == auth' = (auth \ {r}) \cup {[r EXCEPT !.at = at]}

(* A registration that fails in seedDefaultLabels is an error to the page, *)
(* with the user made and the session set, like an answer that is lost.    *)
ServeAuth ==
  \E r \in auth, lost \in BOOLEAN :
    /\ r.at = "sent" /\ Accepted(r)
    /\ session' = r.user
    /\ accounts' = IF r.op = "register" THEN accounts \cup {r.user} ELSE accounts
    /\ AuthGoes(r, IF lost THEN "failed" ELSE "ok")
    /\ staleMe' = (staleMe \/ (meFetch.at = "read" /\ meFetch.user # session'))
    /\ answerLost' = (answerLost \/ lost)
    /\ IF lost THEN SignError ELSE UNCHANGED signErrors
    /\ UNCHANGED << landed, signIns, meFetches, meVars >>

FailAuth ==
  \E r \in auth :
    /\ r.at = "sent"
    /\ IF Accepted(r) THEN SignError ELSE UNCHANGED signErrors
    /\ AuthGoes(r, "failed")
    /\ UNCHANGED << accounts, session, landed, staleMe, answerLost, signIns, meFetches, meVars >>

(* The form shows the error; a second try may follow. *)
AuthFailed ==
  \E r \in auth :
    /\ r.at = "failed"
    /\ auth' = auth \ {r}
    /\ UNCHANGED << accounts, session, landed, staleMe, answerLost, signIns, meFetches,
                    signErrors,
                    meVars >>

(* setQueryData: the running fetch goes on. *)
WriteMe(u) ==
  /\ me' = u /\ meKnown' = TRUE /\ mePending' = FALSE /\ meRefused' = FALSE
  /\ UNCHANGED meFetch

LoggedIn ==
  \E r \in auth :
    /\ r.at = "ok" /\ r.op = "login"
    /\ WriteMe(r.user)
    /\ auth' = auth \ {r} /\ landed' = "app"
    /\ UNCHANGED << accounts, session, staleMe, answerLost, signIns, meFetches, signErrors >>

(* Mutant: logging out leaves the query as it is. *)
LoggedOutUnwritten ==
  \E r \in auth :
    /\ r.at = "ok" /\ r.op = "logout"
    /\ auth' = auth \ {r}
    /\ UNCHANGED << accounts, session, landed, staleMe, answerLost, signIns, meFetches,
                    signErrors,
                    meVars >>

LoggedOut ==
  \E r \in auth :
    /\ r.at = "ok" /\ r.op = "logout"
    /\ WriteMe(NoAccount)
    /\ auth' = auth \ {r}
    /\ UNCHANGED << accounts, session, landed, staleMe, answerLost, signIns, meFetches,
                    signErrors >>

(* Mutant: the form goes on without waiting for the query. *)
RegisteredUnawaited ==
  \E r \in auth :
    /\ r.at = "ok" /\ r.op = "register"
    /\ AuthGoes(r, "over")
    /\ meFetch' = IF meKnown \/ meFetch = NoMeFetch THEN [at |-> "asked"] ELSE meFetch
    /\ UNCHANGED << accounts, session, landed, staleMe, answerLost, signIns, meFetches,
                    signErrors,
                    me, meKnown, mePending, meRefused >>

(* invalidateQueries: a fetch that is running is cancelled only if the     *)
(* query has data, and joined otherwise.                                   *)
Registered ==
  \E r \in auth :
    /\ r.at = "ok" /\ r.op = "register"
    /\ AuthGoes(r, "refetching")
    /\ meFetch' = IF meKnown \/ meFetch = NoMeFetch THEN [at |-> "asked"] ELSE meFetch
    /\ UNCHANGED << accounts, session, landed, staleMe, answerLost, signIns, meFetches,
                    signErrors,
                    me, meKnown, mePending, meRefused >>

(* navigate('/') after the refetch *)
Landed ==
  \E r \in auth :
    /\ r.at = "over"
    /\ auth' = auth \ {r} /\ landed' = Screen
    /\ UNCHANGED << accounts, session, staleMe, answerLost, signIns, meFetches, signErrors,
                    meVars >>

(* The cookie or the row runs out, or another tab logs out. *)
Expire ==
  /\ session # NoAccount /\ SignError
  /\ session' = NoAccount /\ staleMe' = TRUE
  /\ UNCHANGED << accounts, auth, landed, answerLost, signIns, meFetches, meVars >>

-----------------------------------------------------------------------------
(* The page is loaded with a session or without. *)
SignInit ==
  /\ accounts \in SUBSET Accounts
  /\ session \in accounts \cup {NoAccount}
  /\ me = NoAccount /\ meKnown = FALSE /\ mePending = TRUE
  /\ meFetch = [at |-> "asked"] /\ meRefused = FALSE
  /\ auth = {} /\ landed = "nowhere"
  /\ staleMe = FALSE /\ answerLost = FALSE
  /\ signIns = 0 /\ meFetches = 0 /\ signErrors = 0

SignNetwork ==
  \/ ServeMe \/ ShowMe \/ RefuseMe \/ LoseMe
  \/ ServeAuth \/ FailAuth \/ AuthFailed \/ LoggedIn \/ LoggedOut \/ Registered \/ Landed

SignNext ==
  \/ SignNetwork
  \/ RefetchOnFocus \/ Login \/ Register \/ Logout \/ Expire

SignSpec == SignInit /\ [][SignNext]_signVars /\ WF_signVars(SignNetwork)

-----------------------------------------------------------------------------
(* Whoever registers or signs in finds the application when the form is    *)
(* done and is not sent back to the forms, although registering writes     *)
(* nothing to the query: it waits for the refetch.  Left out are a lost    *)
(* answer, an expired session, and a fetch that was answered before the    *)
(* registration and joined after it.                                       *)
SignInLands == landed \in {"spinner", "guest"} => staleMe \/ answerLost

(* The page ends up with the user of the session, whatever submits and     *)
(* refetches overlap, with the same exceptions.                            *)
SignInConverges == <>[](me = session \/ staleMe \/ answerLost)

(* What the project's conventions say of an expired session: a 401 leads   *)
(* to the sign-in form.                                                    *)
RefusedMeansForm == meRefused => Screen # "app"
=============================================================================

------------------------------- MODULE Login -------------------------------
(***************************************************************************)
(* A run logs its new child in with one-time codes read from a mailbox.    *)
(* The first login of a fresh iCloud child is a registration in a browser, *)
(* in a thread of its own (registrar_runtime/browser_register_flow.py), or *)
(* a login in its OpenBrowser profile; other logins are made over HTTP     *)
(* (login_existing_account_for_token of registrar_runtime/register.py).    *)
(* Codes come from the iCloud forwarding mailbox                           *)
(* (registrar_runtime/icloud_imap_provider.py) or from Apple-mail hotmail  *)
(* (registrar_runtime/appleemail_provider.py). Every request makes the     *)
(* server send one mail; mails arrive late and in any order. A mail stands *)
(* for its code and is named by the number of its request.                 *)
(***************************************************************************)
EXTENDS Naturals, Sequences, SequencesExt, FiniteSets, FiniteSetsExt

CONSTANTS
  MaxRequests,       \* bounds the mails the server sends
  MaxLoginCrashes,   \* bounds deaths of the process
  MaxLoginRetries    \* bounds retries of the run and new runs

ASSUME LoginAssumption ==
  /\ MaxRequests \in Nat /\ MaxLoginCrashes \in Nat /\ MaxLoginRetries \in Nat

Mails == 1..MaxRequests
NoMail == 0
NoDoc == [saved |-> 3, seen |-> {}]
PhoneRecycles == 1     \* PHONE_GATE_RECYCLE_MAX_ATTEMPTS
SigninRecycles == 2    \* _signin_session_recycle_left
RateDelays == 2        \* AUTHORIZE_CONTINUE_RATE_LIMIT_RETRY_DELAYS_SECONDS
CountedAttempts == 9   \* the counter stops here
Logins == 2            \* new_login, and new_workspace_login if it is needed

VARIABLES
  provider,       \* whose mailbox gets the codes
  entry,          \* how the first login is made
  loginRun,       \* runs.state
  storedDoc,         \* the checkpoint: logins saved, mails seen
  doc,            \* the run's copy of it
  loginAt,             \* where the login is
  phoneLeft, signinLeft, delaysLeft, attempts,
  requests,       \* mails requested so far
  inbox,          \* mails in the order they came
  fresh,          \* the first mail recent enough for this attempt
  tried,          \* codes tried in this attempt
  code,           \* the code in hand
  failure,        \* why the last login failed
  orphan,         \* the copy of a browser thread nobody waits for
  submitted,      \* mails whose code was submitted in this run
  overwritten,    \* an orphan took something out of the checkpoint
  loginCrashes, loginRetries

child == <<provider, entry>>
budget == <<phoneLeft, signinLeft, delaysLeft, attempts>>
mailbox == <<requests, inbox>>
attempt == <<loginAt, fresh, tried, code>>
checkpoint == <<storedDoc, doc>>
loginHistory == <<submitted, overwritten>>
loginCounts == <<loginCrashes, loginRetries>>
loginVars == <<child, loginRun, checkpoint, attempt, budget, mailbox, failure, orphan,
               loginHistory, loginCounts>>

InBrowser == doc.saved = 0 /\ entry # "http"

LoginInit ==
  /\ provider \in {"icloud", "apple"}
  /\ entry \in IF provider = "icloud" THEN {"http", "browser", "profile"} ELSE {"http"}
  /\ loginRun = "queued"
  /\ storedDoc = [saved |-> 0, seen |-> {}] /\ doc = NoDoc
  /\ loginAt = "off" /\ fresh = 1 /\ tried = {} /\ code = NoMail
  /\ phoneLeft = PhoneRecycles /\ signinLeft = SigninRecycles
  /\ delaysLeft = RateDelays /\ attempts = 0
  /\ requests = 0 /\ inbox = <<>>
  /\ failure = "none" /\ orphan = NoDoc
  /\ submitted = {} /\ overwritten = FALSE
  /\ loginCrashes = 0 /\ loginRetries = 0
-----------------------------------------------------------------------------
(* The run around the login. *)

Arrived == ToSet(inbox)

MailArrives(m) ==
  /\ m <= requests /\ m \notin Arrived
  /\ inbox' = Append(inbox, m)
  /\ UNCHANGED <<child, loginRun, checkpoint, attempt, budget, requests, failure, orphan,
                 loginHistory, loginCounts>>

\* The queue takes the run, which reads its checkpoint.
LoginBegins ==
  /\ loginRun = "queued" /\ loginRun' = "running"
  /\ doc' = storedDoc /\ loginAt' = "between" /\ failure' = "none"
  /\ UNCHANGED <<child, storedDoc, fresh, tried, code, budget, mailbox, orphan, loginHistory,
                 loginCounts>>

\* Nothing of a login outlives it but its checkpoint.
Forget == fresh' = fresh /\ tried' = {} /\ code' = NoMail

LoginFails(why) ==
  /\ loginRun' = "failed" /\ failure' = why /\ loginAt' = "off" /\ doc' = NoDoc /\ Forget
  /\ UNCHANGED <<child, storedDoc, budget, mailbox, loginHistory, loginCounts>>

LoginCrash ==
  /\ loginRun = "running" /\ loginCrashes < MaxLoginCrashes
  /\ loginCrashes' = loginCrashes + 1
  /\ loginRun' = "queued" /\ loginAt' = "off" /\ doc' = NoDoc /\ orphan' = NoDoc /\ Forget
  /\ UNCHANGED <<child, storedDoc, budget, mailbox, failure, loginHistory, loginRetries>>

LoginRetry ==
  /\ loginRun = "failed" /\ loginRetries < MaxLoginRetries
  /\ loginRetries' = loginRetries + 1 /\ loginRun' = "queued"
  /\ UNCHANGED <<child, checkpoint, attempt, budget, mailbox, failure, orphan, loginHistory,
                 loginCrashes>>

\* Another run for the child: an empty checkpoint. The failed run's is closed
\* to an orphan of its own.
LoginAgain ==
  /\ loginRun = "failed" /\ loginRetries < MaxLoginRetries
  /\ loginRetries' = loginRetries + 1 /\ loginRun' = "queued"
  /\ storedDoc' = [saved |-> 0, seen |-> {}] /\ orphan' = NoDoc
  /\ submitted' = {} /\ overwritten' = FALSE
  /\ UNCHANGED <<child, doc, attempt, budget, mailbox, failure, loginCrashes>>

\* The stop event is looked at between requests and while waiting.
LoginStopped ==
  /\ loginAt \in {"bootstrap", "authorize", "send", "wait"}
  /\ LoginFails("stopped") /\ UNCHANGED orphan
-----------------------------------------------------------------------------
(* Attempts. A retry is a call of the function by itself. *)

StartAttempt ==
  /\ loginAt' = "bootstrap" /\ tried' = {} /\ code' = NoMail /\ UNCHANGED fresh
  /\ attempts' = Min({attempts + 1, CountedAttempts})

LoginStep ==
  UNCHANGED <<child, loginRun, failure, orphan, overwritten, loginCounts>>

\* _login: a saved login is taken from the checkpoint.
StartLogin ==
  /\ loginAt = "between" /\ doc.saved < Logins
  /\ loginAt' = "bootstrap" /\ tried' = {} /\ code' = NoMail /\ UNCHANGED fresh
  /\ phoneLeft' = PhoneRecycles /\ signinLeft' = SigninRecycles
  /\ delaysLeft' = RateDelays /\ attempts' = 1
  /\ LoginStep /\ UNCHANGED <<checkpoint, mailbox, submitted>>

Failing(why) == LoginFails(why) /\ UNCHANGED orphan

\* A phone gate starts over once; the delays are again those of the default.
PhoneGate ==
  /\ loginAt \in {"authorize", "send", "profile"} /\ ~InBrowser
  /\ IF phoneLeft = 0 THEN Failing("phone")
     ELSE /\ StartAttempt /\ phoneLeft' = phoneLeft - 1 /\ delaysLeft' = RateDelays
          /\ LoginStep /\ UNCHANGED <<signinLeft, checkpoint, mailbox, submitted>>

SigninExpired ==
  /\ loginAt = "validate" /\ ~InBrowser
  /\ IF signinLeft = 0 THEN Failing("expired")
     ELSE /\ StartAttempt /\ signinLeft' = signinLeft - 1
          /\ LoginStep /\ UNCHANGED <<phoneLeft, delaysLeft, checkpoint, mailbox, submitted>>

\* Mutant: every retry may wait for all of the delays.
DelaysKept == RateDelays
DelaysAfterOne == delaysLeft - 1

RateLimited ==
  /\ loginAt = "authorize" /\ ~InBrowser
  /\ IF delaysLeft = 0 THEN Failing("rate")
     ELSE /\ StartAttempt /\ delaysLeft' = DelaysAfterOne
          /\ LoginStep /\ UNCHANGED <<phoneLeft, signinLeft, checkpoint, mailbox, submitted>>
-----------------------------------------------------------------------------
(* Asking for a code. *)

\* The mails that count: sent after the request, or a little before it.
FreshMails == fresh..requests'

\* The server sends a mail; the login waits for it.
CodeRequested ==
  /\ requests < MaxRequests /\ requests' = requests + 1
  /\ fresh' \in FreshMails
  /\ loginAt' = "wait" /\ UNCHANGED <<tried, code, inbox>>
  /\ LoginStep /\ UNCHANGED <<checkpoint, budget, submitted>>

AtForm ==
  /\ loginAt' = "authorize" /\ UNCHANGED <<fresh, tried, code>>
  /\ LoginStep /\ UNCHANGED <<checkpoint, budget, mailbox, submitted>>

\* The session of the attempt: CSRF token, sign-in, the first hop.
Bootstrap == loginAt = "bootstrap" /\ ~InBrowser /\ (AtForm \/ Failing("error"))

\* The network is checked, the browser opened and led to the e-mail form.
OpenForm == loginAt = "bootstrap" /\ InBrowser /\ (AtForm \/ Failing("error"))

AsksForCode ==
  /\ loginAt' = "send" /\ UNCHANGED <<fresh, tried, code>>
  /\ LoginStep /\ UNCHANGED <<checkpoint, budget, mailbox, submitted>>

\* authorize/continue sends a code at once, or the next request asks for it.
Authorize == loginAt = "authorize" /\ ~InBrowser /\ (CodeRequested \/ AsksForCode)

\* The e-mail form leads to the code page, or first to the password form.
EmailForm == loginAt = "authorize" /\ InBrowser /\ (CodeRequested \/ AsksForCode)

SendCode == loginAt = "send" /\ CodeRequested
-----------------------------------------------------------------------------
(* Reading the code. *)

Usable == {m \in Arrived : m >= fresh /\ m \notin tried}
\* The newest to arrive of those not seen before.
NewestUnseen ==
  LET new == {i \in DOMAIN inbox : inbox[i] \in Usable \ doc.seen} IN
  {inbox[i] : i \in {j \in new : \A k \in new : k <= j}}
\* The newest by date, unless its code has been tried.
NewestByDate == {m \in Usable : \A k \in Arrived : k <= m}
Found == IF provider = "icloud" THEN NewestUnseen ELSE NewestByDate

\* Mutant: the mails seen are kept in memory only.
SeenInMemory(m) == doc' = [doc EXCEPT !.seen = @ \cup {m}] /\ UNCHANGED storedDoc
\* _remember_uid: the whole checkpoint is written.
Remember(m) == doc' = [doc EXCEPT !.seen = @ \cup {m}] /\ storedDoc' = doc'

FindCode ==
  /\ loginAt = "wait"
  /\ \E m \in Found :
       /\ code' = m
       /\ IF provider = "icloud" THEN Remember(m) ELSE UNCHANGED checkpoint
  /\ loginAt' = "validate"
  /\ LoginStep /\ UNCHANGED <<fresh, tried, budget, mailbox, submitted>>

\* The time is up and the last look at the mailbox showed nothing.
NoCodeCame == loginAt = "wait" /\ Found = {} /\ Failing("noMail")

\* The mailbox cannot be reached, or rejects its password.
MailboxFails ==
  /\ loginAt = "wait"
  /\ \/ Failing("unreachable")
     \/ Failing(IF InBrowser /\ entry = "browser" THEN "error" ELSE "identity")

\* The caller's patience with a browser thread ends: the run fails, the thread
\* goes on with its copy of the checkpoint.
BrowserAbandoned ==
  /\ InBrowser /\ entry = "browser" /\ loginAt = "wait" /\ orphan = NoDoc
  /\ LoginFails("timeout") /\ orphan' = doc

\* It finds a mail, writes its checkpoint and sees that its own time is up. A
\* failed run's checkpoint takes no writing.
OrphanRemembers(m) ==
  /\ orphan # NoDoc /\ m \in Arrived \ orphan.seen
  /\ orphan' = NoDoc
  /\ IF loginRun \in {"queued", "running"}
       THEN /\ storedDoc' = [orphan EXCEPT !.seen = @ \cup {m}]
            /\ overwritten' = (overwritten \/ ~(storedDoc.seen \subseteq storedDoc'.seen)
                                 \/ storedDoc'.saved < storedDoc.saved)
       ELSE UNCHANGED <<storedDoc, overwritten>>
  /\ UNCHANGED <<child, loginRun, doc, attempt, budget, mailbox, failure, submitted,
                 loginCounts>>

OrphanGivesUp ==
  /\ orphan # NoDoc /\ orphan' = NoDoc
  /\ UNCHANGED <<child, loginRun, checkpoint, attempt, budget, mailbox, failure, loginHistory,
                 loginCounts>>
-----------------------------------------------------------------------------
(* Using the code. The server takes the code of its last mail only. *)

Submit == loginAt = "validate" /\ submitted' = submitted \cup {code}

CodeAccepted ==
  /\ Submit /\ code = requests
  /\ loginAt' \in {"profile", "session"} /\ UNCHANGED <<fresh, tried, code>>
  /\ LoginStep /\ UNCHANGED <<checkpoint, budget, mailbox>>

\* The code is not tried again in this attempt, and the login waits for another.
CodeRejected ==
  /\ Submit /\ ~InBrowser
  /\ loginAt' = "wait" /\ tried' = tried \cup {code} /\ code' = NoMail /\ UNCHANGED fresh
  /\ LoginStep /\ UNCHANGED <<checkpoint, budget, mailbox>>

\* There is no time for another, or no second try: a browser flow has one code.
LastCodeRejected ==
  /\ Submit /\ loginRun' = "failed" /\ failure' = "codes" /\ loginAt' = "off" /\ doc' = NoDoc /\ Forget
  /\ UNCHANGED <<child, storedDoc, budget, mailbox, orphan, overwritten, loginCounts>>

\* The profile page of a new account.
AboutYou ==
  /\ loginAt = "profile" /\ loginAt' = "session" /\ UNCHANGED <<fresh, tried, code>>
  /\ LoginStep /\ UNCHANGED <<checkpoint, budget, mailbox, submitted>>

\* What no attempt comes back from: errors, and a deactivated account.
GivesUp ==
  /\ loginAt \in {"authorize", "send", "validate", "profile", "session"} /\ ~InBrowser
  /\ \E why \in {"error", "identity"} : Failing(why)

\* A browser flow stops at any page it does not expect.
PageGate ==
  /\ loginAt \in {"authorize", "send", "profile", "session"} /\ InBrowser /\ Failing("error")

\* The session is read and the step is saved. A login in an
\* OpenBrowser profile ends in the team's workspace and saves both.
SessionSaved ==
  /\ loginAt = "session" /\ loginAt' = "between"
  /\ doc' = [doc EXCEPT !.saved = IF InBrowser /\ entry = "profile" THEN Logins ELSE @ + 1]
  /\ storedDoc' = doc'
  /\ UNCHANGED fresh /\ tried' = {} /\ code' = NoMail
  /\ LoginStep /\ UNCHANGED <<budget, mailbox, submitted>>

LoginsDone ==
  /\ loginAt = "between" /\ doc.saved >= 1
  /\ loginRun' = "succeeded" /\ loginAt' = "off" /\ doc' = NoDoc /\ Forget
  /\ UNCHANGED <<child, storedDoc, budget, mailbox, failure, orphan, loginHistory, loginCounts>>
-----------------------------------------------------------------------------
LoginSteps ==
  \/ StartLogin \/ Bootstrap \/ OpenForm \/ RateLimited \/ Authorize \/ EmailForm
  \/ SendCode \/ FindCode \/ NoCodeCame \/ MailboxFails \/ BrowserAbandoned \/ CodeAccepted
  \/ CodeRejected \/ LastCodeRejected \/ PhoneGate \/ SigninExpired \/ AboutYou
  \/ GivesUp \/ PageGate \/ SessionSaved \/ LoginsDone

LoginNext ==
  \/ LoginBegins \/ LoginCrash \/ LoginRetry \/ LoginAgain \/ LoginStopped \/ LoginSteps
  \/ \E m \in Mails : MailArrives(m) \/ OrphanRemembers(m)
  \/ OrphanGivesUp

LoginSpec == LoginInit /\ [][LoginNext]_loginVars
-----------------------------------------------------------------------------
(* Properties. *)

\* A code read from the forwarding mailbox is submitted once in a run, over
\* the restarts of the login, crashes and retries: the mails seen are in the
\* checkpoint before the code is used. Only a browser thread left behind can
\* take them out again.
CodesAreUsedOnce ==
  [][provider = "icloud" /\ ~overwritten /\ Submit => code \notin submitted]_loginVars

\* A login fails for want of a code only if the mail it asked for last has
\* not come, or its code was tried: none is overlooked for being older than
\* the request, seen by an earlier attempt, or behind a later mail.
TimeoutMeansNoMail ==
  [][failure' = "noMail" /\ failure # "noMail" => requests \notin Arrived \/ requests \in tried]_loginVars

\* The code of every mail is used at most once and the one that is waited for
\* is not missed, across crashes, retries and the recycles of a login.
LoginCodes == CodesAreUsedOnce /\ TimeoutMeansNoMail

\* One login asks the server to start over at most eight times, whatever the
\* server answers, although a phone gate renews the delays for rate limits.
AttemptsAreBounded ==
  attempts <= 1 + PhoneRecycles + SigninRecycles + (1 + PhoneRecycles) * RateDelays

\* Whatever the server answers and the mailbox holds, a login ends.
LoginEnds == (loginRun = "running") ~> (loginRun # "running")
=============================================================================

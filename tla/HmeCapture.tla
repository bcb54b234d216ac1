----------------------------- MODULE HmeCapture -----------------------------
(***************************************************************************)
(* The capture of an iCloud session in a visible browser                   *)
(* (ICloudHmeCaptureManager and capture_hme_session of                     *)
(* src/team_protocol/icloud_hme_capture.py) and its storing                *)
(* (_save_captured_hme_session of web_console.py) beside edits of the      *)
(* mailbox. A capture is a thread; the manager keeps the last one of each  *)
(* mailbox, and the mailbox of the active one. The manager's lock is       *)
(* released between a check and the publication of a status.               *)
(***************************************************************************)
EXTENDS Naturals, FiniteSets

CONSTANTS
  Mailboxes,         \* the iCloud mailboxes
  MaxCaptures,       \* captures 1, 2, ... are started
  MaxMailboxEdits    \* bounds the edits of a mailbox's other settings

ASSUME HmeCaptureAssumption ==
  /\ MaxCaptures \in Nat \ {0} /\ MaxMailboxEdits \in Nat
  /\ "none" \notin Mailboxes

Captures == 1..MaxCaptures
Nobody == "none"
ActiveStates == {"starting", "waiting_login", "verifying", "cancelling"}
FinalStates == {"captured", "cancelled", "failed"}

VARIABLES
  captureOf,         \* _jobs: the last capture of each mailbox, 0 without one
  activeMailbox,     \* _active_mailbox_id
  of,                \* the mailbox of each capture
  shown,             \* the published state of each capture
  at,                \* the place of each capture's thread
  cancelEvent,       \* captures whose cancel event is set
  cancelSeen,        \* mailboxes whose cancellation is not published yet
  stored,            \* icloud_mailboxes: captured session and other settings
  saver,             \* the capture in _save_captured_hme_session, 0 without one
  saverRead,         \* the settings it has read
  editor,            \* the mailbox being edited
  editorRead,        \* the settings the edit has read
  lastSaved,         \* history: the capture stored last in each mailbox
  mailboxEdits,      \* history: the edits of each mailbox
  overlapped,        \* history: mailboxes written between a read and its write
  disturbed          \* history: captures that began beside another's thread, or
                     \* whose end a cancellation has overwritten

manager == <<captureOf, activeMailbox, of, shown, at, cancelEvent, cancelSeen, disturbed>>
hmeSettings == <<stored, saver, saverRead, editor, editorRead, lastSaved, mailboxEdits, overlapped>>
captureVars == <<manager, hmeSettings>>

Settings == [session : 0..MaxCaptures, other : 0..MaxMailboxEdits]
Places == {"none", "open", "window", "signed_in", "got", "list", "store", "saved", "last", "done"}

CaptureTypeOK ==
  /\ captureOf \in [Mailboxes -> 0..MaxCaptures]
  /\ activeMailbox \in Mailboxes \cup {Nobody} /\ of \in [Captures -> Mailboxes \cup {Nobody}]
  /\ shown \in [Captures -> {"none"} \cup ActiveStates \cup FinalStates]
  /\ at \in [Captures -> Places] /\ cancelEvent \subseteq Captures
  /\ cancelSeen \subseteq Mailboxes /\ stored \in [Mailboxes -> Settings]
  /\ saver \in 0..MaxCaptures /\ editor \in Mailboxes \cup {Nobody}
  /\ (saver # 0 => at[saver] \in {"list", "store"})

Fresh == [session |-> 0, other |-> 0]

CaptureInit ==
  /\ captureOf = [m \in Mailboxes |-> 0] /\ activeMailbox = Nobody
  /\ of = [j \in Captures |-> Nobody] /\ shown = [j \in Captures |-> "none"]
  /\ at = [j \in Captures |-> "none"] /\ cancelEvent = {} /\ cancelSeen = {} /\ disturbed = {}
  /\ stored = [m \in Mailboxes |-> Fresh] /\ saver = 0 /\ saverRead = Fresh
  /\ editor = Nobody /\ editorRead = Fresh
  /\ lastSaved = [m \in Mailboxes |-> 0] /\ mailboxEdits = [m \in Mailboxes |-> 0] /\ overlapped = {}
-----------------------------------------------------------------------------
(* The manager. *)

ActiveCapture == IF activeMailbox = Nobody THEN 0 ELSE captureOf[activeMailbox]

StartCapture(m) ==
  /\ ~ (ActiveCapture # 0 /\ shown[ActiveCapture] \in ActiveStates)
  /\ \E j \in Captures :
       /\ at[j] = "none" /\ \A i \in Captures : at[i] = "none" => j <= i
       /\ captureOf' = [captureOf EXCEPT ![m] = j] /\ of' = [of EXCEPT ![j] = m]
       /\ shown' = [shown EXCEPT ![j] = "starting"] /\ at' = [at EXCEPT ![j] = "open"]
       /\ disturbed' = IF \E i \in Captures : at[i] \notin {"none", "done"}
                        THEN disturbed \cup {j} ELSE disturbed
  /\ activeMailbox' = m
  /\ UNCHANGED <<cancelEvent, cancelSeen, hmeSettings>>

\* The event is set under the lock, the status published after it: of the
\* capture the mailbox has by then, ended or not.
CancelSet(m) ==
  /\ m \notin cancelSeen /\ captureOf[m] # 0 /\ shown[captureOf[m]] \in ActiveStates
  /\ cancelEvent' = cancelEvent \cup {captureOf[m]} /\ cancelSeen' = cancelSeen \cup {m}
  /\ UNCHANGED <<captureOf, activeMailbox, of, shown, at, disturbed, hmeSettings>>

CancelPublish(m) ==
  /\ m \in cancelSeen /\ cancelSeen' = cancelSeen \ {m}
  /\ shown' = [shown EXCEPT ![captureOf[m]] = "cancelling"]
  /\ disturbed' = IF shown[captureOf[m]] \in FinalStates THEN disturbed \cup {captureOf[m]} ELSE disturbed
  /\ UNCHANGED <<captureOf, activeMailbox, of, at, cancelEvent, hmeSettings>>

\* Every active capture is cancelled; nothing keeps a new one from starting.
ShutdownCaptures ==
  /\ cancelEvent' = cancelEvent \cup
       {captureOf[m] : m \in {n \in Mailboxes : captureOf[n] # 0 /\ shown[captureOf[n]] \in ActiveStates}}
  /\ cancelEvent' # cancelEvent
  /\ UNCHANGED <<captureOf, activeMailbox, of, shown, at, cancelSeen, disturbed, hmeSettings>>
-----------------------------------------------------------------------------
(* The thread of capture j. *)

Transition(j, state) == shown' = [shown EXCEPT ![captureOf[of[j]]] = state]
Moves(j, place) == at' = [at EXCEPT ![j] = place]
RestOfManager == UNCHANGED <<captureOf, activeMailbox, of, cancelEvent, cancelSeen, disturbed>>

\* Without a stored session, or without a browser, there is no window.
OpenWindow(j) ==
  /\ at[j] = "open" /\ RestOfManager /\ UNCHANGED hmeSettings
  /\ \/ j \notin cancelEvent /\ Transition(j, "waiting_login") /\ Moves(j, "window")
     \/ Transition(j, "failed") /\ Moves(j, "last")
     \/ j \in cancelEvent /\ Transition(j, "cancelled") /\ Moves(j, "last")

WindowOpen(j) == at[j] \in {"window", "signed_in"}

Authenticated(j) ==
  /\ at[j] = "window" /\ Transition(j, "verifying") /\ Moves(j, "signed_in")
  /\ RestOfManager /\ UNCHANGED hmeSettings

SessionSeen(j) ==
  /\ WindowOpen(j) /\ j \notin cancelEvent
  /\ Moves(j, "got") /\ UNCHANGED shown /\ RestOfManager /\ UNCHANGED hmeSettings

\* Mutant: the window is waited for until it is closed.
NoDeadline(j) ==
  /\ WindowOpen(j) /\ RestOfManager /\ UNCHANGED hmeSettings /\ Moves(j, "last")
  /\ j \in cancelEvent /\ Transition(j, "cancelled")

\* Cancelled, closed by the user, or out of time.
WindowCloses(j) ==
  /\ WindowOpen(j) /\ RestOfManager /\ UNCHANGED hmeSettings /\ Moves(j, "last")
  /\ Transition(j, IF j \in cancelEvent THEN "cancelled" ELSE "failed")

\* Nothing is stored of a cancelled capture. Another mailbox operation makes
\* the acquisition of the lock fail.
SaveBegin(j) ==
  /\ at[j] = "got" /\ RestOfManager
  /\ \/ /\ j \in cancelEvent /\ Transition(j, "cancelled") /\ Moves(j, "last")
        /\ UNCHANGED hmeSettings
     \/ /\ j \notin cancelEvent /\ saver = 0 /\ saver' = j /\ saverRead' = stored[of[j]]
        /\ Moves(j, "list") /\ UNCHANGED shown
        /\ UNCHANGED <<stored, editor, editorRead, lastSaved, mailboxEdits, overlapped>>
     \/ /\ j \notin cancelEvent /\ Transition(j, "failed") /\ Moves(j, "last")
        /\ UNCHANGED hmeSettings

\* Mutant: the operation lock stays taken when Apple refuses.
ListKeepsLock(j) ==
  /\ at[j] = "list" /\ RestOfManager
  /\ \/ Moves(j, "store") /\ UNCHANGED shown
     \/ Transition(j, IF j \in cancelEvent THEN "cancelled" ELSE "failed") /\ Moves(j, "last")
  /\ UNCHANGED <<stored, saver, saverRead, editor, editorRead, lastSaved, mailboxEdits, overlapped>>

\* Apple lists the aliases with the new session, or refuses it.
SaveList(j) ==
  /\ at[j] = "list" /\ RestOfManager
  /\ \/ Moves(j, "store") /\ UNCHANGED <<shown, saver>>
     \/ /\ Transition(j, IF j \in cancelEvent THEN "cancelled" ELSE "failed")
        /\ Moves(j, "last") /\ saver' = 0
  /\ UNCHANGED <<stored, saverRead, editor, editorRead, lastSaved, mailboxEdits, overlapped>>

Updated(j) == [saverRead EXCEPT !.session = j]

SaveStore(j) ==
  /\ at[j] = "store" /\ RestOfManager /\ saver' = 0
  /\ \/ /\ stored' = [stored EXCEPT ![of[j]] = Updated(j)]
        /\ lastSaved' = [lastSaved EXCEPT ![of[j]] = j]
        /\ overlapped' = overlapped \cup ({of[j]} \cap {editor})
        /\ Moves(j, "saved") /\ UNCHANGED shown
     \/ /\ Transition(j, "failed") /\ Moves(j, "last") /\ UNCHANGED <<stored, lastSaved, overlapped>>
  /\ UNCHANGED <<saverRead, editor, editorRead, mailboxEdits>>

\* Mutant: the cancellation is looked at once more when the session is stored.
CancelledAfterwards(j) ==
  /\ at[j] = "saved" /\ Transition(j, IF j \in cancelEvent THEN "cancelled" ELSE "captured")
  /\ Moves(j, "last") /\ RestOfManager /\ UNCHANGED hmeSettings

PublishCaptured(j) ==
  /\ at[j] = "saved" /\ Transition(j, "captured") /\ Moves(j, "last")
  /\ RestOfManager /\ UNCHANGED hmeSettings

\* The finally of _run compares mailboxes, not captures.
Finally(j) ==
  /\ at[j] = "last" /\ Moves(j, "done")
  /\ activeMailbox' = IF activeMailbox = of[j] THEN Nobody ELSE activeMailbox
  /\ UNCHANGED <<captureOf, of, shown, cancelEvent, cancelSeen, disturbed, hmeSettings>>
-----------------------------------------------------------------------------
(* update_icloud_mailbox: the settings are read, merged and written; the  *)
(* operation lock is not taken.                                           *)

EditBegin(m) ==
  /\ editor = Nobody /\ mailboxEdits[m] < MaxMailboxEdits
  /\ editor' = m /\ editorRead' = stored[m]
  /\ UNCHANGED <<manager, stored, saver, saverRead, lastSaved, mailboxEdits, overlapped>>

EditEnd ==
  /\ editor # Nobody /\ editor' = Nobody
  /\ stored' = [stored EXCEPT ![editor] = [editorRead EXCEPT !.other = mailboxEdits[editor] + 1]]
  /\ mailboxEdits' = [mailboxEdits EXCEPT ![editor] = @ + 1]
  /\ overlapped' = overlapped \cup (IF saver # 0 /\ of[saver] = editor THEN {editor} ELSE {})
  /\ UNCHANGED <<manager, saver, saverRead, editorRead, lastSaved>>

CaptureThread(j) ==
  \/ OpenWindow(j) \/ Authenticated(j) \/ SessionSeen(j) \/ WindowCloses(j)
  \/ SaveBegin(j) \/ SaveList(j) \/ SaveStore(j) \/ PublishCaptured(j) \/ Finally(j)

CaptureNext ==
  \/ \E m \in Mailboxes : StartCapture(m) \/ CancelSet(m) \/ CancelPublish(m) \/ EditBegin(m)
  \/ \E j \in Captures : CaptureThread(j)
  \/ ShutdownCaptures \/ EditEnd

\* The window's wait has a deadline; the rest of the thread runs on.
CaptureEndsItself(j) ==
  OpenWindow(j) \/ WindowCloses(j) \/ SaveBegin(j) \/ SaveList(j) \/ SaveStore(j)
  \/ PublishCaptured(j) \/ Finally(j)

CaptureSpec == CaptureInit /\ [][CaptureNext]_captureVars
-----------------------------------------------------------------------------
(* Properties. *)

\* What is shown of a capture agrees with what is stored: a session is shown
\* as captured after it was stored, and a cancelled or failed capture has
\* stored nothing, whenever the cancellation came (captures that overlap
\* another one's thread are shown each other's states).
ShownAgreesWithStored ==
  \A m \in Mailboxes :
    /\ lastSaved[m] \notin {0} \cup disturbed => shown[lastSaved[m]] \notin {"cancelled", "failed"}
    /\ captureOf[m] \notin {0} \cup disturbed /\ shown[captureOf[m]] = "captured"
         => lastSaved[m] = captureOf[m]

\* Neither an edit nor a capture loses what the other one has stored, unless
\* it wrote between the other's read and write.
SettingsAreKept ==
  \A m \in Mailboxes :
    m \notin overlapped => stored[m] = [session |-> lastSaved[m], other |-> mailboxEdits[m]]

\* Every capture ends, whether or not the user does anything in its window.
CaptureEnds == \A j \in Captures : at[j] = "open" ~> at[j] = "done"

\* An ended capture is not shown as active, unless a cancellation was
\* published after its end, or it began before the last one's thread was over.
EndedIsShownEnded ==
  \A m \in Mailboxes :
    LET j == captureOf[m] IN
    j # 0 /\ at[j] = "done" /\ m \notin cancelSeen => shown[j] \in FinalStates \/ j \in disturbed

\* What is shown of a capture, what it stored and what it left of the settings
\* agree, whichever of cancellation, deadline, failure and edit came between.
CapturesAgree == ShownAgreesWithStored /\ SettingsAreKept /\ EndedIsShownEnded
=============================================================================

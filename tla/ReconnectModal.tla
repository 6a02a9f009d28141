---------------------------- MODULE ReconnectModal ----------------------------
(***************************************************************************)
(* The dialog a page of either portal shows while its Blazor circuit is    *)
(* out of reach, and the script behind it: it follows the runtime's        *)
(* "components-reconnect-state-changed" events, and lets the customer, or  *)
(* the tab becoming visible again, call retry() and resume().  Both are    *)
(* asynchronous and neither looks whether another call is under way, so    *)
(* several may await an answer at once.                                    *)
(*                                                                         *)
(* The script and its continuations run to completion between events, and  *)
(* the runtime dispatches its events synchronously: an answer, the event   *)
(* it causes and the continuation that awaited it are one step.  The       *)
(* runtime and the server are modelled from how the script and its markup  *)
(* use them.                                                               *)
(***************************************************************************)
CONSTANTS Call   \* the calls of retry and resume that may be under way at once

VARIABLES
  page,       \* "running", or "reloading" once location.reload() was called
  open,       \* is the dialog open
  class,      \* the state the runtime shows in the dialog's CSS class
  listening,  \* does retryWhenDocumentBecomesVisible listen to visibilitychange
  visible,    \* document.visibilityState
  call,       \* what each call awaits
  link,       \* can the server be reached
  circuit,    \* what the server has of the page's circuit
  overtaken   \* history: the calls under way since the circuit was connected by others

script  == <<page, open, listening, call>>
runtime == <<class, circuit>>
outside == <<visible, link>>
step == <<script, runtime, outside>>
vars == <<step, overtaken>>

(* idle; the await of Blazor.reconnect() in retry; of Blazor.resumeCircuit *)
(* in retry; of Blazor.resumeCircuit in resume.                            *)
CallState == {"idle", "reconnect", "retryResume", "resume"}
Class == {"hide", "show", "failed", "paused", "resumeFailed"}

(* retained: in memory without a connection; stored: only its state is     *)
(* kept, to be resumed; gone: neither.                                     *)
Circuit == {"connected", "retained", "stored", "gone"}

Init ==
  /\ page = "running" /\ open = FALSE /\ class = "hide" /\ listening = FALSE
  /\ call = [c \in Call |-> "idle"]
  /\ circuit = "connected"
  /\ visible = TRUE /\ link = TRUE
  /\ overtaken = {}
-----------------------------------------------------------------------------
(* The functions of the script. *)

Reload == page' = "reloading"

(* Mutated form: a hidden dialog is never closed. *)
HandleWithoutClosing(state) ==
  /\ open' = (open \/ state = "show")
  /\ listening' = (listening \/ state = "failed")
  /\ IF state = "rejected" THEN Reload ELSE UNCHANGED page

(* What each state of the event does; the other states do nothing. *)
HandleReconnectStateChanged(state) ==
  /\ open' = IF state \in {"show", "hide"} THEN state = "show" ELSE open
  /\ listening' = (listening \/ state = "failed")
  /\ IF state = "rejected" THEN Reload ELSE UNCHANGED page

Awaits(c, what) == call' = [call EXCEPT ![c] = what]

(* retry(), up to its first await. *)
Retry(c) ==
  /\ call[c] = "idle"
  /\ listening' = FALSE
  /\ Awaits(c, "reconnect")

(* Mutated form: the exception is swallowed. *)
RetryNever(c) == Awaits(c, "idle") /\ UNCHANGED listening

(* Its catch: the server was not reached. *)
RetryLater(c) ==
  /\ Awaits(c, "idle")
  /\ listening' = TRUE

(* Mutated form: the class is removed and nothing put in its place. *)
ResumeNever(c) ==
  /\ Awaits(c, "idle")
  /\ class' = IF class = "paused" THEN "hide" ELSE class

(* Mutated form: the class put in its place is misspelt. *)
ResumeMisnamed(c) ==
  /\ Awaits(c, "idle")
  /\ class' = IF class = "paused" THEN "resume" ELSE class

(* resume(), up to its await, and its catch. *)
Resume(c) == call[c] = "idle" /\ Awaits(c, "resume")

ResumeLater(c) ==
  /\ Awaits(c, "idle")
  /\ class' = IF class = "paused" THEN "resumeFailed" ELSE class

RetryWhenDocumentBecomesVisible ==
  IF listening /\ visible' THEN \E c \in Call : Retry(c) ELSE UNCHANGED <<listening, call>>

-----------------------------------------------------------------------------
(* The runtime: it notices that the connection is lost or that the server  *)
(* paused the circuit, tries by itself, and in the end gives up.           *)

Running == page = "running"

Disconnect ==
  /\ Running /\ circuit = "connected"
  /\ circuit' = "retained" /\ class' = "show"
  /\ HandleReconnectStateChanged("show")
  /\ UNCHANGED <<call, outside>>

(* That the runtime sends "show" here too follows from the dialog having a *)
(* text and a button for the paused page and no other way to be opened.    *)
Pause ==
  /\ Running /\ circuit = "connected" /\ link
  /\ circuit' = "stored" /\ class' = "paused"
  /\ HandleReconnectStateChanged("show")
  /\ UNCHANGED <<call, outside>>

(* The circuit has a connection again. *)
BackUp == circuit' = "connected" /\ class' = "hide" /\ HandleReconnectStateChanged("hide")

RejoinAccepted ==
  /\ Running /\ class = "show" /\ link /\ circuit = "retained"
  /\ BackUp
  /\ UNCHANGED <<call, outside>>

RejoinRejected ==
  /\ Running /\ class = "show" /\ link /\ circuit \in {"stored", "gone"}
  /\ HandleReconnectStateChanged("rejected")
  /\ UNCHANGED <<call, runtime, outside>>

GiveUp ==
  /\ Running /\ class = "show" /\ ~link
  /\ class' = "failed"
  /\ HandleReconnectStateChanged("failed")
  /\ UNCHANGED <<call, circuit, outside>>

(* The server drops what nobody is connected to; the network fails and     *)
(* recovers.                                                               *)
Forget ==
  /\ \/ circuit = "retained" /\ circuit' \in {"stored", "gone"}
     \/ circuit = "stored" /\ circuit' = "gone"
  /\ UNCHANGED <<script, class, outside>>

LinkChanges == link' = ~link /\ UNCHANGED <<script, runtime, visible>>
-----------------------------------------------------------------------------
(* The customer: the buttons are there only in the states that show them.  *)

ClickRetry(c) ==
  /\ Running /\ visible /\ class = "failed"
  /\ Retry(c)
  /\ UNCHANGED <<page, open, runtime, outside>>

ClickResume(c) ==
  /\ Running /\ visible /\ class \in {"paused", "resumeFailed"} /\ open
  /\ Resume(c)
  /\ UNCHANGED <<page, open, listening, runtime, outside>>

VisibilityChange ==
  /\ Running
  /\ visible' = ~visible
  /\ RetryWhenDocumentBecomesVisible
  /\ UNCHANGED <<page, open, runtime, link>>

(* The browser loads the page anew, with a new circuit. *)
Load ==
  /\ page = "reloading" /\ link
  /\ page' = "running" /\ open' = FALSE /\ class' = "hide" /\ listening' = FALSE
  /\ call' = [c \in Call |-> "idle"]
  /\ circuit' = "connected"
  /\ UNCHANGED outside
-----------------------------------------------------------------------------
(* The answers. *)

ReconnectThrows(c) ==
  /\ Running /\ call[c] = "reconnect" /\ ~link
  /\ RetryLater(c)
  /\ UNCHANGED <<page, open, runtime, outside>>

(* Mutated form: resumes whatever the answer to reconnect was. *)
ResumesAnyway(c) ==
  /\ Running /\ call[c] = "reconnect" /\ link /\ circuit \in {"connected", "retained"}
  /\ Awaits(c, "retryResume")
  /\ IF circuit = "retained" THEN BackUp ELSE UNCHANGED <<runtime, page, open, listening>>
  /\ UNCHANGED outside

ReconnectSucceeds(c) ==
  /\ Running /\ call[c] = "reconnect" /\ link /\ circuit \in {"connected", "retained"}
  /\ Awaits(c, "idle")
  /\ IF circuit = "retained" THEN BackUp ELSE UNCHANGED <<runtime, page, open, listening>>
  /\ UNCHANGED outside

ReconnectRejected(c) ==
  /\ Running /\ call[c] = "reconnect" /\ link /\ circuit \in {"stored", "gone"}
  /\ Awaits(c, "retryResume")
  /\ UNCHANGED <<page, open, listening, runtime, outside>>

ResumeThrows(c) ==
  /\ Running /\ ~link
  /\ \/ call[c] = "retryResume" /\ RetryLater(c) /\ UNCHANGED class
     \/ call[c] = "resume" /\ ResumeLater(c) /\ UNCHANGED listening
  /\ UNCHANGED <<page, open, circuit, outside>>

(* The stored circuit is connected again; one that another call has        *)
(* connected meanwhile needs nothing.  After either, retry closes the      *)
(* dialog itself.                                                          *)
ResumeSucceeds(c) ==
  /\ Running /\ link
  /\ \/ circuit = "stored" /\ call[c] \in {"retryResume", "resume"} /\ BackUp
     \/ circuit = "connected" /\ call[c] = "retryResume" /\ open' = FALSE
        /\ UNCHANGED <<runtime, page, listening>>
     \/ circuit = "connected" /\ call[c] = "resume" /\ UNCHANGED <<runtime, page, open, listening>>
  /\ Awaits(c, "idle")
  /\ UNCHANGED outside

(* There is no stored state: never was, or it has been used or dropped. *)
ResumeRejected(c) ==
  /\ Running /\ call[c] \in {"retryResume", "resume"} /\ link /\ circuit \in {"retained", "gone"}
  /\ Awaits(c, "idle")
  /\ Reload
  /\ UNCHANGED <<open, listening, runtime, outside>>

Answer(c) ==
  \/ ReconnectThrows(c) \/ ReconnectSucceeds(c) \/ ReconnectRejected(c)
  \/ ResumeThrows(c) \/ ResumeSucceeds(c) \/ ResumeRejected(c)

History ==
  overtaken' = {c \in Call :
    /\ call[c] # "idle" /\ call'[c] # "idle"
    /\ c \in overtaken \/ (circuit # "connected" /\ circuit' = "connected")}

Next ==
  \/ Disconnect /\ History
  \/ Pause /\ History
  \/ RejoinAccepted /\ History
  \/ RejoinRejected /\ History
  \/ GiveUp /\ History
  \/ Forget /\ History
  \/ LinkChanges /\ History
  \/ VisibilityChange /\ History
  \/ Load /\ History
  \/ \E c \in Call : ClickRetry(c) /\ History
  \/ \E c \in Call : ClickResume(c) /\ History
  \/ \E c \in Call : Answer(c) /\ History

(* The runtime keeps trying, every call is answered, the browser loads the *)
(* page once it can.  Of the customer only this: the tab is looked at      *)
(* again and again, and the Resume button of a paused page is clicked at   *)
(* some time while it can be.  The Retry button need not be.               *)
Fairness ==
  /\ WF_step(RejoinAccepted \/ RejoinRejected \/ GiveUp)
  /\ WF_step(Load)
  /\ WF_step(VisibilityChange)
  /\ \A c \in Call : WF_step(Answer(c)) /\ SF_step(ClickResume(c))

Spec == Init /\ [][Next]_vars /\ Fairness
-----------------------------------------------------------------------------
(* Types: the dialog is only ever in a state its markup has a text for,    *)
(* however the class replaced in line 55 has changed during the await.     *)
TypeOK ==
  /\ page \in {"running", "reloading"}
  /\ open \in BOOLEAN /\ listening \in BOOLEAN /\ visible \in BOOLEAN /\ link \in BOOLEAN
  /\ class \in Class
  /\ circuit \in Circuit
  /\ call \in [Call -> CallState]
  /\ overtaken \subseteq Call

Retrying(c) == call[c] \in {"reconnect", "retryResume"}

(* Once the runtime has given up, either a retry is under way or the tab   *)
(* becoming visible will start one, however the answers of several retries *)
(* and the listeners they add and remove are interleaved: lines 17, 24 and *)
(* 44 never leave the page waiting for the button alone.                   *)
RetryArmed ==
  page = "running" /\ class = "failed" => listening \/ \E c \in Call : Retrying(c)

(* The dialog, which is modal, is open exactly while the circuit is out of *)
(* reach: no late answer closes it over a broken page (line 39) or leaves  *)
(* it open over a working one (lines 12-15 and 50-53).                     *)
DialogMatches ==
  page = "running" => (open <=> circuit # "connected")

(* A page is reloaded, and what was entered in it lost, only when the      *)
(* server no longer has its circuit in memory (comment of line 33), unless *)
(* a call was overtaken: another one connected the circuit after this one  *)
(* was told that it is gone.                                               *)
ReloadsOnlyLost ==
  [][page = "running" /\ page' = "reloading" /\ circuit \in {"connected", "retained"}
       => overtaken # {}]_vars

(* A page whose server can be reached for good gets a connected circuit    *)
(* again, the old one or a new page's, without the Retry button: the       *)
(* listener of line 17 or 44, the event of line 19, the reload of line 37  *)
(* or 52 or the Resume button gets it there.                               *)
OutageEnds == <>[]link => []<>(circuit = "connected" /\ page = "running")
=============================================================================

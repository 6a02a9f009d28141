------------------------- MODULE ReconnectModal_proofs -------------------------
(***************************************************************************)
(* Proofs about ReconnectModal, for any number of calls under way at once. *)
(***************************************************************************)
EXTENDS ReconnectModal, TLAPS

(* What the dialog shows tells what the server may have of the circuit.    *)
ClassMatches ==
  page = "running" =>
    /\ circuit = "connected" <=> class = "hide"
    /\ class \in {"paused", "resumeFailed"} => circuit \in {"stored", "gone"}

(* Unless another call has connected the circuit since, one that asks for  *)
(* a resume asks about a circuit that has left the server's memory.        *)
ResumesOnlyLost ==
  page = "running" =>
    \A c \in Call : call[c] \in {"retryResume", "resume"} /\ c \notin overtaken
                      => circuit \in {"stored", "gone"}

Safe == TypeOK /\ ClassMatches /\ DialogMatches /\ RetryArmed /\ ResumesOnlyLost
-----------------------------------------------------------------------------
LEMMA SafeInit == Init => Safe
BY DEF Init, Safe, TypeOK, ClassMatches, DialogMatches, RetryArmed, ResumesOnlyLost,
       Class, Circuit, CallState

LEMMA SafeAnswer ==
  ASSUME Safe, NEW c \in Call, Answer(c), History
  PROVE  Safe'
<1>. USE DEF Safe, TypeOK, ClassMatches, DialogMatches, RetryArmed, ResumesOnlyLost, Retrying,
             Class, Circuit, CallState, Running, Awaits, History, Reload,
             script, runtime, outside
<1>1. CASE ReconnectThrows(c)
  BY <1>1 DEF ReconnectThrows, RetryLater
<1>2. CASE ReconnectSucceeds(c)
  BY <1>2 DEF ReconnectSucceeds, BackUp, HandleReconnectStateChanged
<1>3. CASE ReconnectRejected(c)
  BY <1>3 DEF ReconnectRejected
<1>4. CASE ResumeThrows(c)
  <2>1. CASE call[c] = "retryResume" /\ RetryLater(c) /\ UNCHANGED class
    BY <1>4, <2>1 DEF ResumeThrows, RetryLater
  <2>2. CASE call[c] = "resume" /\ ResumeLater(c) /\ UNCHANGED listening
    <3>1. class' = "failed" => class = "failed"
      BY <2>2 DEF ResumeLater
    <3>2. \A d \in Call : Retrying(d) => Retrying(d)'
      BY <2>2 DEF ResumeLater
    <3>3. RetryArmed'
      BY <1>4, <2>2, <3>1, <3>2 DEF ResumeThrows
    <3>4. TypeOK' /\ ClassMatches' /\ DialogMatches' /\ ResumesOnlyLost'
      BY <1>4, <2>2 DEF ResumeThrows, ResumeLater
    <3>. QED
      BY <3>3, <3>4
  <2>. QED
    BY <1>4, <2>1, <2>2 DEF ResumeThrows
<1>5. CASE ResumeSucceeds(c)
  <2>1. class' = "hide" /\ open' = FALSE /\ page' = page /\ circuit' = "connected"
    BY <1>5 DEF ResumeSucceeds, BackUp, HandleReconnectStateChanged
  <2>2. listening' = listening /\ call' = [call EXCEPT ![c] = "idle"]
    BY <1>5 DEF ResumeSucceeds, BackUp, HandleReconnectStateChanged
  <2>3. UNCHANGED <<visible, link>> /\ page = "running"
    BY <1>5 DEF ResumeSucceeds
  <2>. QED
    BY <2>1, <2>2, <2>3
<1>6. CASE ResumeRejected(c)
  BY <1>6 DEF ResumeRejected
<1>. QED
  BY <1>1, <1>2, <1>3, <1>4, <1>5, <1>6 DEF Answer

LEMMA SafeStep == Safe /\ [Next]_vars => Safe'
<1>. SUFFICES ASSUME Safe, [Next]_vars PROVE Safe'
  OBVIOUS
<1>. USE DEF Safe, TypeOK, ClassMatches, DialogMatches, RetryArmed, ResumesOnlyLost, Retrying,
             Class, Circuit, CallState, Running, Awaits, History, Reload,
             HandleReconnectStateChanged, script, runtime, outside
<1>1. CASE Disconnect /\ History
  BY <1>1 DEF Disconnect
<1>2. CASE Pause /\ History
  BY <1>2 DEF Pause
<1>3. CASE RejoinAccepted /\ History
  BY <1>3 DEF RejoinAccepted, BackUp
<1>4. CASE RejoinRejected /\ History
  BY <1>4 DEF RejoinRejected
<1>5. CASE GiveUp /\ History
  BY <1>5 DEF GiveUp
<1>6. CASE Forget /\ History
  BY <1>6 DEF Forget
<1>7. CASE LinkChanges /\ History
  BY <1>7 DEF LinkChanges
<1>8. CASE VisibilityChange /\ History
  BY <1>8 DEF VisibilityChange, RetryWhenDocumentBecomesVisible, Retry
<1>9. CASE Load /\ History
  BY <1>9 DEF Load
<1>10. CASE \E c \in Call : ClickRetry(c) /\ History
  <2>1. PICK c \in Call : ClickRetry(c) /\ History
    BY <1>10
  <2>2. call' = [call EXCEPT ![c] = "reconnect"] /\ UNCHANGED <<page, open, class, circuit, visible, link>>
    BY <2>1 DEF ClickRetry, Retry
  <2>3. Retrying(c)'
    BY <2>2
  <2>4. listening' = FALSE /\ overtaken' \subseteq Call
    BY <2>1 DEF ClickRetry, Retry
  <2>5. TypeOK' /\ ClassMatches' /\ DialogMatches'
    BY <2>2, <2>4
  <2>6. ASSUME page = "running", NEW d \in Call, call'[d] \in {"retryResume", "resume"},
               d \notin overtaken'
        PROVE  circuit \in {"stored", "gone"}
    <3>1. d # c /\ call[d] = call'[d]
      BY <2>2, <2>6
    <3>2. d \notin overtaken
      BY <2>1, <2>2, <2>6, <3>1
    <3>. QED
      BY <2>6, <3>1, <3>2
  <2>7. ResumesOnlyLost'
    BY <2>2, <2>6
  <2>. QED
    BY <2>3, <2>5, <2>7
<1>11. CASE \E c \in Call : ClickResume(c) /\ History
  BY <1>11 DEF ClickResume, Resume
<1>12. CASE \E c \in Call : Answer(c) /\ History
  BY <1>12, SafeAnswer
<1>13. CASE UNCHANGED vars
  BY <1>13 DEF vars, step
<1>. QED
  BY <1>1, <1>2, <1>3, <1>4, <1>5, <1>6, <1>7, <1>8, <1>9, <1>10, <1>11, <1>12, <1>13 DEF Next
-----------------------------------------------------------------------------
(* Every state of the page satisfies the four conjuncts of Safe.           *)
LEMMA AlwaysSafe == Spec => []Safe
BY SafeInit, SafeStep, PTL DEF Spec

(* The variables of the page, the runtime and the server keep their types, *)
(* whatever the order of events, clicks and answers.                       *)
THEOREM ModalTyped == Spec => []TypeOK
BY AlwaysSafe, PTL DEF Safe

(* For any number of calls: once the runtime gave up, a retry is under way *)
(* or the next time the tab becomes visible starts one.                    *)
THEOREM ModalArmed == Spec => []RetryArmed
BY AlwaysSafe, PTL DEF Safe

(* For any number of calls: the dialog is open exactly while the circuit   *)
(* is out of reach.                                                        *)
THEOREM ModalShowsOutage == Spec => []DialogMatches
BY AlwaysSafe, PTL DEF Safe

(* For any number of calls: a page whose circuit the server still has in   *)
(* memory is reloaded only by a call that another one overtook.            *)
THEOREM ModalReloadsOnlyLost == Spec => ReloadsOnlyLost
<1>1. Safe /\ [Next]_vars =>
        [page = "running" /\ page' = "reloading" /\ circuit \in {"connected", "retained"}
           => overtaken # {}]_vars
  <2>. SUFFICES ASSUME Safe, Next, page = "running", page' = "reloading",
                       circuit \in {"connected", "retained"}
                PROVE  overtaken # {}
    OBVIOUS
  <2>. USE DEF Safe, ResumesOnlyLost, Running, HandleReconnectStateChanged, script, runtime, outside
  <2>1. ASSUME NEW c \in Call, Answer(c) PROVE overtaken # {}
    <3>1. CASE ResumeRejected(c)
      BY <3>1 DEF ResumeRejected
    <3>2. CASE ~ResumeRejected(c)
      BY <2>1, <3>2 DEF Answer, ReconnectThrows, ReconnectSucceeds, ReconnectRejected,
                        ResumeThrows, ResumeSucceeds, BackUp
    <3>. QED
      BY <3>1, <3>2
  <2>2. ~RejoinRejected
    BY DEF RejoinRejected
  <2>. QED
    BY <2>1, <2>2 DEF Next, Disconnect, Pause, RejoinAccepted, GiveUp, Forget, LinkChanges,
                      VisibilityChange, Load, ClickRetry, ClickResume, BackUp
<1>. QED
  BY <1>1, AlwaysSafe, PTL DEF Spec, ReloadsOnlyLost
=============================================================================

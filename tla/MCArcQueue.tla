----------------------------- MODULE MCArcQueue -----------------------------
(***************************************************************************)
(* The instance of BlackholeArcMessageQueue that TLC checks, with a        *)
(* history variable: disturbed is TRUE once a call has timed out or a      *)
(* process has died with a message of its own under way, half pushed or    *)
(* not yet popped.                                                         *)
(***************************************************************************)
EXTENDS BlackholeArcMessageQueue

VARIABLE disturbed

UnderWay(c) == pc[c] \notin {"idle", "locked", "returning"}
Remember ==
  disturbed' = (disturbed \/ \E c \in Caller : UnderWay(c) /\ pc'[c] = "idle")
MCInit == Init /\ disturbed = FALSE
MCNext == Next /\ Remember
MCSpec ==
  /\ MCInit
  /\ [][MCNext]_<<vars, disturbed>>
  /\ \A c \in Caller : WF_<<vars, disturbed>>(Proceed(c) /\ Remember)

(* send_message and the answers.  Messages are answered in the order of    *)
(* the calls, whatever timed out or died.  Until a call times out or dies  *)
(* with its message under way, send_message also returns the answer to its *)
(* own message and leaves both rings empty, error answers included.        *)
AnswersMatchCalls ==
  /\ TypeOK
  /\ AnsweredInOrder
  /\ ~disturbed => OwnResponse /\ NothingLeftBehind
=============================================================================

---------------------------- MODULE RequestFifo ----------------------------
(***************************************************************************)
(* What an HTTP client object promises to the control thread that feeds    *)
(* it (DashHttp.h: "Registers new GET or HEAD request(s) ... True if the   *)
(* requests were accepted").  Requests are accepted in batches, completed  *)
(* one at a time in the order in which they were accepted, and once the    *)
(* client has stopped accepting, the ones left over can be taken back, in  *)
(* that order too.  Nothing is lost, duplicated or completed after it was  *)
(* taken back.                                                             *)
(*                                                                         *)
(* HttpClient implements this specification: its two queues together are   *)
(* "pending".                                                              *)
(***************************************************************************)
EXTENDS Integers, Sequences

CONSTANT Req            \* identifiers of the requests

VARIABLES
  pending,              \* accepted, neither completed nor taken back
  completed,            \* the completions reported, in order
  returned,             \* what clearUnfinishedRequests() handed back, in order
  accepting             \* whether newRequest() still accepts

fifoVars == <<pending, completed, returned, accepting>>

Init ==
  /\ pending = <<>>
  /\ completed = <<>>
  /\ returned = <<>>
  /\ accepting = TRUE

\* newRequest() returns true: a batch of requests goes behind the pending ones.
Accept ==
  /\ accepting
  /\ pending' \in Seq(Req)
  /\ Len(pending') > Len(pending)
  /\ SubSeq(pending', 1, Len(pending)) = pending
  /\ UNCHANGED <<completed, returned, accepting>>

\* The oldest pending request is reported as completed; its answer may be
\* the last one the client can get, and then it stops accepting.
Complete ==
  /\ pending # <<>>
  /\ completed' = Append(completed, Head(pending))
  /\ pending' = Tail(pending)
  /\ accepting' \in {accepting, FALSE}
  /\ UNCHANGED returned

\* The connection is lost.
StopAccepting ==
  /\ accepting' = FALSE
  /\ UNCHANGED <<pending, completed, returned>>

\* clearUnfinishedRequests().
TakeBack ==
  /\ ~accepting
  /\ returned' = returned \o pending
  /\ pending' = <<>>
  /\ UNCHANGED <<completed, accepting>>

Next ==
  \/ Accept
  \/ Complete
  \/ StopAccepting
  \/ TakeBack

Spec == Init /\ [][Next]_fifoVars
=============================================================================

------------------------------ MODULE UiClient ------------------------------
(***************************************************************************)
(* The dialog of the UI client and its worker thread.                      *)
(*                                                                         *)
(* The dialog's thread handles the buttons and WM_WORKER_DONE, one message *)
(* at a time; each press of Run starts a worker thread that exchanges      *)
(* requests and answers on m_socket with blocking calls.  m_socket and     *)
(* m_connected are plain members that both threads use, so DoDisconnect,   *)
(* which both may run, is split at its accesses.  A blocking call of the   *)
(* worker is one action, taken when it returns.                            *)
(*                                                                         *)
(* The server and the network are modelled by what the sockets observe: a  *)
(* server that answers the requests of a connection in order, at any time, *)
(* or closes it.  When the dialog has closed the process ends.             *)
(***************************************************************************)
EXTENDS Integers, Sequences

CONSTANTS
  Sockets,    (* the handles socket() returns, each a new one               *)
  NoSocket,   (* INVALID_SOCKET                                             *)
  BatchSize,  (* requests of the batch test (12 in the code)                *)
  MaxAsked    (* bound: requests sent while the dialog is open              *)

ASSUME UiAssumption ==
  /\ NoSocket \notin Sockets
  /\ BatchSize \in Nat \ {0}
  /\ MaxAsked \in Nat

Commands == {"request", "batch", "logout"}
Threads  == {"ui", "worker"}

VARIABLES
  dialog,       (* "open", "cancelling" or "closed"                         *)
  enabled,      (* the buttons that react to a click                        *)
  m_socket,
  m_connected,
  worker,       (* where the worker thread is, or "none"                    *)
  cmd,          (* the command it runs                                      *)
  left,         (* requests of the batch still to run after this one        *)
  closing,      (* per thread: where its DoDisconnect is                    *)
  opened,       (* sockets that were connected                              *)
  closes,       (* per socket: calls of closesocket on it                   *)
  peerOpen,     (* per socket: the server has not closed the connection     *)
  pending,      (* per socket: requests the server has still to answer      *)
  inbox,        (* per socket: answers received and not read                *)
  health,       (* ghost, per socket: see Spoil                             *)
  asked,        (* requests sent so far; each is known by its number        *)
  shown         (* history: answers shown, with the request they answer     *)

button   == <<dialog, enabled>>
shared   == <<m_socket, m_connected>>
thread   == <<worker, cmd, left>>
network  == <<pending, inbox, health>>
history  == <<asked, shown>>
vars == <<button, shared, thread, closing, opened, closes, peerOpen, network,
          history>>

Usable(s) == s # NoSocket /\ closes[s] = 0

-----------------------------------------------------------------------------
(* DoDisconnect, run by the dialog's thread (Disconnect button, Cancel) and *)
(* by the worker (Logout).                                                  *)

(* What follows it: the buttons, the end of the dialog, the end of the      *)
(* worker's command.                                                        *)
AfterDisconnect(t) ==
  IF t = "worker"
    THEN worker' = "posted" /\ UNCHANGED <<button, cmd, left>>
    ELSE /\ IF dialog = "cancelling"
              THEN dialog' = "closed" /\ UNCHANGED enabled
              ELSE enabled' = {"connect"} /\ UNCHANGED dialog
         /\ UNCHANGED thread

(* if (m_socket != INVALID_SOCKET) *)
TestSocket(t) ==
  /\ closing[t] = "test"
  /\ IF m_socket # NoSocket
       THEN closing' = [closing EXCEPT ![t] = "close"] /\ UNCHANGED <<button, thread>>
       ELSE closing' = [closing EXCEPT ![t] = "no"] /\ AfterDisconnect(t)
  /\ UNCHANGED <<shared, opened, closes, peerOpen, network, history>>

(* shutdown and closesocket of whatever m_socket is by then *)
CloseSocket(t) ==
  /\ closing[t] = "close"
  /\ closing' = [closing EXCEPT ![t] = "clear"]
  /\ closes' = [s \in Sockets |-> IF s = m_socket THEN closes[s] + 1 ELSE closes[s]]
  /\ UNCHANGED <<button, shared, thread, opened, peerOpen, network, history>>

ClearSocket(t) ==
  /\ closing[t] = "clear"
  /\ closing' = [closing EXCEPT ![t] = "no"]
  /\ m_socket' = NoSocket
  /\ m_connected' = FALSE
  /\ AfterDisconnect(t)
  /\ UNCHANGED <<opened, closes, peerOpen, network, history>>

DoDisconnect(t) == TestSocket(t) \/ CloseSocket(t) \/ ClearSocket(t)

-----------------------------------------------------------------------------
(* The handlers of the dialog's thread.                                     *)

UiIdle == dialog = "open" /\ closing["ui"] = "no"

(* Seeded fault: the Connect button stays enabled. *)
ButtonsKept == {"connect", "disconnect", "run"}
ButtonsWhenConnected == {"disconnect", "run"}

(* A DoConnect that fails closes the sockets it tried and changes nothing.  *)
DoConnect(s) ==
  /\ s \notin opened
  /\ opened' = opened \cup {s}
  /\ m_socket' = s
  /\ m_connected' = TRUE

OnBnClickedConnect(s) ==
  /\ UiIdle /\ "connect" \in enabled
  /\ DoConnect(s)
  /\ enabled' = ButtonsWhenConnected
  /\ UNCHANGED <<dialog, thread, closing, closes, peerOpen, network, history>>

OnBnClickedDisconnect ==
  /\ UiIdle /\ "disconnect" \in enabled
  /\ closing' = [closing EXCEPT !["ui"] = "test"]
  /\ UNCHANGED <<button, shared, thread, opened, closes, peerOpen, network, history>>

(* The requests a command makes after its first, one after the other. *)
FurtherRequests(k) == IF k = "batch" THEN BatchSize - 1 ELSE 0

(* The former worker, if any, is detached. *)
OnBnClickedRun(k) ==
  /\ UiIdle /\ "run" \in enabled
  /\ asked + FurtherRequests(k) < MaxAsked
  /\ left' = FurtherRequests(k)
  /\ enabled' = enabled \ {"run", "disconnect"}
  /\ worker' = "ready"
  /\ cmd' = k
  /\ UNCHANGED <<dialog, shared, closing, opened, closes, peerOpen, network, history>>

(* Seeded faults: the state of the connection is not consulted; no button   *)
(* is enabled again.                                                        *)
ButtonsAsIfConnected == {"disconnect", "run"}
ButtonsForgotten     == enabled
ButtonsWhenDone == IF m_connected THEN enabled \cup {"disconnect", "run"}
                                  ELSE {"connect"}

OnWorkerDone ==
  /\ UiIdle /\ worker = "posted"
  /\ worker' = "none"
  /\ enabled' = ButtonsWhenDone
  /\ UNCHANGED <<dialog, shared, cmd, left, closing, opened, closes, peerOpen,
                 network, history>>

(* The dialog may be closed at any time, with a worker still running. *)
OnCancel ==
  /\ UiIdle
  /\ dialog' = "cancelling"
  /\ closing' = [closing EXCEPT !["ui"] = "test"]
  /\ UNCHANGED <<enabled, shared, thread, opened, closes, peerOpen, network, history>>

-----------------------------------------------------------------------------
(* The worker thread.                                                       *)

WorkerFrame == UNCHANGED <<button, shared, opened, closes, peerOpen>>

(* Seeded faults: one request of the batch too many; the batch stays at    *)
(* the same request.                                                       *)
EndCommandAgain ==
  left' = left /\ worker' = IF left > 0 THEN "ready" ELSE "posted"
EndCommandLate ==
  /\ left' = left - 1
  /\ worker' = IF left >= 0 THEN "ready" ELSE "posted"

(* A Run... function returns: the batch goes on, whatever its outcome was,  *)
(* and after the last one the thread posts WM_WORKER_DONE.                  *)
EndCommand ==
  IF left > 0 THEN left' = left - 1 /\ worker' = "ready"
              ELSE left' = left /\ worker' = "posted"

(* What goes wrong on a connection while it stays in use: "late" after a    *)
(* receive timeout between two answers, "garbled" after one within an       *)
(* answer, or after a request was sent in part.                             *)
Spoil(s, how) ==
  health' = [health EXCEPT ![s] = IF @ = "garbled" THEN @ ELSE how]

NotConnected ==
  /\ worker = "ready" /\ ~m_connected
  /\ EndCommand
  /\ UNCHANGED <<cmd, closing, network, history>>
  /\ WorkerFrame

(* SendMsg succeeds: the request is on its way. *)
Deliver == asked' = asked + 1 /\ pending' = [pending EXCEPT ![m_socket] = Append(@, asked')]

SendRequest ==
  /\ worker = "ready" /\ m_connected /\ cmd # "logout" /\ Usable(m_socket)
  /\ Deliver
  /\ worker' = "waiting"
  /\ UNCHANGED <<cmd, left, closing, inbox, health, shown>>
  /\ WorkerFrame

(* SendMsg fails, by an error or its timeout, perhaps with a part sent. *)
SendFails ==
  /\ worker = "ready" /\ m_connected /\ cmd # "logout"
  /\ asked' = asked + 1
  /\ IF Usable(m_socket) THEN Spoil(m_socket, "garbled") ELSE UNCHANGED health
  /\ EndCommand
  /\ UNCHANGED <<cmd, closing, pending, inbox, shown>>
  /\ WorkerFrame

(* RecvMsg succeeds and the command shows what it received as the answer to *)
(* its own request.  On a garbled connection that may be anything.          *)
RecvAnswer ==
  /\ worker = "waiting" /\ Usable(m_socket) /\ inbox[m_socket] # <<>>
  /\ \E got \in IF health[m_socket] = "garbled" THEN 1 .. asked
                                                ELSE {Head(inbox[m_socket])} :
       shown' = shown \cup {[to |-> asked, got |-> got,
                             clean |-> health[m_socket] = "good"]}
  /\ inbox' = [inbox EXCEPT ![m_socket] = Tail(@)]
  /\ EndCommand
  /\ UNCHANGED <<cmd, closing, pending, health, asked>>
  /\ WorkerFrame

(* RecvMsg fails: nothing came for 10 s, or a part of an answer, or the     *)
(* connection is closed at either end, or a header decodes to nonsense.     *)
(* The socket stays as it is.                                               *)
RecvFails ==
  /\ worker = "waiting"
  /\ IF ~Usable(m_socket) THEN UNCHANGED health
     ELSE \/ inbox[m_socket] = <<>> /\ Spoil(m_socket, "late")
          \/ inbox[m_socket] = <<>> /\ pending[m_socket] # <<>>
                                    /\ Spoil(m_socket, "garbled")
          \/ health[m_socket] = "garbled" /\ UNCHANGED health
  /\ EndCommand
  /\ UNCHANGED <<cmd, closing, pending, inbox, history>>
  /\ WorkerFrame

(* Seeded fault: the connection is kept after the notification. *)
LeaveOpen == worker' = "posted" /\ UNCHANGED closing
Leave == worker' = "leaving" /\ closing' = [closing EXCEPT !["worker"] = "test"]

(* RunLogout sends a ping, ignores whether that succeeds, waits 50 ms and   *)
(* disconnects without reading the answer.                                  *)
RunLogout ==
  /\ worker = "ready" /\ m_connected /\ cmd = "logout"
  /\ \/ Usable(m_socket) /\ Deliver
     \/ asked' = asked + 1 /\ UNCHANGED pending
  /\ Leave
  /\ UNCHANGED <<cmd, left, inbox, health, shown>>
  /\ WorkerFrame

WorkerStep ==
  /\ dialog # "closed"
  /\ \/ NotConnected
     \/ SendRequest
     \/ SendFails
     \/ RecvAnswer
     \/ RecvFails
     \/ RunLogout
     \/ DoDisconnect("worker")

-----------------------------------------------------------------------------
(* The server, as the sockets observe it.                                   *)

Answer(s) ==
  /\ peerOpen[s] /\ pending[s] # <<>>
  /\ pending' = [pending EXCEPT ![s] = Tail(@)]
  /\ inbox' = [inbox EXCEPT ![s] = Append(@, Head(pending[s]))]
  /\ UNCHANGED <<button, shared, thread, closing, opened, closes, peerOpen,
                 health, history>>

PeerCloses(s) ==
  /\ s \in opened /\ peerOpen[s]
  /\ peerOpen' = [peerOpen EXCEPT ![s] = FALSE]
  /\ UNCHANGED <<button, shared, thread, closing, opened, closes, network, history>>

-----------------------------------------------------------------------------

Init ==
  /\ dialog = "open"
  /\ enabled = {"connect"}
  /\ m_socket = NoSocket
  /\ m_connected = FALSE
  /\ worker = "none" /\ cmd = "request" /\ left = 0
  /\ closing = [t \in Threads |-> "no"]
  /\ opened = {}
  /\ closes = [s \in Sockets |-> 0]
  /\ peerOpen = [s \in Sockets |-> TRUE]
  /\ pending = [s \in Sockets |-> <<>>]
  /\ inbox = [s \in Sockets |-> <<>>]
  /\ health = [s \in Sockets |-> "good"]
  /\ asked = 0
  /\ shown = {}

Click ==
  \/ \E s \in Sockets : OnBnClickedConnect(s)
  \/ OnBnClickedDisconnect
  \/ \E k \in Commands : OnBnClickedRun(k)
  \/ OnCancel

UiStep == dialog # "closed" /\ (OnWorkerDone \/ DoDisconnect("ui"))

(* The process has ended. *)
Closed == dialog = "closed" /\ UNCHANGED vars

Next ==
  \/ Click
  \/ UiStep
  \/ WorkerStep
  \/ dialog # "closed" /\ \E s \in Sockets : Answer(s) \/ PeerCloses(s)
  \/ Closed

Spec == Init /\ [][Next]_vars

(* Both threads run, the dialog's message loop handles what was posted, and *)
(* the timeouts make every blocking call of the worker return.  The user    *)
(* and the server owe nothing.                                              *)
Fairness == WF_vars(UiStep) /\ WF_vars(WorkerStep)

FairSpec == Spec /\ Fairness

-----------------------------------------------------------------------------
(* Properties.                                                              *)

(* Every variable stays in its type. *)
TypeOK ==
  /\ dialog \in {"open", "cancelling", "closed"}
  /\ enabled \subseteq {"connect", "disconnect", "run"}
  /\ m_socket \in Sockets \cup {NoSocket}
  /\ m_connected \in BOOLEAN
  /\ worker \in {"none", "ready", "waiting", "leaving", "posted"}
  /\ cmd \in Commands
  /\ left \in 0 .. BatchSize - 1
  /\ closing \in [Threads -> {"no", "test", "close", "clear"}]
  /\ opened \subseteq Sockets
  /\ closes \in [Sockets -> Nat]
  /\ peerOpen \in [Sockets -> BOOLEAN]
  /\ pending \in [Sockets -> Seq(1 .. asked)]
  /\ inbox \in [Sockets -> Seq(1 .. asked)]
  /\ health \in [Sockets -> {"good", "late", "garbled"}]
  /\ asked \in Nat
  /\ shown \subseteq [to : 1 .. asked, got : 1 .. asked, clean : BOOLEAN]

(* Between two handlers the buttons tell what the user can do: while a      *)
(* worker runs nothing but closing the dialog (MainDlg.cpp:279-282), and    *)
(* otherwise Disconnect and Run exactly when there is a connection, Connect *)
(* exactly when there is none.                                              *)
ButtonsTellTruth ==
  UiIdle =>
    /\ worker # "none" => enabled = {}
    /\ worker = "none" /\ m_connected => enabled = {"disconnect", "run"}
    /\ worker = "none" /\ ~m_connected => enabled = {"connect"}

(* While the dialog is open no handle is lost or closed twice, whichever    *)
(* thread disconnects (MainDlg.cpp:439-447): each socket that was opened is *)
(* closed once, but for the one in m_socket, which may be open.             *)
SocketsAccounted ==
  dialog = "open" =>
    /\ \A s \in opened : closes[s] = 1 \/ (closes[s] = 0 /\ s = m_socket)
    /\ m_connected <=> m_socket # NoSocket

(* A command never shows the answer to an earlier request as its own        *)
(* (MainDlg.cpp:511-527), as long as no receive timed out and no send       *)
(* failed before on that connection.                                        *)
AnswersMatch == \A a \in shown : a.clean => a.got = a.to

(* The steps of the worker until its command is over and the dialog knows, *)
(* at most: two for each request, and the disconnect of a Logout.          *)
WorkerSteps ==
  CASE worker = "none"    -> 0
    [] worker = "posted"  -> 1
    [] worker = "leaving" -> [clear |-> 2, close |-> 3, test |-> 4][closing["worker"]]
    [] worker = "waiting" -> 4 + 2 * left
    [] worker = "ready"   -> 5 + 2 * left

(* A command only comes nearer to its end, whatever fails in it and        *)
(* whatever the user and the server do meanwhile: no request is tried      *)
(* again, and no second command takes the place of one that still runs     *)
(* (MainDlg.cpp:279-362).                                                  *)
CommandDrains ==
  [][worker # "none" =>
       \/ UNCHANGED <<worker, left, closing["worker"]>>
       \/ WorkerSteps' < WorkerSteps]_vars

(* A worker that was started comes back: the dialog offers its buttons      *)
(* again, however the server behaves, or the user closed it                 *)
(* (MainDlg.cpp:309, 347-362).                                              *)
CommandEnds == worker # "none" ~> dialog # "open" \/ enabled # {}

(* What comments and documents say and the code does not do.                *)

(* A Logout can safely close the socket from the worker thread              *)
(* (MainDlg.cpp:591-592), and m_socket is only modified from the UI thread  *)
(* while no worker is running (ARCHITECTURE.md:309-311): the socket is not  *)
(* closed a second time by the dialog.                                      *)
ClosedOnce == \A s \in Sockets : closes[s] <= 1

=============================================================================

---------------------------- MODULE PostContract ----------------------------
(***************************************************************************)
(* What Conn.Post promises its caller, without sockets, ids or goroutines. *)
(* A request is executed at most once, at any time after it was handed     *)
(* over, even after its call has returned.  A call that returns a reply    *)
(* returns the answer to its own request; one that is refused promises     *)
(* that the request was not and will never be executed; any other error    *)
(* promises nothing.                                                       *)
(***************************************************************************)
CONSTANT Posts

VARIABLES
  status,    \* "idle", "calling", "replied", "refused", "unknown"
  executed,  \* how often the exchange has executed each request
  answer     \* the request whose answer a call returned

vars == <<status, executed, answer>>

Init ==
  /\ status = [p \in Posts |-> "idle"]
  /\ executed = [p \in Posts |-> 0]
  /\ answer = [p \in Posts |-> {}]

Begin(p) ==
  /\ status[p] = "idle"
  /\ status' = [status EXCEPT ![p] = "calling"]
  /\ UNCHANGED <<executed, answer>>

Execute(p) ==
  /\ status[p] \in {"calling", "unknown"}
  /\ executed[p] = 0
  /\ executed' = [executed EXCEPT ![p] = 1]
  /\ UNCHANGED <<status, answer>>

Reply(p) ==
  /\ status[p] = "calling"
  /\ executed[p] = 1
  /\ status' = [status EXCEPT ![p] = "replied"]
  /\ answer' = [answer EXCEPT ![p] = {p}]
  /\ UNCHANGED executed

Refuse(p) ==
  /\ status[p] \in {"idle", "calling"}
  /\ executed[p] = 0
  /\ status' = [status EXCEPT ![p] = "refused"]
  /\ UNCHANGED <<executed, answer>>

GiveUp(p) ==
  /\ status[p] \in {"idle", "calling"}
  /\ status' = [status EXCEPT ![p] = "unknown"]
  /\ UNCHANGED <<executed, answer>>

Next ==
  \E p \in Posts : Begin(p) \/ Execute(p) \/ Reply(p) \/ Refuse(p) \/ GiveUp(p)

Spec == Init /\ [][Next]_vars
=============================================================================

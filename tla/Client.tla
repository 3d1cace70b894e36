------------------------------- MODULE Client -------------------------------
(***************************************************************************)
(* The root client (client.go) and its signer (internal/signing/signer.go): *)
(* two lazily created WebSocket connections behind sync.Once, the life      *)
(* context, the private key, and Close, which ends them one after the other *)
(* while calls of other goroutines go on.  A connection is here only its    *)
(* constructor, Start and Close; WsConn is its inside.                     *)
(***************************************************************************)
EXTENDS Naturals, Sequences

CONSTANT Calls   \* the calls made on the client, each performed once

Conns == {"stream", "post"}

ASSUME ClientAssumption == Calls \cap {"unused", "done"} = {}

VARIABLES
  life,      \* the life context is not cancelled
  once,      \* per connection: "unused", "done", or the call inside Do
  conn,      \* per connection: "nil", "new", "running" or "closed"
  key,       \* "good", "zero" (wiped) or "none" (read-only client)
  enabled,   \* Signer.enabled
  closing    \* how many steps of Close are done

clientVars == <<life, once, conn, key, enabled, closing>>

\* Close's calls, in their order; a pair where the call is made per connection.
CloseSteps == << <<"cancel">>, <<"resolve", "stream">>, <<"resolve", "post">>,
                 <<"close", "stream">>, <<"close", "post">>,
                 <<"idle">>, <<"zero">>, <<"disable">> >>
Closing(step) ==
  /\ closing < Len(CloseSteps) /\ CloseSteps[closing + 1] = step
  /\ closing' = closing + 1
Closed == closing = Len(CloseSteps)

ClientTypeOK ==
  /\ life \in BOOLEAN /\ enabled \in BOOLEAN
  /\ once \in [Conns -> {"unused", "done"} \cup Calls]
  /\ conn \in [Conns -> {"nil", "new", "running", "closed"}]
  /\ key \in {"good", "zero", "none"}
  /\ closing \in 0 .. Len(CloseSteps)

InitClient ==
  /\ life = TRUE
  /\ once = [k \in Conns |-> "unused"]
  /\ conn = [k \in Conns |-> "nil"]
  /\ key \in {"good", "none"}
  /\ enabled = (key = "good")
  /\ closing = 0

\* StreamConn, PostConn: the first caller runs the function of the Once; the
\* others wait until it is done.
UseBegins(k, c) ==
  /\ once[k] = "unused"
  /\ once' = [once EXCEPT ![k] = c]
  /\ conn' = [conn EXCEPT ![k] = "new"]
  /\ UNCHANGED <<life, key, enabled, closing>>

UseEnds(k, c) ==
  /\ once[k] = c
  /\ once' = [once EXCEPT ![k] = "done"]
  /\ conn' = [conn EXCEPT ![k] = "running"]
  /\ UNCHANGED <<life, key, enabled, closing>>

CancelLife ==
  /\ Closing(<<"cancel">>)
  /\ life' = FALSE
  /\ UNCHANGED <<once, conn, key, enabled>>

\* Mutant: Close leaves a connection nobody used to its first user.
ResolveNot(k) ==
  /\ Closing(<<"resolve", k>>)
  /\ UNCHANGED <<life, once, conn, key, enabled>>

\* Close's own Do: a connection nobody used yet is created and never started.
Resolve(k) ==
  /\ Closing(<<"resolve", k>>)
  /\ \/ /\ once[k] = "unused"
        /\ once' = [once EXCEPT ![k] = "done"]
        /\ conn' = [conn EXCEPT ![k] = "new"]
     \/ /\ once[k] = "done"
        /\ UNCHANGED <<once, conn>>
  /\ UNCHANGED <<life, key, enabled>>

CloseConn(k) ==
  /\ Closing(<<"close", k>>)
  /\ conn' = [conn EXCEPT ![k] = "closed"]
  /\ UNCHANGED <<life, once, key, enabled>>

\* rest.Close drops idle connections only: requests on their way go on.
CloseIdle ==
  /\ Closing(<<"idle">>)
  /\ UNCHANGED <<life, once, conn, key, enabled>>

\* Signer.Close wipes the key and then disables, under no lock.
ZeroKey ==
  /\ Closing(<<"zero">>)
  /\ key' = IF key = "none" THEN "none" ELSE "zero"
  /\ UNCHANGED <<life, once, conn, enabled>>

Disable ==
  /\ Closing(<<"disable">>)
  /\ enabled' = FALSE
  /\ UNCHANGED <<life, once, conn, key>>

CloseStep ==
  \/ CancelLife
  \/ \E k \in Conns : Resolve(k) \/ CloseConn(k)
  \/ CloseIdle \/ ZeroKey \/ Disable

\* What a goroutine not synchronised with Close may read from enabled.
EnabledReads == {enabled} \cup (IF key = "zero" THEN {TRUE} ELSE {})

(***************************************************************************)
(* Properties.                                                             *)
(***************************************************************************)
\* Close ends both connections for good, also one whose first use runs into it
\* or comes later: after Close nothing of the client runs (client.go:251-272).
CloseStopsAll ==
  Closed => /\ ~ life
            /\ \A k \in Conns : once[k] = "done" /\ conn[k] = "closed"
=============================================================================

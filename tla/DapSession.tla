----------------------------- MODULE DapSession -----------------------------
(***************************************************************************)
(* What a debugging session promises the client of the Debug Adapter       *)
(* Protocol, and no more: requests are taken in the order they were sent,  *)
(* the program starts when the client has configured it, a stopped program *)
(* goes on only when the client asks for it, and after every step the      *)
(* client has been told what the program does.  Session implements it.     *)
(***************************************************************************)
EXTENDS Sequences

CONSTANTS
  Request,      \* what a client may ask for
  Configuring,  \* the requests that end the initialization
  Resuming,     \* those that let a stopped program go on
  Pausing       \* those that stop it

VARIABLES
  requests,   \* sent and not handled yet
  execution,  \* "starting", "running", "stopped" or "over"
  told        \* what the client was last told of the execution

dapVars == <<requests, execution, told>>

TypeOK ==
  /\ requests \in Seq(Request)
  /\ execution \in {"starting", "running", "stopped", "over"}
  /\ told \in {"running", "stopped", "over"}

(* The client hears nothing that tells a program that runs from one that   *)
(* has not started.                                                        *)
Becomes(e) ==
  /\ execution' = e
  /\ told' = IF e = "starting" THEN "running" ELSE e

Init ==
  /\ requests \in Seq(Request)
  /\ execution = "starting"
  /\ told = "running"

Ask ==
  /\ execution # "over"
  /\ \E r \in Request : requests' = Append(requests, r)
  /\ UNCHANGED <<execution, told>>

(* The effect of a request on the execution.                               *)
After(r) ==
  IF execution = "starting"
  THEN IF r \in Configuring THEN "running" ELSE "starting"
  ELSE IF r \in Resuming THEN "running"
  ELSE IF r \in Pausing THEN "stopped" ELSE execution

Serve ==
  /\ execution # "over"
  /\ requests # << >>
  /\ execution = "starting" => Head(requests) \notin Resuming \union Pausing
  /\ requests' = Tail(requests)
  /\ Becomes(After(Head(requests)))

(* A breakpoint, or the end of a step.                                     *)
Stop ==
  /\ execution = "running"
  /\ Becomes("stopped")
  /\ UNCHANGED requests

(* The program ends, or a request ends the session.                        *)
End ==
  /\ execution # "over"
  /\ Becomes("over")
  /\ UNCHANGED requests \/ (requests # << >> /\ requests' = Tail(requests))

Next == Ask \/ Serve \/ Stop \/ End

Spec == Init /\ [][Next]_dapVars

(* A request does not wait for ever while the session lasts.               *)
Served == (requests # << >>) ~> (requests = << >> \/ execution = "over")

FairSpec == Spec /\ Served
=============================================================================

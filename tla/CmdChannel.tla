----------------------------- MODULE CmdChannel -----------------------------
(***************************************************************************)
(* The command channel of the scanner: pakon_cmd (src/pakon_cmd.c), a      *)
(* pakon_usb_send on the interrupt endpoint 0x01 and a pakon_usb_recv on   *)
(* 0x81.  The two endpoints know nothing of each other: the device answers *)
(* the commands it accepted in their order, when it gets to them, and the  *)
(* next recv returns the oldest answer there is, whichever command it was  *)
(* for.  Neither pakon_cmd nor its callers compare a reply with the        *)
(* command it should answer.                                               *)
(*                                                                         *)
(* A module that drives the channel says what the device does with a       *)
(* command, and what it answers, when it serves one.                       *)
(***************************************************************************)
EXTENDS Integers, Sequences

CONSTANT EndpointCap   \* bound: commands and replies the endpoints can hold

ASSUME EndpointAssumption == EndpointCap \in Nat \ {0}

VARIABLES
  awaiting,    \* the host sent a command and is in recv
  requests,    \* commands the device accepted and has not served
  replies,     \* statuses the device answered that no recv has returned
  errs         \* some transfer failed in this session (errs # 0)

channel == <<awaiting, requests, replies, errs>>

ChannelTypeOK(commands, statuses) ==
  /\ awaiting \in BOOLEAN
  /\ requests \in Seq(commands)
  /\ replies \in Seq(statuses)
  /\ errs \in BOOLEAN

ChannelInit ==
  awaiting = FALSE /\ requests = <<>> /\ replies = <<>> /\ errs = FALSE

Pending == Len(requests) + Len(replies)

\* Nothing is in flight: the next reply can only be to the next command.
Quiet == requests = <<>> /\ replies = <<>>

-----------------------------------------------------------------------------
(* Host.                                                                   *)

Sends(cmd) ==
  /\ ~awaiting /\ Pending < EndpointCap
  /\ requests' = Append(requests, cmd)
  /\ awaiting' = TRUE
  /\ UNCHANGED <<replies, errs>>

\* A send nobody reads the answer of: pakon_cmd without a reply, or a bare
\* pakon_usb_send.
Posts(cmd) ==
  /\ ~awaiting /\ Pending < EndpointCap
  /\ requests' = Append(requests, cmd)
  /\ UNCHANGED <<awaiting, replies, errs>>

\* A failed send is not followed by a recv.  A send that timed out or stalled
\* may have reached the device all the same.
SendFails(cmd) ==
  /\ ~awaiting
  /\ errs' = TRUE
  /\ \/ UNCHANGED requests
     \/ Pending < EndpointCap /\ requests' = Append(requests, cmd)
  /\ UNCHANGED <<awaiting, replies>>

Receives(status) ==
  /\ awaiting /\ replies # <<>>
  /\ status = Head(replies)
  /\ replies' = Tail(replies)
  /\ awaiting' = FALSE
  /\ UNCHANGED <<requests, errs>>

\* Variant: a failed recv is not counted.
ReceiveFailsUncounted ==
  /\ awaiting
  /\ awaiting' = FALSE
  /\ \/ UNCHANGED replies
     \/ replies # <<>> /\ replies' = Tail(replies)
  /\ UNCHANGED <<requests, errs>>

\* The recv times out or the endpoint stalls; a reply that was there may be
\* lost with it, or be refused by pakon_packet_parse.
ReceiveFails ==
  /\ awaiting
  /\ errs' = TRUE
  /\ awaiting' = FALSE
  /\ \/ UNCHANGED replies
     \/ replies # <<>> /\ replies' = Tail(replies)
  /\ UNCHANGED requests

-----------------------------------------------------------------------------
(* Device.                                                                 *)

Serves(cmd, status) ==
  /\ requests # <<>>
  /\ cmd = Head(requests)
  /\ requests' = Tail(requests)
  /\ replies' = Append(replies, status)
  /\ UNCHANGED <<awaiting, errs>>

=============================================================================

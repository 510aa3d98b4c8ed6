--------------------------- MODULE MCPartnerTransport ---------------------------
(***************************************************************************)
(* The two ends of the partner transport in one small instance.  They      *)
(* share no variable (the dispatcher's partner and the receiver's network  *)
(* are each other's environment, modelled by nondeterminism), so a step of *)
(* one end changes nothing that the other end's properties speak of: each  *)
(* end is explored completely while the other one rests in its initial     *)
(* state, instead of exploring their product.                              *)
(***************************************************************************)
EXTENDS PartnerDispatcher, WebhookReceiver, TLC

TransportInit == Init /\ ReceiverInit

SendingEnd == ReceiverInit /\ Next /\ UNCHANGED receiverVars

ReceivingEnd == Init /\ ReceiverNext /\ UNCHANGED vars

TransportSpec ==
  TransportInit /\ [][SendingEnd \/ ReceivingEnd]_<<vars, receiverVars>>

\* Dispatcher processes are interchangeable.
InterchangeableWorkers == Permutations(Workers)

=============================================================================

---------------------------- MODULE UsbEndpoint ----------------------------
(***************************************************************************)
(* One endpoint descriptor of the firmware's USB stack (struct ep_descr in *)
(* usb/usb.h) and the two operations every component performs on it:       *)
(* usb_io(), which opens a transfer, and ep_tx(), which copies one packet  *)
(* of it into the bank of the USB controller.                              *)
(*                                                                         *)
(* "buf" names the memory the transfer reads: the descriptor holds a       *)
(* pointer, so what is sent is what that memory holds when ep_tx() runs.   *)
(* "left" is ep->end - ep->buf, in bytes.                                  *)
(***************************************************************************)
EXTENDS Naturals

EP_SIZE == 64               \* bytes per packet on EP0 and EP1

EpIdle(ep) == ep.state = "EP_IDLE"

\* usb_io() past its BUG_ON: the caller shows that the endpoint is idle.
Opened(state, buf, left, callback) ==
    [state |-> state, buf |-> buf, left |-> left, callback |-> callback]

\* How many bytes ep_tx() moves: what is left, at most a packet.
PacketSize(ep) == IF ep.left > EP_SIZE THEN EP_SIZE ELSE ep.left

\* ep_tx(): a full packet keeps the transfer open (a transfer whose length is
\* a multiple of EP_SIZE ends with an empty packet), a short one closes it.
AfterPacket(ep) ==
    [ep EXCEPT !.left  = @ - PacketSize(ep),
               !.state = IF PacketSize(ep) = EP_SIZE THEN @ ELSE "EP_IDLE"]
=============================================================================

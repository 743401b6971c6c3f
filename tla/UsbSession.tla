----------------------------- MODULE UsbSession -----------------------------
(***************************************************************************)
(* A process and the scanner on the bus (src/pakon_usb.c): the libusb      *)
(* context, the open handle, and the claim on interface 0, which the       *)
(* operating system and the pakon_dev each keep a note of.                 *)
(***************************************************************************)
EXTENDS Integers

VARIABLES
  bus,       \* the scanner: "absent", "cold", "booting" or "warm"
  ctx,       \* the process has a context
  handle,    \* "none", "live", or "gone": open on a device that left the bus
  held,      \* the operating system gave interface 0 to this handle
  claimed    \* dev->claimed

usb  == <<bus, ctx, handle, held, claimed>>
mine == <<ctx, handle, held, claimed>>

UsbTypeOK ==
  /\ bus \in {"absent", "cold", "booting", "warm"}
  /\ ctx \in BOOLEAN /\ handle \in {"none", "live", "gone"}
  /\ held \in BOOLEAN /\ claimed \in BOOLEAN

NothingHeld == ctx = FALSE /\ handle = "none" /\ held = FALSE /\ claimed = FALSE

UsbInit == bus \in {"cold", "warm"} /\ NothingHeld

-----------------------------------------------------------------------------

InitUsb == ctx' = TRUE /\ UNCHANGED <<bus, handle, held, claimed>>

ExitUsb == ctx' = FALSE /\ UNCHANGED <<bus, handle, held, claimed>>

\* pakon_usb_find: a scanner that is re-enumerating is not on the bus.
Found == IF bus \in {"warm", "cold"} THEN bus ELSE "none"

\* pakon_usb_open and its cache of the endpoints; it may fail on a device that
\* is there, and then gives the handle back.
Open == Found = "warm" /\ handle' = "live" /\ UNCHANGED <<bus, ctx, held, claimed>>

\* pakon_usb_load_firmware's open of the bootstrap device.  It claims the
\* interface without looking whether that worked.
OpenCold ==
  /\ Found = "cold"
  /\ handle' = "live" /\ held' \in BOOLEAN
  /\ UNCHANGED <<bus, ctx, claimed>>

Claim ==
  /\ handle = "live"
  /\ held' = TRUE /\ claimed' = TRUE
  /\ UNCHANGED <<bus, ctx, handle>>

\* Variant: an interface whose setting was refused is kept.
ClaimFailsKeepsIt ==
  /\ held' \in {held, handle = "live"}
  /\ UNCHANGED <<bus, ctx, handle, claimed>>

\* The interface is busy, or its alternate setting is refused: then it is
\* released again.
ClaimFails == UNCHANGED usb

Release ==
  /\ held' = (held /\ ~claimed) /\ claimed' = FALSE
  /\ UNCHANGED <<bus, ctx, handle>>

\* pakon_usb_close releases what is claimed; libusb_close lets go of the rest.
Close ==
  /\ handle' = "none" /\ held' = FALSE /\ claimed' = FALSE
  /\ UNCHANGED <<bus, ctx>>

\* The operating system's clean-up after a process that died.
Reaped == ctx' = FALSE /\ handle' = "none" /\ held' = FALSE /\ claimed' = FALSE

-----------------------------------------------------------------------------
(* The scanner comes and goes; a handle it leaves stays open.              *)

Leaves(to) ==
  /\ bus' = to
  /\ handle' = IF handle = "live" THEN "gone" ELSE handle
  /\ held' = FALSE
  /\ UNCHANGED <<ctx, claimed>>

Appears(as) == bus' = as /\ UNCHANGED mine

=============================================================================

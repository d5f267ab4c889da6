---------------------------- MODULE UsbInterface ----------------------------
(***************************************************************************)
(* Interface 2 of the speaker and its kernel driver, as LibUsbTransport of   *)
(* src/usb/device.rs takes and returns them.  A handle that the sink drops   *)
(* is retired: the worker thread that owns it releases it later, in two      *)
(* calls, while the sink may be opening the next one.                        *)
(*                                                                          *)
(* libusb and the kernel are external: one claim at a time, none while a     *)
(* kernel driver is bound, no driver bound while the interface is claimed;   *)
(* any call may fail.                                                        *)
(***************************************************************************)

VARIABLES
    holder,   \* who has claimed the interface: "nobody", "sink", "retired"
    driver,   \* a kernel driver is bound to it
    debtor    \* who has detached_kernel_driver set: "nobody", the opening or
              \* open handle ("sink"), a retired one that still holds its
              \* claim ("retired") or has released it ("released")
usbVars == <<holder, driver, debtor>>

UsbTypeOK ==
    /\ holder \in {"nobody", "sink", "retired"}
    /\ driver \in BOOLEAN
    /\ debtor \in {"nobody", "sink", "retired", "released"}

(* The speaker appears with its driver, and takes all claims with it.        *)
UsbAppears == holder' = "nobody" /\ debtor' = "nobody" /\ driver' = TRUE
UsbGone    == holder' = "nobody" /\ debtor' = "nobody" /\ driver' = FALSE

(* open: kernel_driver_active, and detach_kernel_driver if it is.            *)
DetachDriver ==
    /\ driver' = FALSE /\ debtor' = IF driver THEN "sink" ELSE debtor
    /\ UNCHANGED holder

ClaimInterface ==
    /\ holder = "nobody" /\ ~driver
    /\ holder' = "sink" /\ UNCHANGED <<driver, debtor>>

(* claim_failure_with_recovery; the attempt to reattach may fail as well.    *)
Reattached == {driver, driver \/ holder = "nobody"}
ClaimFailed ==
    /\ driver' \in IF debtor = "sink" THEN Reattached ELSE {driver}
    /\ debtor' = IF debtor = "sink" THEN "nobody" ELSE debtor
    /\ UNCHANGED holder

(* Drop, by the thread that holds the handle (the factory, whose blackout    *)
(* failed) and by the worker thread later.                                   *)
Dropped ==
    /\ holder' = IF holder = "sink" THEN "nobody" ELSE holder
    /\ driver' \in IF debtor = "sink" THEN {driver, TRUE} ELSE {driver}
    /\ debtor' = IF debtor = "sink" THEN "nobody" ELSE debtor

Retired ==
    /\ holder' = IF holder = "sink" THEN "retired" ELSE holder
    /\ debtor' = IF debtor = "sink" THEN "retired" ELSE debtor
    /\ UNCHANGED driver

Release ==
    /\ holder = "retired" /\ holder' = "nobody"
    /\ debtor' = IF debtor = "retired" THEN "released" ELSE debtor
    /\ UNCHANGED driver

Reattach ==
    /\ debtor = "released" /\ debtor' = "nobody"
    /\ driver' \in Reattached
    /\ UNCHANGED holder

(* docs/usb-and-safety.md:16: "`Drop` releases the interface and reattaches  *)
(* the original kernel driver when needed".  It does not where the sink has  *)
(* claimed the interface between the two calls: the reattachment fails, and  *)
(* the new handle found no driver that it would reattach.                    *)
ReattachedBeforeReclaimed == debtor = "released" => holder = "nobody"
=============================================================================

--------------------------- MODULE MC_Dwc3Kretprobe ----------------------------
(* Dwc3Kretprobe with four probes, in the table's order:                     *)
(* dwc3_gadget_run_stop(), android_work(), usb_ep_set_maxpacket_limit() and  *)
(* dwc3_suspend_common(); the two in the middle are not dwc3_msm's.          *)
EXTENDS Dwc3Kretprobe

MiddleTwo == {2, 3}
================================================================================

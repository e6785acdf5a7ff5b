----------------------------- MODULE MCEventLoop -----------------------------
(* The instance of EventLoop for TLC: three devices, and outputs to destroy. *)
EXTENDS EventLoop
ThreeDevices == {"kbd", "mouse", "pad"}
=============================================================================

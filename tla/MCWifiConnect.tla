--------------------------- MODULE MCWifiConnect ---------------------------
(***************************************************************************)
(* What the README says of WifiConnect and the code does not keep.         *)
(***************************************************************************)
EXTENDS WifiConnect

\* README.md:11 promises "WiFi auto-reconnect": after a successful connection
\* the radio is never left idle with nobody to call esp_wifi_connect again.
NeverStranded == ~(wc = "connected" /\ drv = "idle" /\ Settled)
=============================================================================

---- MODULE MCUdpIngress ----
EXTENDS UdpIngress
====

-------------------------- MODULE MC_AdmissionWebhook --------------------------
(* AdmissionWebhook instantiated for TLC *)
EXTENDS AdmissionWebhook

CONSTANTS dflt, t1

MCNames == {dflt, t1}
====
